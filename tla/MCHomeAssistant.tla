-------------------------- MODULE MCHomeAssistant ---------------------------
EXTENDS HomeAssistant

MCInterval == [j \in Job |-> 1]
MCSetups == {{"fetch", "publish"}, {"publish", "web"}, {"cron"}, {"publish", "cron"}}
=============================================================================
