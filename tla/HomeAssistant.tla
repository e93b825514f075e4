---------------------------- MODULE HomeAssistant ----------------------------
(***************************************************************************)
(* What Home Assistant is told: the worker's scheduler and its two jobs,   *)
(* the "Publish now" button, and the update check cron runs on the host,   *)
(* each a publisher over Mqtt.                                             *)
(*                                                                         *)
(* The household's figures are a version number: every write is a new      *)
(* version, a snapshot is the version it was read from.  The plan is read  *)
(* after the metrics are out, so it may be of a later version.  A verdict  *)
(* of the update check is <<head, newest>>, releases numbered from 1.      *)
(*                                                                         *)
(* Abstracted: the figures themselves (see Household) and the alerts,      *)
(* which come last, on connections of their own without a will, and leave  *)
(* nothing with the broker.                                                *)
(***************************************************************************)
EXTENDS Mqtt, FiniteSets

CONSTANTS
    MaxVersion,   \* bounds the writes of the household
    MaxRelease,   \* bounds the releases tagged
    Interval,     \* of each job of the worker, in ticks of the clock
    Setups        \* the choices of parts to look at, each optional in the settings

Job == {"fetch", "publish"}
Part == Job \cup {"web", "cron"}
Version == 1 .. MaxVersion

ASSUME HomeAssistantAssumption ==
    /\ MaxVersion \in Nat /\ MaxVersion > 0
    /\ MaxRelease \in Nat
    /\ Interval \in [Job -> Nat \ {0}]
    /\ Setups \subseteq SUBSET Part

VARIABLES
    enabled,    \* the parts this installation runs: jobs, MQTT from the web, cron
    household,  \* the version of the household's data
    newest,     \* the newest release tag, 0 if there is none
    head,       \* the newest release reachable from the checkout's HEAD, 0 if none is
    deployed,   \* the release that runs, 0 if it is none
    file,       \* data/update_status.json
    pc,         \* what each publisher is about
    got,        \* the snapshot or verdict it has in hand
    next_due,   \* ticks until each job is due
    due,        \* jobs the scheduler's round has found due and not run yet
    crowded     \* auxiliary: figures of two snapshots are under way at a time

vars == <<mqttVars, enabled, household, newest, head, deployed, file, pc, got, next_due,
          due, crowded>>

-----------------------------------------------------------------------------
Verdict == (0 .. MaxRelease) \X (0 .. MaxRelease)
NoFile == <<>>

\* select_update: nothing running, or older than the newest release.
UpdateAvailable(verdict) == verdict[2] > 0 /\ verdict[1] < verdict[2]

TypeOK ==
    /\ MqttTypeOK
    /\ enabled \in Setups
    /\ household \in Version
    /\ newest \in 0 .. MaxRelease
    /\ head \in 0 .. newest
    /\ deployed \in 0 .. head
    /\ file \in Verdict \cup {NoFile}
    /\ pc \in [Publisher -> {"idle", "metrics", "plan", "check", "update"}]
    /\ got \in [Publisher -> Seq(Nat)]
    /\ next_due \in [Job -> Nat] /\ \A j \in Job : next_due[j] <= Interval[j]
    /\ due \subseteq Job
    /\ crowded \in BOOLEAN

Init ==
    /\ MqttInit
    /\ enabled \in Setups
    /\ household = 1
    /\ newest = 0 /\ head = 0 /\ deployed = 0
    /\ file = NoFile
    /\ pc = [p \in Publisher |-> "idle"]
    /\ got = [p \in Publisher |-> <<>>]
    /\ next_due = [j \in Job |-> 0]
    /\ due = {}
    /\ crowded = FALSE

-----------------------------------------------------------------------------
(* The world around, as far as the enabled parts look at it: the household goes *)
(* on, releases are tagged, pulled and deployed.                                *)

HouseholdChanges ==
    /\ household < MaxVersion /\ enabled # {"cron"}
    /\ household' = household + 1
    /\ UNCHANGED <<mqttVars, newest, head, deployed, file, pc, got, next_due, due>>

TagRelease ==
    /\ newest < MaxRelease /\ "cron" \in enabled
    /\ newest' = newest + 1
    /\ UNCHANGED <<mqttVars, household, head, deployed, file, pc, got, next_due, due>>

\* deploy.sh --pull moves the checkout before it builds anything.
Pull ==
    /\ head' = newest
    /\ UNCHANGED <<mqttVars, household, newest, deployed, file, pc, got, next_due, due>>

\* deploy.sh leaves what it built from the checkout running.  A deployment that
\* fails, or is rolled back to the image that ran before, leaves both as they were.
DeployHead ==
    /\ deployed' = head
    /\ UNCHANGED <<mqttVars, household, newest, head, file, pc, got, next_due, due>>

-----------------------------------------------------------------------------
(* The scheduler, _run_scheduler. *)

\* The clock, which runs whatever the worker does.
Tick ==
    /\ \E j \in Job : next_due[j] > 0
    /\ next_due' = [j \in Job |-> IF next_due[j] > 0 THEN next_due[j] - 1 ELSE 0]
    /\ UNCHANGED <<mqttVars, household, newest, head, deployed, file, pc, got, due>>

\* Mutant: the clock is read again after every job, and the list starts over.
WakeMutant ==
    /\ pc["worker"] = "idle" /\ due = {}
    /\ due' = LET now == {j \in Job \cap enabled : next_due[j] = 0}
              IN  IF "fetch" \in now THEN {"fetch"} ELSE now
    /\ due' # {}
    /\ UNCHANGED <<mqttVars, household, newest, head, deployed, file, pc, got, next_due>>

\* A round reads the clock once; a job that comes due while another runs waits for
\* the next round.
Wake ==
    /\ pc["worker"] = "idle" /\ due = {}
    /\ due' = {j \in Job \cap enabled : next_due[j] = 0}
    /\ due' # {}
    /\ UNCHANGED <<mqttVars, household, newest, head, deployed, file, pc, got, next_due>>

\* Mutant: the interval is counted from the tick after the job ended.
JobOverMutant(j) == next_due' = [next_due EXCEPT ![j] = Interval[j] + 1]

\* Job j is over, one way or the other, and due again an interval from now.
JobOver(j) == next_due' = [next_due EXCEPT ![j] = Interval[j]]

\* _run_myfund_fetch, the first job of the list: it imports positions, finds no
\* account to import into, or fails.
FetchMyfund ==
    /\ pc["worker"] = "idle" /\ "fetch" \in due
    /\ due' = due \ {"fetch"}
    /\ JobOver("fetch")
    /\ \/ household < MaxVersion /\ household' = household + 1
       \/ UNCHANGED household
    /\ UNCHANGED <<mqttVars, newest, head, deployed, file, pc, got>>

\* Mutant: the metrics are those collected when the worker started.
MqttPublishMutant ==
    /\ pc["worker"] = "idle" /\ "publish" \in due /\ "fetch" \notin due
    /\ due' = due \ {"publish"}
    /\ pc' = [pc EXCEPT !["worker"] = "metrics"]
    /\ got' = [got EXCEPT !["worker"] = <<1>>]
    /\ UNCHANGED <<mqttVars, household, newest, head, deployed, file, next_due>>

\* _run_mqtt_publish, the second: publish_snapshot collects the metrics first.
MqttPublish ==
    /\ pc["worker"] = "idle" /\ "publish" \in due /\ "fetch" \notin due
    /\ due' = due \ {"publish"}
    /\ pc' = [pc EXCEPT !["worker"] = "metrics"]
    /\ got' = [got EXCEPT !["worker"] = <<household>>]
    /\ UNCHANGED <<mqttVars, household, newest, head, deployed, file, next_due>>

-----------------------------------------------------------------------------
(* The publishers. *)

\* publish_now: the button of the Home Assistant page.
PublishNow ==
    /\ "web" \in enabled /\ pc["web"] = "idle"
    /\ pc' = [pc EXCEPT !["web"] = "metrics"]
    /\ got' = [got EXCEPT !["web"] = <<household>>]
    /\ UNCHANGED <<mqttVars, household, newest, head, deployed, file, next_due, due>>

\* Mutant: nothing is published unless an update waits.
CheckUpdateMutant ==
    /\ "cron" \in enabled /\ pc["cron"] = "idle" /\ newest > head
    /\ pc' = [pc EXCEPT !["cron"] = "check"]
    /\ got' = [got EXCEPT !["cron"] = <<head, newest>>]
    /\ UNCHANGED <<mqttVars, household, newest, head, deployed, file, next_due, due>>

\* check_update.sh fetches the tags and takes the one reachable from HEAD for what is
\* deployed; with no tag it stops.
CheckUpdate ==
    /\ "cron" \in enabled /\ pc["cron"] = "idle" /\ newest > 0
    /\ pc' = [pc EXCEPT !["cron"] = "check"]
    /\ got' = [got EXCEPT !["cron"] = <<head, newest>>]
    /\ UNCHANGED <<mqttVars, household, newest, head, deployed, file, next_due, due>>

\* Mutant: the verdict is saved only if an update waits.
SaveStatusMutant ==
    /\ pc["cron"] = "check"
    /\ file' = IF UpdateAvailable(got["cron"]) THEN got["cron"] ELSE file
    /\ pc' = [pc EXCEPT !["cron"] = "update"]
    /\ UNCHANGED <<mqttVars, household, newest, head, deployed, got, next_due, due>>

\* update_notify.main: the verdict is saved for the Updates page, then published.
SaveStatus ==
    /\ pc["cron"] = "check"
    /\ file' = got["cron"]
    /\ pc' = [pc EXCEPT !["cron"] = "update"]
    /\ UNCHANGED <<mqttVars, household, newest, head, deployed, got, next_due, due>>

\* The lists of publish_metrics, publish_plan and publish_update.
Messages(phase, payload) ==
    CASE phase = "metrics" -> SensorMessages("state", payload, payload)
      [] phase = "plan" -> SensorMessages("plan", <<>>, payload)
      [] phase = "update" -> SensorMessages("update", <<>>, payload)

Connect(p) ==
    /\ pc[p] \notin {"idle", "check"}
    /\ Connected(p, Messages(pc[p], got[p]))
    /\ UNCHANGED <<household, newest, head, deployed, file, pc, got, next_due, due>>

\* publish_snapshot or _publish returns, or the error it raised is logged or shown.
Over(p) ==
    /\ pc' = [pc EXCEPT ![p] = "idle"]
    /\ got' = [got EXCEPT ![p] = <<>>]
    /\ IF p = "worker" THEN JobOver("publish") ELSE UNCHANGED next_due

\* One list is published, or passes for it; the plan is read after the metrics.
GoOn(p) ==
    \/ /\ pc[p] = "metrics"
       /\ pc' = [pc EXCEPT ![p] = "plan"]
       /\ \E v \in got[p][1] .. household : got' = [got EXCEPT ![p] = <<v>>]
       /\ UNCHANGED next_due
    \/ /\ pc[p] \in {"plan", "update"}
       /\ Over(p)

Published(p) ==
    /\ Acknowledged(p) \/ TimedOut(p)
    /\ GoOn(p)
    /\ UNCHANGED <<household, newest, head, deployed, file, due>>

\* The error ends the job, the request or the check; nothing retries it before the
\* next interval, click or check.
Failed(p) ==
    /\ pc[p] \notin {"idle", "check"}
    /\ Refused(p) \/ Rejected(p)
    /\ Over(p)
    /\ UNCHANGED <<household, newest, head, deployed, file, due>>

\* A container is stopped or the host goes down; the worker that comes back finds
\* every job due.
Crash(p) ==
    /\ pc[p] # "idle" \/ (p = "worker" /\ Job \cap enabled # {})
    /\ Cut(p)
    /\ pc' = [pc EXCEPT ![p] = "idle"]
    /\ got' = [got EXCEPT ![p] = <<>>]
    /\ IF p = "worker"
       THEN next_due' = [j \in Job |-> 0] /\ due' = {}
       ELSE UNCHANGED <<next_due, due>>
    /\ UNCHANGED <<household, newest, head, deployed, file>>

Broker(p) ==
    /\ Deliver(p) \/ DeliverStale(p) \/ FireWill(p) \/ Reconnect(p)
    /\ UNCHANGED <<household, newest, head, deployed, file, pc, got, next_due, due>>

-----------------------------------------------------------------------------
\* Does the abandoned connection of p still carry figures?
LeftBehind(p) == \E i \in DOMAIN stale[p].out : stale[p].out[i].topic = "state"

\* Publishers that hold or have in the network figures that are not out yet.
Carriers == {p \in Publisher : pc[p] = "metrics" \/ LeftBehind(p)}

\* crowded is set when a second one joins, a publisher that meets its own abandoned
\* connection included, and cleared once all are through.
Watch ==
    crowded' = \/ Cardinality(Carriers') > 1
               \/ \E p \in Publisher : pc'[p] = "metrics" /\ LeftBehind(p)'
               \/ crowded /\ Carriers' # {}

Step ==
    \/ HouseholdChanges \/ TagRelease \/ Pull \/ DeployHead
    \/ Tick \/ Wake \/ FetchMyfund \/ MqttPublish
    \/ PublishNow \/ CheckUpdate \/ SaveStatus
    \/ \E p \in Publisher :
          Connect(p) \/ Published(p) \/ Failed(p) \/ Crash(p) \/ Broker(p)

\* A step of the system, with what goes along with every step.
Whole(A) == A /\ Watch /\ UNCHANGED enabled

Next == Whole(Step)

\* The scheduler loops for ever, whatever a job does; cron runs the check again and
\* again (README.md:191); the network thread of a client and the broker go on.
\* Faults, clicks, writes, releases and deployments owe nothing.
Fairness ==
    /\ WF_vars(Whole(Tick))
    /\ WF_vars(Whole(Wake \/ FetchMyfund \/ MqttPublish))
    /\ WF_vars(Whole(CheckUpdate \/ SaveStatus))
    /\ \A p \in Publisher :
          /\ WF_vars(Whole(\/ Connect(p)
                           \/ Deliver(p) /\ Broker(p)
                           \/ Acknowledged(p) /\ Published(p)))
          /\ WF_vars(Whole((DeliverStale(p) \/ FireWill(p)) /\ Broker(p)))

Spec == Init /\ [][Next]_vars /\ Fairness

-----------------------------------------------------------------------------
(* Properties. *)

\* The config that announces the sensor of a state.
Announcing(topic, payload) == ConfigFor(topic, IF topic = "state" THEN payload ELSE <<>>)

\* A sensor's state is retained only after the config that announces it, so Home
\* Assistant never gets a figure it has no sensor for (the order of the lists of
\* publish_metrics, publish_plan and publish_update, under loss from the tail and
\* repetition).
AnnouncedFirst ==
    \A t \in StateTopic \ {"availability"} :
        retained[t] # <<>> => Announcing(t, retained[t]) \in announced

\* Figures older than those Home Assistant shows replace them only while two
\* snapshots are under way at a time: a publisher alone never takes it back.
OnlyCrowdsGoBack ==
    [][ /\ retained["state"] # <<>>
        /\ retained'["state"][1] < retained["state"][1]
        => crowded ]_vars

\* What is in the file is as new as a verdict.
Covers(status, verdict) ==
    status # NoFile /\ verdict[1] <= status[1] /\ verdict[2] <= status[2]

\* The Updates page (the file) is never behind the sensor: main saves the verdict
\* before it publishes it, whatever fails in between.
PageNotBehindSensor ==
    retained["update"] # <<>> => Covers(file, retained["update"])

\* Every write reaches Home Assistant, as this version or a later one and with the
\* sensors available, although a publish may time out, be refused, be cut off or
\* overwrite a newer one, a will may fire late, and nothing is retried.
Shows(v) ==
    /\ retained["availability"] = Online
    /\ retained["state"] # <<>> /\ retained["state"][1] >= v
    /\ retained["plan"] # <<>> /\ retained["plan"][1] >= v

Refreshed == []<>("publish" \in enabled => Shows(household))

\* Each job of the worker runs again and again: none dies of an error of its own or
\* of another's, and none waits for ever behind another that is due more often.
JobsRunAgain == \A j \in Job : []<>(j \in enabled => next_due[j] > 0)

\* The newest release is checked out but does not run: deploy.sh --pull built
\* nothing yet, failed, or was rolled back, which leaves HEAD where it is.
PulledOnly == deployed < newest /\ head = newest

\* A release that waits is shown, and the sensor flips back once it is deployed
\* ("Published every check so the sensor always reflects reality"), with one
\* exception: a release that was only pulled passes for the one that runs, since
\* check_update.sh takes "HEAD == what's running" (lines 60-63).
UpdateShown ==
    []<>("cron" \in enabled /\ newest > 0 =>
            /\ retained["update"] # <<>>
            /\ UpdateAvailable(retained["update"]) <=> deployed < newest /\ ~PulledOnly)

-----------------------------------------------------------------------------
(* What a comment and the page say and the code does not do. *)

\* "All publishes are QoS 1 and waited on before the connection is torn down, so
\* nothing is dropped" (mqtt.py:111), and the page's "Published ... sensors to Home
\* Assistant": publish_snapshot goes on to the plan only once every message of the
\* metrics was acknowledged.
PublishedIsDelivered ==
    [][\A p \in Publisher :
          pc[p] = "metrics" /\ pc'[p] = "plan" => out[p] = <<>>]_vars

-----------------------------------------------------------------------------
(* Why they hold *)

\* Figures of the versions up to one.
Snapshots(version) == {<<v>> : v \in 1 .. version}

\* A publisher has in hand what it is about to publish; the check knows no more
\* than there is, and its verdict is saved before it is about to be published.
HandsSound ==
    /\ pc["worker"] \in {"idle", "metrics", "plan"}
    /\ pc["web"] \in {"idle", "metrics", "plan"}
    /\ pc["cron"] \in {"idle", "check", "update"}
    /\ \A p \in Publisher : pc[p] \in {"metrics", "plan"} => got[p] \in Snapshots(household)
    /\ pc["cron"] \in {"check", "update"} =>
          /\ got["cron"] \in Verdict
          /\ got["cron"][1] <= head /\ got["cron"][2] <= newest
    /\ pc["cron"] = "update" => Covers(file, got["cron"])

\* The verdicts get only newer.
FileSound ==
    file # NoFile =>
        /\ file[1] <= head /\ file[2] <= newest
        /\ pc["cron"] = "check" => file[1] <= got["cron"][1] /\ file[2] <= got["cron"][2]

\* A list on its way, whole or cut short at either end: no topic twice, figures of
\* a version there was, a verdict that was saved, and every state behind the config
\* of its sensor, unless that is retained already.
ListSound(list, version, status, configs) ==
    /\ \A i, j \in DOMAIN list : list[i].topic = list[j].topic => i = j
    /\ \A i \in DOMAIN list :
          LET m == list[i] IN
          /\ m.topic \in {"state", "plan"} => m.payload \in Snapshots(version)
          /\ m.topic = "update" => m.payload \in Verdict /\ Covers(status, m.payload)
          /\ m.topic \in StateTopic \ {"availability"} =>
                Announcing(m.topic, m.payload) \in configs \cup {list[j] : j \in 1 .. i - 1}

Sound(list) == ListSound(list, household, file, announced)

ListsSound ==
    \A p \in Publisher :
        /\ Sound(out[p]) /\ Sound(stale[p].out)
        /\ open[p] => pc[p] \notin {"idle", "check"}
        /\ ~open[p] => out[p] = <<>>
        /\ \A i \in DOMAIN out[p] :
              out[p][i].topic = "state" => pc[p] = "metrics" /\ out[p][i].payload = got[p]

\* What the broker has retained was said.
ShownSound ==
    /\ retained["state"] # <<>> => retained["state"] \in Snapshots(household)
    /\ retained["update"] # <<>> => retained["update"] \in Verdict

\* The figures of at most one snapshot are under way.
Alone ==
    /\ \A p, q \in Carriers : p = q
    /\ \A p \in Publisher : pc[p] = "metrics" => ~LeftBehind(p)

\* The figures under way are not older than the ones that are shown.
NotBehind ==
    retained["state"] # <<>> =>
        \A p \in Publisher :
            /\ pc[p] = "metrics" => got[p][1] >= retained["state"][1]
            /\ \A i \in DOMAIN stale[p].out :
                  stale[p].out[i].topic = "state" =>
                      stale[p].out[i].payload[1] >= retained["state"][1]

IInv ==
    /\ TypeOK
    /\ HandsSound /\ FileSound /\ ListsSound
    /\ ShownSound /\ AnnouncedFirst /\ PageNotBehindSensor
    /\ ~crowded => Alone /\ NotBehind
=============================================================================
