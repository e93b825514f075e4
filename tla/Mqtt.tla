-------------------------------- MODULE Mqtt --------------------------------
(***************************************************************************)
(* Publishing to the MQTT broker: one connection per publish, a list of    *)
(* QoS-1 messages, one deadline for all the acknowledgements, a teardown   *)
(* that hides its own failures, and the Last Will the broker keeps.        *)
(*                                                                         *)
(* A broker handles the messages of one connection in the order they were  *)
(* sent; different connections it interleaves.  A publisher that gives up  *)
(* leaves behind what the network still carries: a prefix of what it had   *)
(* not seen acknowledged, handled at any later time, and, if the broker    *)
(* never saw a clean disconnect, the will.                                 *)
(*                                                                         *)
(* Abstracted: topics to the kinds of sensor they serve (the discovery     *)
(* topics of one list are one topic), payloads to tuples of numbers.  A    *)
(* broker keeps its retained topics.  At most one abandoned connection per *)
(* publisher is in the network at a time.                                  *)
(***************************************************************************)
EXTENDS Naturals, Sequences

CONSTANT MaxFaults   \* how often the network, the broker or a process fails

ASSUME MqttAssumption == MaxFaults \in Nat

VARIABLES
    retained,   \* broker: the retained payload of each topic, <<>> if none
    announced,  \* broker: the discovery configs retained, each on its topic
    open,       \* is the publisher connected
    out,        \* the messages of its connection not acknowledged yet, in order
    stale,      \* what its last abandoned connection still has in the network
    faults      \* the failures so far

mqttVars == <<retained, announced, open, out, stale, faults>>

-----------------------------------------------------------------------------
\* The scheduler's job, the "Publish now" button and the update check, each
\* with a client id of its own: the broker never takes one for another.
Publisher == {"worker", "web", "cron"}

StateTopic == {"availability", "state", "plan", "update"}
DiscoveryTopic == {"state/config", "plan/config", "update/config"}
Message == [topic : StateTopic \cup DiscoveryTopic, payload : Seq(Nat)]

Say(topic, payload) == [topic |-> topic, payload |-> payload]

\* ONLINE and OFFLINE.
Online == <<1>>
Offline == <<0>>

\* The discovery topic of a state topic, and the config retained there.
ConfigFor(topic, keys) ==
    Say(CASE topic = "state" -> "state/config"
          [] topic = "plan" -> "plan/config"
          [] topic = "update" -> "update/config", keys)

\* Mutant: the state goes out before the config of its sensor.
StateFirst(topic, keys, payload) ==
    << Say("availability", Online), Say(topic, payload), ConfigFor(topic, keys) >>

\* Mutant: the will is left, but online is never said.
NeverOnline(topic, keys, payload) ==
    << ConfigFor(topic, keys), Say(topic, payload) >>

\* publish_metrics, publish_plan and publish_update: availability first, then
\* the discovery configs, then the state.
SensorMessages(topic, keys, payload) ==
    << Say("availability", Online), ConfigFor(topic, keys), Say(topic, payload) >>

Nothing == [out |-> <<>>, will |-> FALSE]

MqttTypeOK ==
    /\ retained \in [StateTopic -> Seq(Nat)]
    /\ announced \subseteq Message
    /\ open \in [Publisher -> BOOLEAN]
    /\ out \in [Publisher -> Seq(Message)]
    /\ stale \in [Publisher -> [out : Seq(Message), will : BOOLEAN]]
    /\ faults \in 0 .. MaxFaults

MqttInit ==
    /\ retained = [t \in StateTopic |-> <<>>]
    /\ announced = {}
    /\ open = [p \in Publisher |-> FALSE]
    /\ out = [p \in Publisher |-> <<>>]
    /\ stale = [p \in Publisher |-> Nothing]
    /\ faults = 0

-----------------------------------------------------------------------------
(* The broker. *)

\* It retains the last state of a topic and the config of each sensor.
RetainedAfter(messages) ==
    [t \in StateTopic |->
        IF \E m \in messages : m.topic = t
        THEN (CHOOSE m \in messages : m.topic = t).payload ELSE retained[t]]
AnnouncedAfter(messages) ==
    announced \cup {m \in messages : m.topic \in DiscoveryTopic}

Handle(message) ==
    /\ retained' = RetainedAfter({message})
    /\ announced' = AnnouncedAfter({message})

\* It handles the next message of a connection, and acknowledges it.
Deliver(p) ==
    /\ open[p] /\ out[p] # <<>>
    /\ Handle(Head(out[p]))
    /\ out' = [out EXCEPT ![p] = Tail(@)]
    /\ UNCHANGED <<open, stale, faults>>

\* It handles the next message an abandoned connection left in the network.
DeliverStale(p) ==
    /\ stale[p].out # <<>>
    /\ Handle(Head(stale[p].out))
    /\ stale' = [stale EXCEPT ![p].out = Tail(@)]
    /\ UNCHANGED <<open, out, faults>>

\* The keepalive of an abandoned connection runs out: its will is published.
FireWill(p) ==
    /\ stale[p].out = <<>> /\ stale[p].will
    /\ Handle(Say("availability", Offline))
    /\ stale' = [stale EXCEPT ![p] = Nothing]
    /\ UNCHANGED <<open, out, faults>>

\* The connection breaks and the client's network thread makes a new one: the
\* broker fires the will of the old one, and what was not acknowledged is sent
\* again, be it that the broker had handled the first of it.
Reconnect(p) ==
    /\ open[p] /\ faults < MaxFaults
    /\ \E handled \in {{}, {out[p][i] : i \in DOMAIN out[p] \cap {1}}} :
          /\ retained' = [RetainedAfter(handled) EXCEPT !["availability"] = Offline]
          /\ announced' = AnnouncedAfter(handled)
    /\ faults' = faults + 1
    /\ UNCHANGED <<open, out, stale>>

-----------------------------------------------------------------------------
(* MqttPublisher._with_connection, the parts the publishers combine. *)

\* Connect, leaving a will, and hand all the messages to the client.
Connected(p, messages) ==
    /\ ~open[p]
    /\ open' = [open EXCEPT ![p] = TRUE]
    /\ out' = [out EXCEPT ![p] = messages]
    /\ UNCHANGED <<retained, announced, stale, faults>>

\* _teardown, after which the connection is the broker's alone: what it still
\* gets of it, and whether its will is due.
Teardown(p, left) ==
    /\ open' = [open EXCEPT ![p] = FALSE]
    /\ out' = [out EXCEPT ![p] = <<>>]
    /\ stale' = [stale EXCEPT ![p] = left]
    /\ UNCHANGED <<retained, announced>>

\* What can be left of the connection of p: the network carries some of what was
\* not acknowledged, and the disconnect got through or not.
Leftover(p) ==
    {[out |-> SubSeq(out[p], 1, n), will |-> w] :
        n \in 0 .. Len(out[p]), w \in BOOLEAN}

\* _wait_for_publish saw every acknowledgement; the broker sees a clean disconnect.
Acknowledged(p) ==
    /\ open[p] /\ out[p] = <<>>
    /\ Teardown(p, stale[p])
    /\ UNCHANGED faults

\* The deadline passed with messages not acknowledged: the wait ends with a break,
\* and nothing is raised.
TimedOut(p) ==
    /\ open[p] /\ out[p] # <<>> /\ faults < MaxFaults /\ stale[p] = Nothing
    /\ \E left \in Leftover(p) : Teardown(p, left)
    /\ faults' = faults + 1

\* wait_for_publish raises RuntimeError, or publish does: an MqttError.
Rejected(p) ==
    /\ open[p] /\ faults < MaxFaults /\ stale[p] = Nothing
    /\ \E left \in Leftover(p) : Teardown(p, left)
    /\ faults' = faults + 1

\* connect raises: an MqttError, and no connection.
Refused(p) ==
    /\ ~open[p] /\ faults < MaxFaults
    /\ faults' = faults + 1
    /\ UNCHANGED <<retained, announced, open, out, stale>>

\* The process stops: what it had not seen acknowledged may get through, and the
\* broker fires the will it was left.
Cut(p) ==
    /\ faults < MaxFaults
    /\ stale[p] = Nothing
    /\ IF open[p]
       THEN \E left \in {l \in Leftover(p) : l.will} : Teardown(p, left)
       ELSE UNCHANGED <<retained, announced, open, out, stale>>
    /\ faults' = faults + 1
=============================================================================
