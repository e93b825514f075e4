------------------------ MODULE HomeAssistantProofs -------------------------
(***************************************************************************)
(* Theorems about what Home Assistant is told, for any number of versions, *)
(* releases and faults and any choice of parts: a sensor is announced      *)
(* before its first state, the Updates page is never behind the sensor,    *)
(* and figures go back only while two snapshots are under way at a time.   *)
(***************************************************************************)
EXTENDS HomeAssistant, FiniteSetTheorems, TLAPS

-----------------------------------------------------------------------------
(* Lists of messages.                                                      *)

\* A config is on a discovery topic, and its keys are what it says.
LEMMA AnnouncingType ==
    ASSUME NEW topic \in StateTopic \ {"availability"}, NEW payload \in Seq(Nat)
    PROVE  /\ Announcing(topic, payload) \in Message
           /\ Announcing(topic, payload).topic \in DiscoveryTopic
  <1>1. <<>> \in Seq(Nat)
    OBVIOUS
  <1>2. topic \in {"state", "plan", "update"}
    BY DEF StateTopic
  <1> QED
    BY <1>1, <1>2 DEF Announcing, ConfigFor, Say, Message, DiscoveryTopic

LEMMA SnapshotIsSaid ==
    ASSUME NEW n \in Nat, NEW s \in Snapshots(n)
    PROVE  s # <<>> /\ s[1] \in Nat
  <1>1. PICK v \in 1 .. n : s = <<v>>
    BY DEF Snapshots
  <1>2. Len(s) = 1 /\ Len(<<>>) = 0
    BY <1>1
  <1> QED
    BY <1>1, <1>2

LEMMA EmptyIsSound ==
    ASSUME NEW v, NEW f, NEW a
    PROVE  ListSound(<<>>, v, f, a)
  BY DEF ListSound

\* A list stays sound as the household, the file and what is announced grow.
LEMMA ListGrows ==
    ASSUME NEW list \in Seq(Message), NEW v \in Nat, NEW w \in Nat, v <= w,
           NEW f, NEW g, \A u \in Verdict : Covers(f, u) => Covers(g, u),
           NEW a, NEW b, a \subseteq b,
           ListSound(list, v, f, a)
    PROVE  ListSound(list, w, g, b)
  <1>1. Snapshots(v) \subseteq Snapshots(w)
    BY DEF Snapshots
  <1> SUFFICES ASSUME NEW i \in DOMAIN list
               PROVE  /\ list[i].topic \in {"state", "plan"} =>
                           list[i].payload \in Snapshots(w)
                      /\ list[i].topic = "update" =>
                           list[i].payload \in Verdict /\ Covers(g, list[i].payload)
                      /\ list[i].topic \in StateTopic \ {"availability"} =>
                           Announcing(list[i].topic, list[i].payload)
                               \in b \cup {list[j] : j \in 1 .. i - 1}
    BY DEF ListSound
  <1> QED
    BY <1>1 DEF ListSound

\* What is left of a list once its first message was handled.
LEMMA TailIsSound ==
    ASSUME NEW list \in Seq(Message), list # <<>>, NEW v, NEW f, NEW a,
           ListSound(list, v, f, a)
    PROVE  /\ Tail(list) \in Seq(Message)
           /\ ListSound(Tail(list), v, f,
                        a \cup {m \in {Head(list)} : m.topic \in DiscoveryTopic})
           /\ \A i \in DOMAIN Tail(list) : i + 1 \in DOMAIN list /\ Tail(list)[i] = list[i + 1]
  <1> DEFINE rest == Tail(list)
             said == {m \in {Head(list)} : m.topic \in DiscoveryTopic}
  <1>1. /\ rest \in Seq(Message)
        /\ \A i \in DOMAIN rest : i \in Nat /\ i >= 1 /\ i + 1 \in DOMAIN list
                                  /\ rest[i] = list[i + 1]
        /\ Head(list) = list[1]
        /\ Len(rest) = Len(list) - 1 /\ DOMAIN rest = 1 .. Len(rest) /\ Len(list) \in Nat
    OBVIOUS
  <1> HIDE DEF rest
  <1>2. \A i, j \in DOMAIN rest : rest[i].topic = rest[j].topic => i = j
    BY <1>1 DEF ListSound
  <1>3. ASSUME NEW i \in DOMAIN rest, rest[i].topic \in StateTopic \ {"availability"}
        PROVE  Announcing(rest[i].topic, rest[i].payload)
                   \in (a \cup said) \cup {rest[j] : j \in 1 .. i - 1}
    <2> DEFINE c == Announcing(rest[i].topic, rest[i].payload)
    <2>1. c \in a \cup {list[j] : j \in 1 .. (i + 1) - 1}
      BY <1>1, <1>3 DEF ListSound
    <2>2. c.topic \in DiscoveryTopic
      <3>1. rest[i] \in Message
        BY <1>1
      <3> QED
        BY <1>3, <3>1, AnnouncingType DEF Message
    <2> HIDE DEF c
    <2>3. ASSUME NEW j \in 1 .. (i + 1) - 1, c = list[j]
          PROVE  c \in said \cup {rest[k] : k \in 1 .. i - 1}
      <3>1. CASE j = 1
        BY <1>1, <2>2, <2>3, <3>1
      <3>2. CASE j # 1
        <4>1. j - 1 \in 1 .. i - 1 /\ j - 1 \in DOMAIN rest
          BY <1>1, <3>2
        <4>2. rest[j - 1] = list[(j - 1) + 1]
          BY <1>1, <4>1
        <4>3. (j - 1) + 1 = j
          BY <1>1
        <4> QED
          BY <2>3, <4>1, <4>2, <4>3
      <3> QED
        BY <3>1, <3>2
    <2> QED
      BY <2>1, <2>3 DEF c
  <1>4. ASSUME NEW i \in DOMAIN rest
        PROVE  /\ rest[i].topic \in {"state", "plan"} => rest[i].payload \in Snapshots(v)
               /\ rest[i].topic = "update" =>
                    rest[i].payload \in Verdict /\ Covers(f, rest[i].payload)
    BY <1>1 DEF ListSound
  <1>5. ListSound(rest, v, f, a \cup said)
    BY <1>2, <1>3, <1>4 DEF ListSound
  <1> QED
    BY <1>1, <1>5 DEF rest

\* What the network carries of a list when the publisher gives up.
LEMMA PrefixIsSound ==
    ASSUME NEW list \in Seq(Message), NEW n \in 0 .. Len(list), NEW v, NEW f, NEW a,
           ListSound(list, v, f, a)
    PROVE  /\ SubSeq(list, 1, n) \in Seq(Message)
           /\ ListSound(SubSeq(list, 1, n), v, f, a)
           /\ \A i \in DOMAIN SubSeq(list, 1, n) :
                 i \in DOMAIN list /\ SubSeq(list, 1, n)[i] = list[i]
  <1> DEFINE part == SubSeq(list, 1, n)
  <1>1. /\ part \in Seq(Message) /\ Len(list) \in Nat
        /\ DOMAIN part = 1 .. n /\ DOMAIN list = 1 .. Len(list)
        /\ \A i \in 1 .. n : part[i] = list[i]
    OBVIOUS
  <1> HIDE DEF part
  <1>2. \A i \in DOMAIN part : i \in DOMAIN list /\ part[i] = list[i]
    BY <1>1
  <1>3. \A i \in DOMAIN part : {list[j] : j \in 1 .. i - 1} = {part[j] : j \in 1 .. i - 1}
    BY <1>1
  <1>4. ListSound(part, v, f, a)
    BY <1>2, <1>3 DEF ListSound
  <1> QED
    BY <1>1, <1>2, <1>4 DEF part

\* The first message of a list says what it may, of a sensor that is announced.
LEMMA HeadIsSound ==
    ASSUME NEW list \in Seq(Message), list # <<>>, NEW v, NEW f, NEW a,
           ListSound(list, v, f, a)
    PROVE  LET m == Head(list) IN
           /\ m \in Message /\ 1 \in DOMAIN list /\ m = list[1]
           /\ m.topic \in {"state", "plan"} => m.payload \in Snapshots(v)
           /\ m.topic = "update" => m.payload \in Verdict /\ Covers(f, m.payload)
           /\ m.topic \in StateTopic \ {"availability"} =>
                Announcing(m.topic, m.payload) \in a
  <1>1. Head(list) \in Message /\ 1 \in DOMAIN list /\ Head(list) = list[1]
    OBVIOUS
  <1>2. {list[j] : j \in 1 .. 1 - 1} = {}
    OBVIOUS
  <1> QED
    BY <1>1, <1>2 DEF ListSound

\* The lists the publishers send are sound from the start.
LEMMA MessagesAreSound ==
    ASSUME NEW phase \in {"metrics", "plan", "update"}, NEW payload \in Seq(Nat),
           NEW v, NEW f, NEW a,
           phase \in {"metrics", "plan"} => payload \in Snapshots(v),
           phase = "update" => payload \in Verdict /\ Covers(f, payload)
    PROVE  /\ Messages(phase, payload) \in Seq(Message)
           /\ ListSound(Messages(phase, payload), v, f, a)
           /\ \A i \in DOMAIN Messages(phase, payload) :
                 Messages(phase, payload)[i].topic = "state" =>
                     phase = "metrics" /\ Messages(phase, payload)[i].payload = payload
  <1> DEFINE topic == IF phase = "metrics" THEN "state" ELSE phase
             list  == << Say("availability", Online), Announcing(topic, payload),
                         Say(topic, payload) >>
  <1>1. Messages(phase, payload) = list
    BY DEF Messages, SensorMessages, Announcing, ConfigFor
  <1>2. topic \in {"state", "plan", "update"} /\ topic \in StateTopic \ {"availability"}
    BY DEF StateTopic
  <1>3. /\ Say("availability", Online) \in Message
        /\ Say(topic, payload) \in Message
        /\ Say("availability", Online).topic = "availability"
        /\ Say(topic, payload).topic = topic /\ Say(topic, payload).payload = payload
    BY <1>2 DEF Say, Message, StateTopic, Online
  <1>4. Announcing(topic, payload) \in Message
        /\ Announcing(topic, payload).topic \in DiscoveryTopic
    BY <1>2, AnnouncingType
  <1>5. DiscoveryTopic \cap StateTopic = {} /\ "availability" \in StateTopic
    BY DEF DiscoveryTopic, StateTopic
  <1> HIDE DEF topic
  <1>6. /\ list \in Seq(Message) /\ DOMAIN list = 1 .. 3
        /\ list[1] = Say("availability", Online)
        /\ list[2] = Announcing(topic, payload)
        /\ list[3] = Say(topic, payload)
    BY <1>3, <1>4
  <1> HIDE DEF list
  <1>7. \A i \in DOMAIN list : i = 1 \/ i = 2 \/ i = 3
    BY <1>6
  <1>8. \A i \in DOMAIN list : list[i].topic \in {"state", "plan", "update"} =>
            i = 3 /\ list[i].topic = topic /\ list[i].payload = payload
    BY <1>3, <1>4, <1>6, <1>7 DEF DiscoveryTopic
  <1>9. topic = "state" <=> phase = "metrics"
    BY DEF topic
  <1>10. \A i, j \in DOMAIN list : list[i].topic = list[j].topic => i = j
    BY <1>2, <1>3, <1>4, <1>5, <1>6, <1>7
  <1>11. list[2] \in {list[j] : j \in 1 .. 3 - 1}
    OBVIOUS
  <1>12. ListSound(list, v, f, a)
    <2> SUFFICES ASSUME NEW i \in DOMAIN list
                 PROVE  /\ list[i].topic \in {"state", "plan"} =>
                             list[i].payload \in Snapshots(v)
                        /\ list[i].topic = "update" =>
                             list[i].payload \in Verdict /\ Covers(f, list[i].payload)
                        /\ list[i].topic \in StateTopic \ {"availability"} =>
                             Announcing(list[i].topic, list[i].payload)
                                 \in a \cup {list[j] : j \in 1 .. i - 1}
      BY <1>10 DEF ListSound
    <2>1. list[i].topic \in {"state", "plan"} => list[i].payload \in Snapshots(v)
      BY <1>8 DEF topic
    <2>2. list[i].topic = "update" => list[i].payload \in Verdict /\ Covers(f, list[i].payload)
      BY <1>8 DEF topic
    <2>3. ASSUME list[i].topic \in StateTopic \ {"availability"}
          PROVE  Announcing(list[i].topic, list[i].payload) \in {list[j] : j \in 1 .. i - 1}
      <3>1. list[i].topic \in {"state", "plan", "update"}
        BY <2>3 DEF StateTopic
      <3> QED
        BY <1>6, <1>8, <1>11, <3>1
    <2> QED
      BY <2>1, <2>2, <2>3
  <1> QED
    BY <1>1, <1>6, <1>8, <1>9, <1>12

-----------------------------------------------------------------------------
(* What the broker shows.                                                  *)

LEMMA HandledOne ==
    ASSUME MqttTypeOK, NEW m \in Message
    PROVE  /\ RetainedAfter({m}) \in [StateTopic -> Seq(Nat)]
           /\ \A t \in StateTopic :
                 RetainedAfter({m})[t] = IF m.topic = t THEN m.payload ELSE retained[t]
           /\ AnnouncedAfter({m}) = announced \cup {x \in {m} : x.topic \in DiscoveryTopic}
           /\ AnnouncedAfter({m}) \subseteq Message
  <1>1. m.payload \in Seq(Nat)
    BY DEF Message
  <1>2. \A t \in StateTopic : m.topic = t => (CHOOSE x \in {m} : x.topic = t) = m
    OBVIOUS
  <1>3. \A t \in StateTopic :
           RetainedAfter({m})[t] = IF m.topic = t THEN m.payload ELSE retained[t]
    BY <1>2 DEF RetainedAfter
  <1>4. \A t \in StateTopic : RetainedAfter({m})[t] \in Seq(Nat)
    BY <1>1, <1>3 DEF MqttTypeOK
  <1>5. RetainedAfter({m}) \in [StateTopic -> Seq(Nat)]
    BY <1>4 DEF RetainedAfter
  <1> QED
    BY <1>3, <1>5 DEF AnnouncedAfter, MqttTypeOK

LEMMA HandledNone ==
    ASSUME MqttTypeOK
    PROVE  RetainedAfter({}) = retained /\ AnnouncedAfter({}) = announced
  BY DEF MqttTypeOK, RetainedAfter, AnnouncedAfter

\* The network hands the broker the first message of a list, or none.
LEMMA SaidIsShown ==
    ASSUME TypeOK, ShownSound, AnnouncedFirst, PageNotBehindSensor,
           NEW list \in Seq(Message), list # <<>>, Sound(list),
           UNCHANGED <<household, file>>, announced \subseteq announced',
           \A t \in StateTopic \ {"availability"} :
               retained'[t] = IF Head(list).topic = t THEN Head(list).payload ELSE retained[t]
    PROVE  ShownSound' /\ AnnouncedFirst' /\ PageNotBehindSensor'
  <1>1. {"state", "update"} \subseteq StateTopic \ {"availability"}
    BY DEF StateTopic
  <1>2. LET m == Head(list) IN
           /\ m.topic = "state" => m.payload \in Snapshots(household)
           /\ m.topic = "update" => m.payload \in Verdict /\ Covers(file, m.payload)
           /\ m.topic \in StateTopic \ {"availability"} =>
                Announcing(m.topic, m.payload) \in announced
    BY HeadIsSound DEF Sound
  <1>3. ShownSound'
    BY <1>1, <1>2 DEF ShownSound
  <1>4. AnnouncedFirst'
    BY <1>2 DEF AnnouncedFirst
  <1>5. PageNotBehindSensor'
    BY <1>1, <1>2 DEF PageNotBehindSensor
  <1> QED
    BY <1>3, <1>4, <1>5

LEMMA ShownStays ==
    ASSUME TypeOK, ShownSound, AnnouncedFirst, PageNotBehindSensor,
           household <= household', household' \in Nat,
           \A u \in Verdict : Covers(file, u) => Covers(file', u),
           announced \subseteq announced',
           \A t \in StateTopic \ {"availability"} : retained'[t] = retained[t]
    PROVE  ShownSound' /\ AnnouncedFirst' /\ PageNotBehindSensor'
  <1>1. {"state", "update"} \subseteq StateTopic \ {"availability"}
    BY DEF StateTopic
  <1>2. household \in Nat /\ Snapshots(household) \subseteq Snapshots(household')
    BY DEF TypeOK, Version, Snapshots
  <1>3. ShownSound'
    BY <1>1, <1>2 DEF ShownSound
  <1>4. AnnouncedFirst'
    BY DEF AnnouncedFirst
  <1>5. PageNotBehindSensor'
    BY <1>1 DEF PageNotBehindSensor, ShownSound
  <1> QED
    BY <1>3, <1>4, <1>5

\* Lists nobody touches stay sound as the world goes on.
LEMMA ListsGrow ==
    ASSUME TypeOK, ListsSound,
           household <= household', household' \in Nat,
           \A u \in Verdict : Covers(file, u) => Covers(file', u),
           announced \subseteq announced'
    PROVE  \A p \in Publisher :
              /\ ListSound(out[p], household', file', announced')
              /\ ListSound(stale[p].out, household', file', announced')
  <1>1. household \in Nat
    BY DEF TypeOK, Version
  <1>2. \A list \in Seq(Message) :
           Sound(list) => ListSound(list, household', file', announced')
    BY <1>1, ListGrows DEF Sound
  <1>3. \A p \in Publisher : out[p] \in Seq(Message) /\ stale[p].out \in Seq(Message)
    BY DEF TypeOK, MqttTypeOK
  <1> QED
    BY <1>2, <1>3 DEF ListsSound

-----------------------------------------------------------------------------
(* Crowds.                                                                 *)

LEMMA PublishersAreThree == IsFiniteSet(Publisher)
  <1>1. IsFiniteSet({}) /\ Publisher = (({} \cup {"worker"}) \cup {"web"}) \cup {"cron"}
    BY FS_EmptySet DEF Publisher
  <1> QED
    BY <1>1, FS_AddElement

\* Unless there is a crowd, at most one publisher has figures under way, and if one
\* has there was no crowd before.
LEMMA NoCrowd ==
    ASSUME IInv, Watch, ~crowded'
    PROVE  /\ Alone'
           /\ Carriers' = {} \/ (Alone /\ NotBehind)
  <1>1. ~(Cardinality(Carriers') > 1)
    BY DEF Watch
  <1>2. \A p, q \in Carriers' : p = q
    <2>1. Carriers' \subseteq Publisher /\ IsFiniteSet(Carriers')
      BY PublishersAreThree, FS_Subset DEF Carriers
    <2> SUFFICES ASSUME NEW p \in Carriers', NEW q \in Carriers', p # q PROVE FALSE
      OBVIOUS
    <2>2. {p, q} \subseteq Carriers' /\ Cardinality({p, q}) = 2
      <3>1. Cardinality({p}) = 1 /\ IsFiniteSet({p})
        BY FS_Singleton
      <3>2. {p, q} = {p} \cup {q} /\ q \notin {p}
        OBVIOUS
      <3> QED
        BY <3>1, <3>2, FS_AddElement
    <2>3. Cardinality(Carriers') >= 2
      BY <2>1, <2>2, FS_Subset, FS_CardinalityType
    <2> QED
      BY <1>1, <2>1, <2>3, FS_CardinalityType
  <1>3. \A p \in Publisher : pc'[p] = "metrics" => ~LeftBehind(p)'
    BY DEF Watch
  <1>4. Carriers' = {} \/ ~crowded
    BY DEF Watch
  <1> QED
    BY <1>2, <1>3, <1>4 DEF Alone, IInv

\* With nothing under way nothing is behind.
LEMMA NothingUnderWay == Carriers = {} => NotBehind
  BY DEF Carriers, LeftBehind, NotBehind

-----------------------------------------------------------------------------
(* The world, the scheduler and the beginning of a publish.                *)

\* The household, the releases, the clock and the scheduler's round leave alone
\* what is under way.
Quietly ==
    /\ UNCHANGED <<mqttVars, enabled, file, pc, got>>
    /\ household' \in Version /\ household <= household'
    /\ newest' \in 0 .. MaxRelease /\ newest <= newest'
    /\ head' \in 0 .. newest' /\ head <= head'
    /\ deployed' \in 0 .. head'
    /\ next_due' \in [Job -> Nat] /\ \A j \in Job : next_due'[j] <= Interval[j]
    /\ due' \subseteq Job

LEMMA QuietKeeps ==
    ASSUME IInv, Quietly, Watch, crowded' \in BOOLEAN
    PROVE  IInv'
  <1> USE DEF IInv
  <1>1. TypeOK'
    BY DEF Quietly, TypeOK, MqttTypeOK, mqttVars
  <1>2. /\ household \in Nat /\ household' \in Nat
        /\ newest \in Nat /\ newest' \in Nat /\ head \in Nat /\ head' \in Nat
        /\ Snapshots(household) \subseteq Snapshots(household')
    BY DEF Quietly, TypeOK, Version, Snapshots
  <1>3. \A v \in Verdict : v[1] \in Nat /\ v[2] \in Nat
    BY HomeAssistantAssumption DEF Verdict
  <1>4. HandsSound'
    BY <1>2, <1>3 DEF Quietly, HandsSound, Covers
  <1>5. FileSound'
    <2>1. file # NoFile => file[1] \in Nat /\ file[2] \in Nat
      BY <1>3 DEF TypeOK
    <2> QED
      BY <1>2, <2>1 DEF Quietly, FileSound
  <1>6. ListsSound'
    <2>1. \A p \in Publisher :
             /\ ListSound(out[p], household', file', announced')
             /\ ListSound(stale[p].out, household', file', announced')
      BY <1>2, ListsGrow DEF Quietly, mqttVars
    <2> QED
      BY <2>1 DEF Quietly, mqttVars, ListsSound, Sound
  <1>7. ShownSound' /\ AnnouncedFirst' /\ PageNotBehindSensor'
    BY <1>2, ShownStays DEF Quietly, mqttVars
  <1>8. ASSUME ~crowded' PROVE Alone' /\ NotBehind'
    <2>1. Alone' /\ (Carriers' = {} \/ NotBehind)
      BY <1>8, NoCrowd
    <2>2. Carriers' = Carriers
      BY DEF Quietly, mqttVars, Carriers, LeftBehind
    <2>3. NotBehind' <=> NotBehind
      BY DEF Quietly, mqttVars, NotBehind
    <2> QED
      BY <2>1, <2>2, <2>3, NothingUnderWay
  <1> QED
    BY <1>1, <1>4, <1>5, <1>6, <1>7, <1>8

\* A publisher sets out with the figures, or the verdict, of now.
SetsOut(p) ==
    /\ pc[p] = "idle"
    /\ UNCHANGED <<mqttVars, enabled, household, newest, head, deployed, file, next_due>>
    /\ due' \subseteq Job
    /\ \/ /\ p \in {"worker", "web"}
          /\ pc' = [pc EXCEPT ![p] = "metrics"]
          /\ got' = [got EXCEPT ![p] = <<household>>]
       \/ /\ p = "cron"
          /\ pc' = [pc EXCEPT ![p] = "check"]
          /\ got' = [got EXCEPT ![p] = <<head, newest>>]

LEMMA SetsOutKeeps ==
    ASSUME IInv, NEW p \in Publisher, SetsOut(p), Watch, crowded' \in BOOLEAN
    PROVE  IInv'
  <1> USE DEF IInv
  <1>1. /\ household \in Nat /\ household >= 1 /\ newest \in Nat /\ head \in Nat
        /\ head <= newest /\ newest <= MaxRelease /\ MaxRelease \in Nat
    BY HomeAssistantAssumption DEF TypeOK, Version
  <1>2. <<household>> \in Snapshots(household) /\ <<household>> \in Seq(Nat)
    BY <1>1 DEF Snapshots
  <1>3. <<head, newest>> \in Verdict /\ <<head, newest>> \in Seq(Nat)
    BY <1>1 DEF Verdict
  <1>4. TypeOK'
    BY <1>2, <1>3 DEF SetsOut, TypeOK, MqttTypeOK, mqttVars
  <1>5. /\ \A q \in Publisher \ {p} : pc'[q] = pc[q] /\ got'[q] = got[q]
        /\ pc'[p] = "metrics" => p # "cron" /\ got'[p] = <<household>>
        /\ pc'[p] # "metrics" => p = "cron" /\ pc'[p] = "check"
                                 /\ got'[p] = <<head, newest>>
    BY DEF SetsOut, TypeOK
  <1>6. {"worker", "web", "cron"} = Publisher
    BY DEF Publisher
  <1>7. /\ pc'["worker"] \in {"idle", "metrics", "plan"}
        /\ pc'["web"] \in {"idle", "metrics", "plan"}
        /\ pc'["cron"] \in {"idle", "check", "update"}
    BY <1>6 DEF SetsOut, TypeOK, HandsSound
  <1>8. HandsSound'
    <2>1. UNCHANGED <<household, newest, head, deployed, file>>
      BY DEF SetsOut
    <2>2. \A q \in Publisher : pc'[q] \in {"metrics", "plan"} => got'[q] \in Snapshots(household)
      BY <1>2, <1>5 DEF HandsSound
    <2>3. pc'["cron"] \in {"check", "update"} =>
             /\ got'["cron"] \in Verdict
             /\ got'["cron"][1] <= head /\ got'["cron"][2] <= newest
      BY <1>1, <1>3, <1>5, <1>6 DEF HandsSound
    <2>4. pc'["cron"] = "update" => Covers(file, got'["cron"])
      BY <1>5, <1>6 DEF HandsSound
    <2> QED
      BY <1>7, <2>1, <2>2, <2>3, <2>4 DEF HandsSound, Covers
  <1>9. FileSound'
    <2>1. UNCHANGED <<newest, head, deployed, file>>
      BY DEF SetsOut
    <2> QED
      BY <1>5, <1>6, <2>1 DEF FileSound
  <1>10. ListsSound'
    <2>1. \A q \in Publisher : out'[q] = out[q] /\ stale'[q] = stale[q] /\ open'[q] = open[q]
      BY DEF SetsOut, mqttVars
    <2>2. ~open[p] /\ out[p] = <<>>
      BY DEF SetsOut, ListsSound
    <2>3. \A list : Sound(list)' <=> Sound(list)
      BY DEF SetsOut, mqttVars, Sound
    <2> QED
      BY <1>5, <2>1, <2>2, <2>3 DEF SetsOut, mqttVars, ListsSound, Sound
  <1>11. ShownSound' /\ AnnouncedFirst' /\ PageNotBehindSensor'
    BY <1>1, ShownStays DEF SetsOut, mqttVars
  <1>12. ASSUME ~crowded' PROVE Alone' /\ NotBehind'
    <2>1. Alone' /\ (Carriers' = {} \/ NotBehind)
      BY <1>12, NoCrowd
    <2>2. CASE Carriers' = {}
      BY <2>1, <2>2 DEF Carriers, LeftBehind, NotBehind
    <2>3. CASE NotBehind
      <3>1. UNCHANGED <<retained, stale>>
        BY DEF SetsOut, mqttVars
      <3>2. retained["state"] # <<>> => household >= retained["state"][1]
        BY <1>1 DEF ShownSound, Snapshots
      <3> QED
        BY <1>5, <2>1, <2>3, <3>1, <3>2 DEF NotBehind
    <2> QED
      BY <2>1, <2>2, <2>3
  <1> QED
    BY <1>4, <1>8, <1>9, <1>10, <1>11, <1>12

\* The verdict is saved.
LEMMA SaveStatusKeeps ==
    ASSUME IInv, SaveStatus, UNCHANGED enabled, Watch, crowded' \in BOOLEAN
    PROVE  IInv'
  <1> USE DEF IInv
  <1> DEFINE verdict == got["cron"]
  <1>1. /\ UNCHANGED <<mqttVars, household, newest, head, deployed, got, next_due, due>>
        /\ file' = verdict /\ pc["cron"] = "check" /\ pc' = [pc EXCEPT !["cron"] = "update"]
        /\ "cron" \in Publisher
    BY DEF SaveStatus, Publisher
  <1>2. /\ verdict \in Verdict /\ verdict[1] \in Nat /\ verdict[2] \in Nat
        /\ verdict # NoFile
        /\ verdict[1] <= head /\ verdict[2] <= newest
    <2>1. verdict \in Verdict /\ verdict[1] <= head /\ verdict[2] <= newest
      BY <1>1 DEF HandsSound
    <2> QED
      BY <2>1, HomeAssistantAssumption DEF Verdict, NoFile
  <1>3. file # NoFile => /\ file[1] \in Nat /\ file[2] \in Nat
                         /\ file[1] <= verdict[1] /\ file[2] <= verdict[2]
    BY <1>1, HomeAssistantAssumption DEF TypeOK, Verdict, FileSound
  <1> HIDE DEF verdict
  <1>4. \A u \in Verdict : Covers(file, u) => Covers(file', u)
    <2>1. \A u \in Verdict : u[1] \in Nat /\ u[2] \in Nat
      BY HomeAssistantAssumption DEF Verdict
    <2> QED
      BY <1>1, <1>2, <1>3, <2>1 DEF Covers
  <1>5. TypeOK'
    BY <1>1, <1>2 DEF TypeOK, MqttTypeOK, mqttVars
  <1>6. HandsSound'
    <2>1. Covers(file', verdict)
      BY <1>1, <1>2 DEF Covers
    <2> QED
      BY <1>1, <1>2, <2>1 DEF HandsSound, TypeOK, verdict, Publisher
  <1>7. FileSound'
    BY <1>1, <1>2 DEF FileSound, TypeOK
  <1>8. ListsSound'
    <2>1. household \in Nat /\ household' = household
      BY <1>1 DEF TypeOK, Version
    <2>2. \A q \in Publisher :
             /\ ListSound(out[q], household', file', announced')
             /\ ListSound(stale[q].out, household', file', announced')
      BY <1>1, <1>4, <2>1, ListsGrow DEF mqttVars
    <2> QED
      BY <1>1, <2>2 DEF mqttVars, ListsSound, Sound, TypeOK
  <1>9. ShownSound' /\ AnnouncedFirst' /\ PageNotBehindSensor'
    BY <1>1, <1>4, ShownStays DEF mqttVars, TypeOK, Version
  <1>10. ASSUME ~crowded' PROVE Alone' /\ NotBehind'
    <2>1. Alone' /\ (Carriers' = {} \/ NotBehind)
      BY <1>10, NoCrowd
    <2>2. Carriers' = Carriers
      BY <1>1 DEF mqttVars, Carriers, LeftBehind, TypeOK
    <2>3. NotBehind' <=> NotBehind
      BY <1>1 DEF mqttVars, NotBehind, TypeOK
    <2> QED
      BY <2>1, <2>2, <2>3, NothingUnderWay
  <1> QED
    BY <1>5, <1>6, <1>7, <1>8, <1>9, <1>10

-----------------------------------------------------------------------------
(* Connections.                                                            *)

\* What a publisher about to publish hands to its client.
LEMMA ConnectKeeps ==
    ASSUME IInv, NEW p \in Publisher, Connect(p), UNCHANGED enabled, Watch,
           crowded' \in BOOLEAN
    PROVE  IInv'
  <1> USE DEF IInv
  <1> DEFINE list == Messages(pc[p], got[p])
  <1>1. /\ UNCHANGED <<retained, announced, stale, faults, household, newest, head, deployed,
                       file, pc, got, next_due, due>>
        /\ open' = [open EXCEPT ![p] = TRUE]
        /\ out' = [out EXCEPT ![p] = list]
        /\ pc[p] \notin {"idle", "check"}
    BY DEF Connect, Connected
  <1>2. pc[p] \in {"metrics", "plan", "update"}
    BY <1>1 DEF HandsSound, Publisher
  <1>3. /\ list \in Seq(Message) /\ Sound(list)
        /\ \A i \in DOMAIN list :
              list[i].topic = "state" => pc[p] = "metrics" /\ list[i].payload = got[p]
    <2>1. got[p] \in Seq(Nat)
      BY DEF TypeOK
    <2>2. pc[p] \in {"metrics", "plan"} => got[p] \in Snapshots(household)
      BY DEF HandsSound
    <2>3. pc[p] = "update" => got[p] \in Verdict /\ Covers(file, got[p])
      BY DEF HandsSound, Publisher
    <2> QED
      BY <1>2, <2>1, <2>2, <2>3, MessagesAreSound DEF Sound
  <1> HIDE DEF list
  <1>4. TypeOK'
    BY <1>1, <1>3 DEF TypeOK, MqttTypeOK
  <1>5. HandsSound' /\ FileSound'
    BY <1>1 DEF HandsSound, FileSound
  <1>6. ListsSound'
    <2>1. \A s : Sound(s)' <=> Sound(s)
      BY <1>1 DEF Sound
    <2>2. \A q \in Publisher :
             Sound(out'[q]) /\ Sound(stale'[q].out)
      BY <1>1, <1>3 DEF ListsSound, TypeOK, MqttTypeOK
    <2>3. \A q \in Publisher :
             /\ open'[q] => pc'[q] \notin {"idle", "check"}
             /\ ~open'[q] => out'[q] = <<>>
             /\ \A i \in DOMAIN out'[q] :
                   out'[q][i].topic = "state" => pc'[q] = "metrics" /\ out'[q][i].payload = got'[q]
      BY <1>1, <1>3 DEF ListsSound, TypeOK, MqttTypeOK
    <2> QED
      BY <1>1, <2>2, <2>3 DEF ListsSound, Sound
  <1>7. ShownSound' /\ AnnouncedFirst' /\ PageNotBehindSensor'
    BY <1>1 DEF ShownSound, AnnouncedFirst, PageNotBehindSensor
  <1>8. ASSUME ~crowded' PROVE Alone' /\ NotBehind'
    <2>1. Alone' /\ (Carriers' = {} \/ NotBehind)
      BY <1>8, NoCrowd
    <2>2. Carriers' = Carriers
      BY <1>1 DEF Carriers, LeftBehind
    <2>3. NotBehind' <=> NotBehind
      BY <1>1 DEF NotBehind
    <2> QED
      BY <2>1, <2>2, <2>3, NothingUnderWay
  <1> QED
    BY <1>4, <1>5, <1>6, <1>7, <1>8

\* The connection of p is over, if it had one: what it leaves is what an earlier one
\* left, or some of what it had not seen acknowledged; p is done or has read the plan.
Closes(p) ==
    /\ UNCHANGED <<retained, announced, enabled, household, newest, head, deployed, file>>
    /\ open' = [open EXCEPT ![p] = FALSE]
    /\ out' = [out EXCEPT ![p] = <<>>]
    /\ faults' \in 0 .. MaxFaults
    /\ \/ stale' = stale
       \/ stale[p] = Nothing /\ \E left \in Leftover(p) : stale' = [stale EXCEPT ![p] = left]
    /\ \/ /\ pc' = [pc EXCEPT ![p] = "idle"]
          /\ got' = [got EXCEPT ![p] = <<>>]
       \/ /\ pc[p] = "metrics"
          /\ pc' = [pc EXCEPT ![p] = "plan"]
          /\ \E v \in 1 .. household : got' = [got EXCEPT ![p] = <<v>>]
    /\ next_due' \in [Job -> Nat] /\ \A j \in Job : next_due'[j] <= Interval[j]
    /\ due' \subseteq Job

\* What stays in the network of a connection that is over.
LEMMA ClosedLists ==
    ASSUME IInv, NEW p \in Publisher, Closes(p)
    PROVE  /\ stale' \in [Publisher -> [out : Seq(Message), will : BOOLEAN]]
           /\ \A q \in Publisher \ {p} : stale'[q] = stale[q]
           /\ Sound(stale'[p].out)
           /\ \/ stale'[p] = stale[p]
              \/ \A i \in DOMAIN stale'[p].out :
                    stale'[p].out[i].topic = "state" =>
                        pc[p] = "metrics" /\ stale'[p].out[i].payload = got[p]
  <1> USE DEF IInv
  <1>1. stale \in [Publisher -> [out : Seq(Message), will : BOOLEAN]]
    BY DEF TypeOK, MqttTypeOK
  <1>2. CASE stale' = stale
    BY <1>1, <1>2 DEF ListsSound
  <1>3. ASSUME NEW left \in Leftover(p), stale' = [stale EXCEPT ![p] = left]
        PROVE  /\ stale' \in [Publisher -> [out : Seq(Message), will : BOOLEAN]]
               /\ \A q \in Publisher \ {p} : stale'[q] = stale[q]
               /\ Sound(stale'[p].out)
               /\ \A i \in DOMAIN stale'[p].out :
                     stale'[p].out[i].topic = "state" =>
                         pc[p] = "metrics" /\ stale'[p].out[i].payload = got[p]
    <2>1. PICK n \in 0 .. Len(out[p]), w \in BOOLEAN :
             left = [out |-> SubSeq(out[p], 1, n), will |-> w]
      BY DEF Leftover
    <2>2. out[p] \in Seq(Message) /\ Sound(out[p])
      BY DEF TypeOK, MqttTypeOK, ListsSound
    <2>3. /\ SubSeq(out[p], 1, n) \in Seq(Message)
          /\ Sound(SubSeq(out[p], 1, n))
          /\ \A i \in DOMAIN SubSeq(out[p], 1, n) :
                i \in DOMAIN out[p] /\ SubSeq(out[p], 1, n)[i] = out[p][i]
      BY <2>2, PrefixIsSound DEF Sound
    <2>4. stale'[p] = left /\ left.out = SubSeq(out[p], 1, n)
          /\ left \in [out : Seq(Message), will : BOOLEAN]
      BY <1>1, <1>3, <2>1, <2>3
    <2>5. \A i \in DOMAIN out[p] :
             out[p][i].topic = "state" => pc[p] = "metrics" /\ out[p][i].payload = got[p]
      BY DEF ListsSound
    <2>6. /\ stale' \in [Publisher -> [out : Seq(Message), will : BOOLEAN]]
          /\ \A q \in Publisher \ {p} : stale'[q] = stale[q]
      BY <1>1, <1>3, <2>4
    <2>7. stale'[p].out = SubSeq(out[p], 1, n)
      BY <2>4
    <2>8. Sound(stale'[p].out)
      BY <2>3, <2>7
    <2>9. \A i \in DOMAIN stale'[p].out :
             stale'[p].out[i].topic = "state" =>
                 pc[p] = "metrics" /\ stale'[p].out[i].payload = got[p]
      BY <2>3, <2>5, <2>7
    <2> QED
      BY <2>6, <2>8, <2>9
  <1> QED
    BY <1>2, <1>3 DEF Closes

LEMMA ClosesKeeps ==
    ASSUME IInv, NEW p \in Publisher, Closes(p), Watch, crowded' \in BOOLEAN
    PROVE  IInv'
  <1> USE DEF IInv
  <1>1. UNCHANGED <<retained, announced, enabled, household, newest, head, deployed, file>>
    BY DEF Closes
  <1>2. /\ pc' \in [Publisher -> {"idle", "metrics", "plan", "check", "update"}]
        /\ got' \in [Publisher -> Seq(Nat)]
        /\ \A q \in Publisher \ {p} : pc'[q] = pc[q] /\ got'[q] = got[q]
        /\ \/ pc'[p] = "idle"
           \/ pc[p] = "metrics" /\ pc'[p] = "plan" /\ got'[p] \in Snapshots(household)
    <2>1. \A v \in 1 .. household : <<v>> \in Seq(Nat)
      BY DEF TypeOK, Version
    <2>2. <<>> \in Seq(Nat)
      OBVIOUS
    <2> QED
      BY <2>1, <2>2 DEF Closes, TypeOK, Snapshots
  <1>3. /\ stale' \in [Publisher -> [out : Seq(Message), will : BOOLEAN]]
        /\ \A q \in Publisher \ {p} : stale'[q] = stale[q]
        /\ Sound(stale'[p].out)
        /\ \/ stale'[p] = stale[p]
           \/ \A i \in DOMAIN stale'[p].out :
                 stale'[p].out[i].topic = "state" =>
                     pc[p] = "metrics" /\ stale'[p].out[i].payload = got[p]
    BY ClosedLists
  <1>4. /\ open' \in [Publisher -> BOOLEAN] /\ out' \in [Publisher -> Seq(Message)]
        /\ ~open'[p] /\ out'[p] = <<>>
        /\ \A q \in Publisher \ {p} : open'[q] = open[q] /\ out'[q] = out[q]
    BY DEF Closes, TypeOK, MqttTypeOK
  <1>5. TypeOK'
    BY <1>1, <1>2, <1>3, <1>4 DEF Closes, TypeOK, MqttTypeOK
  <1>6. HandsSound'
    BY <1>1, <1>2 DEF HandsSound, Covers, Publisher
  <1>7. FileSound'
    BY <1>1, <1>2 DEF FileSound, Publisher
  <1>8. ListsSound'
    <2>1. Sound(<<>>)
      BY EmptyIsSound DEF Sound
    <2> SUFFICES ASSUME NEW q \in Publisher
                 PROVE  /\ Sound(out'[q]) /\ Sound(stale'[q].out)
                        /\ open'[q] => pc'[q] \notin {"idle", "check"}
                        /\ ~open'[q] => out'[q] = <<>>
                        /\ \A i \in DOMAIN out'[q] :
                              out'[q][i].topic = "state" =>
                                  pc'[q] = "metrics" /\ out'[q][i].payload = got'[q]
      BY <1>1 DEF ListsSound, Sound
    <2>2. CASE q = p
      BY <1>3, <1>4, <2>1, <2>2
    <2>3. CASE q # p
      <3>1. /\ out'[q] = out[q] /\ stale'[q] = stale[q] /\ open'[q] = open[q]
            /\ pc'[q] = pc[q] /\ got'[q] = got[q]
        BY <1>2, <1>3, <1>4, <2>3
      <3> QED
        BY <3>1 DEF ListsSound
    <2> QED
      BY <2>2, <2>3
  <1>9. ShownSound' /\ AnnouncedFirst' /\ PageNotBehindSensor'
    BY <1>1 DEF ShownSound, AnnouncedFirst, PageNotBehindSensor
  <1>10. ASSUME ~crowded' PROVE Alone' /\ NotBehind'
    <2>1. Alone' /\ (Carriers' = {} \/ NotBehind)
      BY <1>10, NoCrowd
    <2>2. CASE Carriers' = {}
      BY <2>1, <2>2 DEF Carriers, LeftBehind, NotBehind
    <2>3. CASE NotBehind
      <3> SUFFICES ASSUME retained["state"] # <<>>, NEW q \in Publisher
                   PROVE  /\ pc'[q] = "metrics" => got'[q][1] >= retained["state"][1]
                          /\ \A i \in DOMAIN stale'[q].out :
                                stale'[q].out[i].topic = "state" =>
                                    stale'[q].out[i].payload[1] >= retained["state"][1]
        BY <1>1, <2>1 DEF NotBehind
      <3>1. CASE q = p
        BY <1>2, <1>3, <2>3, <3>1 DEF NotBehind
      <3>2. CASE q # p
        BY <1>2, <1>3, <2>3, <3>2 DEF NotBehind
      <3> QED
        BY <3>1, <3>2
    <2> QED
      BY <2>1, <2>2, <2>3
  <1> QED
    BY <1>5, <1>6, <1>7, <1>8, <1>9, <1>10

-----------------------------------------------------------------------------
(* The broker.                                                             *)

\* What all steps of the broker leave alone.
Hears ==
    /\ UNCHANGED <<enabled, household, newest, head, deployed, file, pc, got, next_due, due>>
    /\ retained' \in [StateTopic -> Seq(Nat)]
    /\ announced' \subseteq Message /\ announced \subseteq announced'
    /\ open' = open /\ faults' \in 0 .. MaxFaults
    /\ out' \in [Publisher -> Seq(Message)]
    /\ stale' \in [Publisher -> [out : Seq(Message), will : BOOLEAN]]

LEMMA HearsKeeps ==
    ASSUME IInv, Hears, crowded' \in BOOLEAN
    PROVE  TypeOK' /\ HandsSound' /\ FileSound'
  <1>1. TypeOK'
    <2>1. MqttTypeOK'
      BY DEF IInv, Hears, TypeOK, MqttTypeOK
    <2> QED
      BY <2>1 DEF IInv, Hears, TypeOK
  <1>2. HandsSound'
    BY DEF IInv, Hears, HandsSound, Covers
  <1>3. FileSound'
    BY DEF IInv, Hears, FileSound
  <1> QED
    BY <1>1, <1>2, <1>3

\* Figures that get through on the connection of p are those p has in hand.
LEMMA HeadIsInHand ==
    ASSUME IInv, NEW p \in Publisher, out[p] # <<>>, Head(out[p]).topic = "state"
    PROVE  pc[p] = "metrics" /\ Head(out[p]).payload = got[p]
  <1>1. out[p] \in Seq(Message) /\ Sound(out[p])
    BY DEF IInv, TypeOK, MqttTypeOK, ListsSound
  <1>2. 1 \in DOMAIN out[p] /\ Head(out[p]) = out[p][1]
    BY <1>1, HeadIsSound DEF Sound
  <1> QED
    BY <1>2 DEF IInv, ListsSound

\* Figures once shown stay, or make room for others that are not older.
NotOlder ==
    retained["state"] # <<>> =>
        retained'["state"] # <<>> /\ retained'["state"][1] >= retained["state"][1]

\* A publisher on its own never takes figures back: those that get through on its
\* connection are those it has in hand, and nobody else has any.
LEMMA DeliveredNotBehind ==
    ASSUME IInv, Alone, NotBehind, NEW p \in Publisher, out[p] # <<>>,
           UNCHANGED <<pc, got, stale>>,
           retained'["state"] = IF Head(out[p]).topic = "state" THEN Head(out[p]).payload
                                ELSE retained["state"]
    PROVE  /\ NotBehind'
           /\ NotOlder
  <1>1. CASE Head(out[p]).topic # "state"
    <2>1. retained["state"] # <<>> => retained["state"][1] \in Nat
      BY DEF IInv, ShownSound, Snapshots
    <2> QED
      BY <1>1, <2>1 DEF NotBehind, NotOlder
  <1>2. CASE Head(out[p]).topic = "state"
    <2>1. pc[p] = "metrics" /\ retained'["state"] = got[p]
      BY <1>2, HeadIsInHand
    <2>2. got[p] # <<>> /\ got[p][1] \in Nat
      BY <2>1, SnapshotIsSaid DEF IInv, HandsSound, TypeOK, Version
    <2>3. p \in Carriers /\ ~LeftBehind(p)
      BY <2>1 DEF Alone, Carriers
    <2>4. \A q \in Publisher : (pc[q] = "metrics" => q = p) /\ ~LeftBehind(q)
      BY <2>3 DEF Alone, Carriers
    <2>5. NotBehind'
      BY <2>1, <2>2, <2>4 DEF NotBehind, LeftBehind
    <2>6. NotOlder
      BY <2>1, <2>2 DEF NotBehind, NotOlder
    <2> QED
      BY <2>5, <2>6
  <1> QED
    BY <1>1, <1>2

LEMMA DeliverKeeps ==
    ASSUME IInv, NEW p \in Publisher, Deliver(p), Broker(p), UNCHANGED enabled, Watch,
           crowded' \in BOOLEAN
    PROVE  IInv'
  <1> USE DEF IInv
  <1> DEFINE m == Head(out[p])
             said == {x \in {m} : x.topic \in DiscoveryTopic}
  <1>1. /\ UNCHANGED <<enabled, household, newest, head, deployed, file, pc, got, next_due, due>>
        /\ open[p] /\ out[p] # <<>>
        /\ retained' = RetainedAfter({m}) /\ announced' = AnnouncedAfter({m})
        /\ out' = [out EXCEPT ![p] = Tail(@)]
        /\ UNCHANGED <<open, stale, faults>>
    BY DEF Broker, Deliver, Handle
  <1>2. out[p] \in Seq(Message) /\ Sound(out[p]) /\ MqttTypeOK
    BY DEF TypeOK, MqttTypeOK, ListsSound
  <1>3. m \in Message /\ 1 \in DOMAIN out[p] /\ m = out[p][1]
    BY <1>1, <1>2, HeadIsSound DEF Sound
  <1>4. /\ retained' \in [StateTopic -> Seq(Nat)]
        /\ \A t \in StateTopic :
              retained'[t] = IF m.topic = t THEN m.payload ELSE retained[t]
        /\ announced' = announced \cup said /\ announced' \subseteq Message
    BY <1>1, <1>2, <1>3, HandledOne
  <1>5. /\ Tail(out[p]) \in Seq(Message)
        /\ ListSound(Tail(out[p]), household, file, announced')
        /\ \A i \in DOMAIN Tail(out[p]) :
              i + 1 \in DOMAIN out[p] /\ Tail(out[p])[i] = out[p][i + 1]
    <2>1. ListSound(out[p], household, file, announced)
      BY <1>2 DEF Sound
    <2>2. /\ Tail(out[p]) \in Seq(Message)
          /\ ListSound(Tail(out[p]), household, file, announced \cup said)
          /\ \A i \in DOMAIN Tail(out[p]) :
                i + 1 \in DOMAIN out[p] /\ Tail(out[p])[i] = out[p][i + 1]
      BY <1>1, <1>2, <2>1, TailIsSound
    <2> QED
      BY <1>4, <2>2
  <1> HIDE DEF m, said
  <1>6. /\ out' \in [Publisher -> Seq(Message)] /\ out'[p] = Tail(out[p])
        /\ \A q \in Publisher \ {p} : out'[q] = out[q]
    BY <1>1, <1>2, <1>5 DEF MqttTypeOK
  <1>7. Hears
    BY <1>1, <1>2, <1>4, <1>6 DEF Hears, MqttTypeOK
  <1>8. TypeOK' /\ HandsSound' /\ FileSound'
    BY <1>7, HearsKeeps
  <1>9. ListsSound'
    <2>1. \A q \in Publisher :
             /\ ListSound(out[q], household', file', announced')
             /\ ListSound(stale[q].out, household', file', announced')
      <3>1. household \in Nat /\ household <= household' /\ household' \in Nat
        BY <1>1 DEF TypeOK, Version
      <3>2. announced \subseteq announced'
        BY <1>4
      <3>3. file' = file
        BY <1>1
      <3> QED
        BY <3>1, <3>2, <3>3, ListsGrow
    <2> SUFFICES ASSUME NEW q \in Publisher
                 PROVE  /\ ListSound(out'[q], household', file', announced')
                        /\ ListSound(stale'[q].out, household', file', announced')
                        /\ open'[q] => pc'[q] \notin {"idle", "check"}
                        /\ ~open'[q] => out'[q] = <<>>
                        /\ \A i \in DOMAIN out'[q] :
                              out'[q][i].topic = "state" =>
                                  pc'[q] = "metrics" /\ out'[q][i].payload = got'[q]
      BY DEF ListsSound, Sound
    <2>2. CASE q = p
      <3>1. \A i \in DOMAIN out'[p] :
               out'[p][i].topic = "state" => pc[p] = "metrics" /\ out'[p][i].payload = got[p]
        <4>1. \A i \in DOMAIN out[p] :
                 out[p][i].topic = "state" => pc[p] = "metrics" /\ out[p][i].payload = got[p]
          BY DEF ListsSound
        <4> HIDE DEF IInv
        <4> QED
          BY <1>5, <1>6, <4>1
      <3>2. ListSound(out'[q], household', file', announced')
        BY <1>1, <1>5, <1>6, <2>2
      <3>3. ListSound(stale'[q].out, household', file', announced')
        BY <1>1, <2>1
      <3>4. pc[p] \notin {"idle", "check"}
        BY <1>1 DEF ListsSound
      <3>5. open'[q] => pc'[q] \notin {"idle", "check"}
        BY <1>1, <2>2, <3>4
      <3>6. ~open'[q] => out'[q] = <<>>
        BY <1>1, <2>2
      <3>7. \A i \in DOMAIN out'[q] :
               out'[q][i].topic = "state" => pc'[q] = "metrics" /\ out'[q][i].payload = got'[q]
        BY <1>1, <2>2, <3>1
      <3> QED
        BY <3>2, <3>3, <3>5, <3>6, <3>7
    <2>3. CASE q # p
      <3>1. /\ out'[q] = out[q] /\ stale'[q] = stale[q] /\ open'[q] = open[q]
            /\ pc'[q] = pc[q] /\ got'[q] = got[q]
        BY <1>1, <1>6, <2>3
      <3>2. /\ ListSound(out'[q], household', file', announced')
            /\ ListSound(stale'[q].out, household', file', announced')
        BY <2>1, <3>1
      <3> QED
        BY <3>1, <3>2 DEF ListsSound
    <2> QED
      BY <2>2, <2>3
  <1>10. ShownSound' /\ AnnouncedFirst' /\ PageNotBehindSensor'
    <2>1. \A t \in StateTopic \ {"availability"} :
             retained'[t] = IF m.topic = t THEN m.payload ELSE retained[t]
      BY <1>4
    <2> QED
      BY <1>1, <1>2, <1>4, <2>1, SaidIsShown DEF m
  <1>11. ASSUME ~crowded' PROVE Alone' /\ NotBehind'
    <2>1. Alone' /\ (Carriers' = {} \/ (Alone /\ NotBehind))
      BY <1>11, NoCrowd
    <2>2. CASE Carriers' = {}
      BY <2>1, <2>2 DEF Carriers, LeftBehind, NotBehind
    <2>3. CASE Alone /\ NotBehind
      <3>1. retained'["state"] = IF m.topic = "state" THEN m.payload ELSE retained["state"]
        BY <1>4 DEF StateTopic
      <3> QED
        BY <1>1, <2>1, <2>3, <3>1, DeliveredNotBehind DEF m
    <2> QED
      BY <2>1, <2>2, <2>3
  <1> QED
    BY <1>8, <1>9, <1>10, <1>11

LEMMA DeliverStaleKeeps ==
    ASSUME IInv, NEW p \in Publisher, DeliverStale(p), Broker(p), UNCHANGED enabled, Watch,
           crowded' \in BOOLEAN
    PROVE  /\ IInv'
           /\ ~crowded => NotOlder
  <1> USE DEF IInv
  <1> DEFINE list == stale[p].out
             m    == Head(list)
             said == {x \in {m} : x.topic \in DiscoveryTopic}
  <1>1. /\ UNCHANGED <<enabled, household, newest, head, deployed, file, pc, got, next_due, due>>
        /\ list # <<>>
        /\ retained' = RetainedAfter({m}) /\ announced' = AnnouncedAfter({m})
        /\ stale' = [stale EXCEPT ![p].out = Tail(@)]
        /\ UNCHANGED <<open, out, faults>>
    BY DEF Broker, DeliverStale, Handle
  <1>2. list \in Seq(Message) /\ Sound(list) /\ MqttTypeOK
    BY DEF TypeOK, MqttTypeOK, ListsSound
  <1>3. m \in Message /\ 1 \in DOMAIN list /\ m = list[1]
    BY <1>1, <1>2, HeadIsSound DEF Sound
  <1>4. /\ retained' \in [StateTopic -> Seq(Nat)]
        /\ \A t \in StateTopic :
              retained'[t] = IF m.topic = t THEN m.payload ELSE retained[t]
        /\ announced' = announced \cup said /\ announced' \subseteq Message
    BY <1>1, <1>2, <1>3, HandledOne
  <1>5. /\ Tail(list) \in Seq(Message)
        /\ ListSound(Tail(list), household, file, announced')
        /\ \A i \in DOMAIN Tail(list) : i + 1 \in DOMAIN list /\ Tail(list)[i] = list[i + 1]
    <2>1. ListSound(list, household, file, announced)
      BY <1>2 DEF Sound
    <2>2. /\ Tail(list) \in Seq(Message)
          /\ ListSound(Tail(list), household, file, announced \cup said)
          /\ \A i \in DOMAIN Tail(list) : i + 1 \in DOMAIN list /\ Tail(list)[i] = list[i + 1]
      BY <1>1, <1>2, <2>1, TailIsSound
    <2> QED
      BY <1>4, <2>2
  <1>6. m.topic = "state" => \A i \in DOMAIN Tail(list) : Tail(list)[i].topic # "state"
    <2> SUFFICES ASSUME m.topic = "state", NEW i \in DOMAIN Tail(list),
                        Tail(list)[i].topic = "state"
                 PROVE  FALSE
      OBVIOUS
    <2>1. i + 1 \in DOMAIN list /\ list[i + 1].topic = "state" /\ list[1].topic = "state"
      BY <1>3, <1>5
    <2>2. i + 1 = 1
      BY <1>2, <1>3, <2>1 DEF Sound, ListSound
    <2>3. i \in Nat /\ i >= 1
      BY <1>5
    <2> QED
      BY <2>2, <2>3
  <1> HIDE DEF m, said
  <1>7. /\ stale' \in [Publisher -> [out : Seq(Message), will : BOOLEAN]]
        /\ stale'[p].out = Tail(list)
        /\ \A q \in Publisher \ {p} : stale'[q] = stale[q]
    BY <1>1, <1>2, <1>5 DEF MqttTypeOK
  <1>8. Hears
    BY <1>1, <1>2, <1>4, <1>7 DEF Hears, MqttTypeOK
  <1>9. TypeOK' /\ HandsSound' /\ FileSound'
    BY <1>8, HearsKeeps
  <1>10. ListsSound'
    <2>1. \A q \in Publisher :
             /\ ListSound(out[q], household', file', announced')
             /\ ListSound(stale[q].out, household', file', announced')
      <3>1. household \in Nat /\ household <= household' /\ household' \in Nat
        BY <1>1 DEF TypeOK, Version
      <3>2. announced \subseteq announced'
        BY <1>4
      <3>3. file' = file
        BY <1>1
      <3> QED
        BY <3>1, <3>2, <3>3, ListsGrow
    <2>2. \A q \in Publisher : ListSound(stale'[q].out, household', file', announced')
      <3>1. ListSound(stale'[p].out, household', file', announced')
        BY <1>1, <1>5, <1>7
      <3> QED
        BY <1>7, <2>1, <3>1
    <2> QED
      BY <1>1, <2>1, <2>2 DEF ListsSound, Sound
  <1>11. ShownSound' /\ AnnouncedFirst' /\ PageNotBehindSensor'
    <2>1. \A t \in StateTopic \ {"availability"} :
             retained'[t] = IF m.topic = t THEN m.payload ELSE retained[t]
      BY <1>4
    <2> QED
      BY <1>1, <1>2, <1>4, <2>1, SaidIsShown DEF m
  <1>12. retained'["state"] = IF m.topic = "state" THEN m.payload ELSE retained["state"]
    BY <1>4 DEF StateTopic
  <1>13. retained["state"] # <<>> => retained["state"][1] \in Nat
    BY DEF ShownSound, Snapshots
  <1>14. ASSUME NotBehind
         PROVE  NotOlder
    <2>1. m.topic = "state" => m.payload # <<>>
      <3>1. m.topic = "state" => m.payload \in Snapshots(household)
        BY <1>1, <1>2, HeadIsSound DEF Sound, m
      <3>2. household \in Nat
        BY DEF TypeOK, Version
      <3> HIDE DEF m, IInv
      <3> QED
        BY <3>1, <3>2, SnapshotIsSaid
    <2> QED
      BY <1>3, <1>12, <1>13, <1>14, <2>1 DEF NotBehind, NotOlder
  <1>15. ASSUME ~crowded' PROVE Alone' /\ NotBehind'
    <2>1. Alone' /\ (Carriers' = {} \/ (Alone /\ NotBehind))
      BY <1>15, NoCrowd
    <2>2. CASE Carriers' = {}
      BY <2>1, <2>2 DEF Carriers, LeftBehind, NotBehind
    <2>3. CASE m.topic # "state" /\ Alone /\ NotBehind
      <3> SUFFICES ASSUME retained["state"] # <<>>, NEW q \in Publisher
                   PROVE  /\ pc[q] = "metrics" => got[q][1] >= retained["state"][1]
                          /\ \A i \in DOMAIN stale'[q].out :
                                stale'[q].out[i].topic = "state" =>
                                    stale'[q].out[i].payload[1] >= retained["state"][1]
        BY <1>1, <1>12, <2>1, <2>3 DEF NotBehind
      <3>1. CASE q = p
        <4>1. /\ pc[p] = "metrics" => got[p][1] >= retained["state"][1]
              /\ \A i \in DOMAIN list :
                    list[i].topic = "state" => list[i].payload[1] >= retained["state"][1]
          BY <2>3 DEF NotBehind
        <4>2. \A i \in DOMAIN Tail(list) :
                 Tail(list)[i].topic = "state" => Tail(list)[i].payload[1] >= retained["state"][1]
          BY <1>5, <4>1
        <4> QED
          BY <1>7, <3>1, <4>1, <4>2
      <3>2. CASE q # p
        BY <1>7, <2>3, <3>2 DEF NotBehind
      <3> QED
        BY <3>1, <3>2
    <2>4. CASE m.topic = "state" /\ Alone /\ NotBehind
      <3>1. LeftBehind(p)
        BY <1>3, <2>4 DEF LeftBehind
      <3>2. \A q \in Publisher : pc[q] # "metrics" /\ (LeftBehind(q) => q = p)
        BY <2>4, <3>1 DEF Alone, Carriers
      <3>3. \A q \in Publisher : \A i \in DOMAIN stale'[q].out : stale'[q].out[i].topic # "state"
        BY <1>6, <1>7, <2>4, <3>2 DEF LeftBehind
      <3> QED
        BY <1>1, <2>1, <3>2, <3>3 DEF NotBehind
    <2> QED
      BY <2>1, <2>2, <2>3, <2>4
  <1> QED
    BY <1>9, <1>10, <1>11, <1>14, <1>15

LEMMA FireWillKeeps ==
    ASSUME IInv, NEW p \in Publisher, FireWill(p), Broker(p), UNCHANGED enabled, Watch,
           crowded' \in BOOLEAN
    PROVE  IInv' /\ retained'["state"] = retained["state"]
  <1> USE DEF IInv
  <1> DEFINE m == Say("availability", Offline)
  <1>1. /\ UNCHANGED <<enabled, household, newest, head, deployed, file, pc, got, next_due, due>>
        /\ stale[p].out = <<>>
        /\ retained' = RetainedAfter({m}) /\ announced' = AnnouncedAfter({m})
        /\ stale' = [stale EXCEPT ![p] = Nothing]
        /\ UNCHANGED <<open, out, faults>>
    BY DEF Broker, FireWill, Handle
  <1>2. m \in Message /\ m.topic = "availability" /\ m.topic \notin DiscoveryTopic
    BY DEF Say, Message, StateTopic, DiscoveryTopic, Offline
  <1>3. MqttTypeOK
    BY DEF TypeOK
  <1> HIDE DEF m
  <1>4. /\ retained' \in [StateTopic -> Seq(Nat)]
        /\ \A t \in StateTopic \ {"availability"} : retained'[t] = retained[t]
        /\ announced' = announced
    BY <1>1, <1>2, <1>3, HandledOne
  <1>5. /\ stale' \in [Publisher -> [out : Seq(Message), will : BOOLEAN]]
        /\ \A q \in Publisher : stale'[q].out = stale[q].out
    <2>1. Nothing \in [out : Seq(Message), will : BOOLEAN] /\ Nothing.out = <<>>
      BY DEF Nothing
    <2> QED
      BY <1>1, <1>3, <2>1 DEF MqttTypeOK
  <1>6. Hears
    BY <1>1, <1>3, <1>4, <1>5 DEF Hears, MqttTypeOK
  <1>7. TypeOK' /\ HandsSound' /\ FileSound'
    BY <1>6, HearsKeeps
  <1>8. ListsSound'
    BY <1>1, <1>4, <1>5 DEF ListsSound, Sound
  <1>9. ShownSound' /\ AnnouncedFirst' /\ PageNotBehindSensor'
    <2>1. household \in Nat /\ household <= household' /\ household' \in Nat
      BY <1>1 DEF TypeOK, Version
    <2> QED
      BY <1>1, <1>4, <2>1, ShownStays
  <1>10. retained'["state"] = retained["state"]
    BY <1>4 DEF StateTopic
  <1>11. ASSUME ~crowded' PROVE Alone' /\ NotBehind'
    <2>1. Alone' /\ (Carriers' = {} \/ NotBehind)
      BY <1>11, NoCrowd
    <2>2. Carriers' = Carriers
      BY <1>1, <1>5 DEF Carriers, LeftBehind
    <2>3. NotBehind => NotBehind'
      BY <1>1, <1>5, <1>10 DEF NotBehind
    <2> QED
      BY <2>1, <2>2, <2>3, NothingUnderWay
  <1> QED
    BY <1>7, <1>8, <1>9, <1>10, <1>11

LEMMA ReconnectKeeps ==
    ASSUME IInv, NEW p \in Publisher, Reconnect(p), Broker(p), UNCHANGED enabled, Watch,
           crowded' \in BOOLEAN
    PROVE  /\ IInv'
           /\ Alone /\ NotBehind => NotOlder
  <1> USE DEF IInv
  <1>1. /\ UNCHANGED <<enabled, household, newest, head, deployed, file, pc, got, next_due, due>>
        /\ faults' \in 0 .. MaxFaults
        /\ UNCHANGED <<open, out, stale>>
    BY MqttAssumption DEF Broker, Reconnect, TypeOK, MqttTypeOK
  <1>2. PICK handled \in {{}, {out[p][i] : i \in DOMAIN out[p] \cap {1}}} :
           /\ retained' = [RetainedAfter(handled) EXCEPT !["availability"] = Offline]
           /\ announced' = AnnouncedAfter(handled)
    BY DEF Reconnect
  <1>3. out[p] \in Seq(Message) /\ Sound(out[p]) /\ MqttTypeOK
    BY DEF TypeOK, MqttTypeOK, ListsSound
  <1>4. handled = {} \/ (out[p] # <<>> /\ handled = {Head(out[p])} /\ Head(out[p]) \in Message)
    <2>1. CASE out[p] = <<>>
      BY <2>1
    <2>2. CASE out[p] # <<>>
      <3>1. 1 \in DOMAIN out[p] /\ Head(out[p]) = out[p][1] /\ Head(out[p]) \in Message
        BY <1>3, <2>2, HeadIsSound DEF Sound
      <3> QED
        BY <2>2, <3>1
    <2> QED
      BY <2>1, <2>2
  <1>5. RetainedAfter(handled) \in [StateTopic -> Seq(Nat)]
        /\ AnnouncedAfter(handled) \subseteq Message /\ announced \subseteq AnnouncedAfter(handled)
    BY <1>3, <1>4, HandledNone, HandledOne DEF MqttTypeOK
  <1>6. /\ retained' \in [StateTopic -> Seq(Nat)]
        /\ \A t \in StateTopic \ {"availability"} : retained'[t] = RetainedAfter(handled)[t]
    <2>1. Offline \in Seq(Nat)
      BY DEF Offline
    <2> QED
      BY <1>2, <1>5, <2>1
  <1>7. Hears
    BY <1>1, <1>2, <1>3, <1>5, <1>6 DEF Hears, MqttTypeOK
  <1>8. TypeOK' /\ HandsSound' /\ FileSound'
    BY <1>7, HearsKeeps
  <1>9. household \in Nat /\ household <= household' /\ household' \in Nat /\ file' = file
        /\ announced \subseteq announced'
    BY <1>1, <1>2, <1>5 DEF TypeOK, Version
  <1>10. ListsSound'
    <2>1. \A q \in Publisher :
             /\ ListSound(out[q], household', file', announced')
             /\ ListSound(stale[q].out, household', file', announced')
      BY <1>9, ListsGrow
    <2> QED
      BY <1>1, <2>1 DEF ListsSound, Sound
  <1>11. CASE handled = {}
    <2>1. \A t \in StateTopic \ {"availability"} : retained'[t] = retained[t]
      BY <1>3, <1>6, <1>11, HandledNone
    <2>2. ShownSound' /\ AnnouncedFirst' /\ PageNotBehindSensor'
      BY <1>9, <2>1, ShownStays
    <2>3. retained'["state"] = retained["state"]
      BY <2>1 DEF StateTopic
    <2>4. ASSUME ~crowded' PROVE Alone' /\ NotBehind'
      <3>1. Alone' /\ (Carriers' = {} \/ NotBehind)
        BY <2>4, NoCrowd
      <3>2. Carriers' = Carriers
        BY <1>1 DEF Carriers, LeftBehind
      <3>3. NotBehind => NotBehind'
        BY <1>1, <2>3 DEF NotBehind
      <3> QED
        BY <3>1, <3>2, <3>3, NothingUnderWay
    <2>5. NotOlder
      BY <2>3 DEF ShownSound, Snapshots, NotOlder
    <2> QED
      BY <1>8, <1>10, <2>2, <2>4, <2>5
  <1>12. CASE handled # {}
    <2> DEFINE m == Head(out[p])
    <2>1. out[p] # <<>> /\ handled = {m} /\ m \in Message
      BY <1>4, <1>12
    <2>2. \A t \in StateTopic \ {"availability"} :
             retained'[t] = IF m.topic = t THEN m.payload ELSE retained[t]
      BY <1>3, <1>6, <2>1, HandledOne
    <2>3. ShownSound' /\ AnnouncedFirst' /\ PageNotBehindSensor'
      BY <1>1, <1>3, <1>9, <2>1, <2>2, SaidIsShown
    <2>4. retained'["state"] = IF m.topic = "state" THEN m.payload ELSE retained["state"]
      BY <2>2 DEF StateTopic
    <2>5. ASSUME Alone, NotBehind
          PROVE  /\ NotBehind'
                 /\ NotOlder
      BY <1>1, <2>1, <2>4, <2>5, DeliveredNotBehind
    <2>6. ASSUME ~crowded' PROVE Alone' /\ NotBehind'
      <3>1. Alone' /\ (Carriers' = {} \/ (Alone /\ NotBehind))
        BY <2>6, NoCrowd
      <3>2. CASE Carriers' = {}
        BY <3>1, <3>2 DEF Carriers, LeftBehind, NotBehind
      <3> QED
        BY <3>1, <3>2, <2>5
    <2> QED
      BY <1>8, <1>10, <2>3, <2>5, <2>6
  <1> QED
    BY <1>11, <1>12

-----------------------------------------------------------------------------
(* Every step.                                                             *)

\* The steps that go through the network keep the invariant, and take figures
\* back only while two snapshots are under way.
LEMMA BrokerKeeps ==
    ASSUME IInv, NEW p \in Publisher, Broker(p), UNCHANGED enabled, Watch,
           crowded' \in BOOLEAN
    PROVE  /\ IInv'
           /\ ~crowded => NotOlder
  <1>1. CASE Deliver(p)
    <2>1. IInv'
      BY <1>1, DeliverKeeps
    <2>2. ASSUME ~crowded PROVE NotOlder
      <3>1. out[p] # <<>> /\ retained' = RetainedAfter({Head(out[p])})
            /\ UNCHANGED <<pc, got, stale>>
        BY <1>1 DEF Deliver, Handle, Broker
      <3>2. Head(out[p]) \in Message /\ MqttTypeOK
        BY <3>1 DEF IInv, TypeOK, MqttTypeOK
      <3>3. retained'["state"] = IF Head(out[p]).topic = "state" THEN Head(out[p]).payload
                                 ELSE retained["state"]
        BY <3>1, <3>2, HandledOne DEF StateTopic
      <3>4. Alone /\ NotBehind
        BY <2>2 DEF IInv
      <3> QED
        BY <3>1, <3>3, <3>4, DeliveredNotBehind
    <2> QED
      BY <2>1, <2>2
  <1>2. CASE DeliverStale(p)
    BY <1>2, DeliverStaleKeeps
  <1>3. CASE FireWill(p)
    <2>1. IInv' /\ retained'["state"] = retained["state"]
      BY <1>3, FireWillKeeps
    <2>2. retained["state"] # <<>> => retained["state"][1] \in Nat
      BY DEF IInv, ShownSound, Snapshots
    <2> QED
      BY <2>1, <2>2 DEF NotOlder
  <1>4. CASE Reconnect(p)
    <2>1. ~crowded => Alone /\ NotBehind
      BY DEF IInv
    <2> QED
      BY <1>4, <2>1, ReconnectKeeps
  <1> QED
    BY <1>1, <1>2, <1>3, <1>4 DEF Broker

\* A publish that ends, one way or another, closes its connection.
LEMMA EndsClose ==
    ASSUME IInv, NEW p \in Publisher, Published(p) \/ Failed(p) \/ Crash(p), UNCHANGED enabled
    PROVE  Closes(p)
  <1> USE DEF IInv
  <1>1. /\ UNCHANGED <<retained, announced, enabled, household, newest, head, deployed, file>>
        /\ open' = [open EXCEPT ![p] = FALSE]
        /\ out' = [out EXCEPT ![p] = <<>>]
        /\ faults' \in 0 .. MaxFaults
        /\ \/ stale' = stale
           \/ stale[p] = Nothing
              /\ \E left \in Leftover(p) : stale' = [stale EXCEPT ![p] = left]
    <2>1. faults \in Nat /\ MaxFaults \in Nat /\ faults <= MaxFaults
      BY MqttAssumption DEF TypeOK, MqttTypeOK
    <2>2. ASSUME NEW left, Teardown(p, left)
          PROVE  /\ UNCHANGED <<retained, announced>>
                 /\ open' = [open EXCEPT ![p] = FALSE] /\ out' = [out EXCEPT ![p] = <<>>]
                 /\ stale' = [stale EXCEPT ![p] = left]
      BY <2>2 DEF Teardown
    <2>3. ASSUME ~open[p], UNCHANGED <<open, out>>
          PROVE  open' = [open EXCEPT ![p] = FALSE] /\ out' = [out EXCEPT ![p] = <<>>]
      BY <2>3 DEF TypeOK, MqttTypeOK, ListsSound
    <2>4. UNCHANGED <<household, newest, head, deployed, file>>
      BY DEF Published, Failed, Crash
    <2>5. CASE Acknowledged(p)
      <3>1. [stale EXCEPT ![p] = stale[p]] = stale
        BY DEF TypeOK, MqttTypeOK
      <3> QED
        BY <2>1, <2>2, <2>4, <2>5, <3>1 DEF Acknowledged
    <2>6. CASE TimedOut(p) \/ Rejected(p)
      <3>1. stale[p] = Nothing /\ faults' = faults + 1 /\ faults < MaxFaults
        BY <2>6 DEF TimedOut, Rejected
      <3>2. PICK left \in Leftover(p) : Teardown(p, left)
        BY <2>6 DEF TimedOut, Rejected
      <3> QED
        BY <2>1, <2>2, <2>4, <3>1, <3>2
    <2>7. CASE Refused(p)
      BY <2>1, <2>3, <2>4, <2>7 DEF Refused
    <2>8. CASE Cut(p)
      <3>1. stale[p] = Nothing /\ faults' = faults + 1 /\ faults < MaxFaults
        BY <2>8 DEF Cut
      <3>2. CASE open[p]
        <4>1. PICK left \in Leftover(p) : Teardown(p, left)
          BY <2>8, <3>2 DEF Cut
        <4> QED
          BY <2>1, <2>2, <2>4, <3>1, <4>1
      <3>3. CASE ~open[p]
        BY <2>1, <2>3, <2>4, <2>8, <3>1, <3>3 DEF Cut
      <3> QED
        BY <3>2, <3>3
    <2> QED
      BY <2>5, <2>6, <2>7, <2>8 DEF Published, Failed, Crash
  <1>2. \/ pc' = [pc EXCEPT ![p] = "idle"] /\ got' = [got EXCEPT ![p] = <<>>]
        \/ /\ pc[p] = "metrics" /\ pc' = [pc EXCEPT ![p] = "plan"]
           /\ \E v \in 1 .. household : got' = [got EXCEPT ![p] = <<v>>]
    <2>1. CASE Published(p) /\ pc[p] = "metrics" /\ pc' = [pc EXCEPT ![p] = "plan"]
      <3>1. PICK v \in got[p][1] .. household : got' = [got EXCEPT ![p] = <<v>>]
        BY <2>1 DEF Published, GoOn
      <3>2. got[p][1] \in 1 .. household /\ household \in Nat
        BY <2>1 DEF HandsSound, Snapshots, TypeOK, Version
      <3>3. v \in 1 .. household
        BY <3>2
      <3>4. \E w \in 1 .. household : got' = [got EXCEPT ![p] = <<w>>]
        BY <3>1, <3>3
      <3> QED
        BY <2>1, <3>4
    <2> QED
      BY <2>1 DEF Published, Failed, Crash, GoOn, Over
  <1>3. next_due' \in [Job -> Nat] /\ \A j \in Job : next_due'[j] <= Interval[j]
    <2>1. /\ next_due \in [Job -> Nat] /\ \A j \in Job : next_due[j] <= Interval[j]
          /\ "publish" \in Job
      BY DEF TypeOK, Job
    <2>2. /\ [next_due EXCEPT !["publish"] = Interval["publish"]] \in [Job -> Nat]
          /\ \A j \in Job : Interval[j] \in Nat /\ Interval[j] >= 0
      BY <2>1, HomeAssistantAssumption
    <2>3. \/ next_due' = next_due
          \/ next_due' = [next_due EXCEPT !["publish"] = Interval["publish"]]
          \/ next_due' = [j \in Job |-> 0]
      BY DEF Published, Failed, Crash, GoOn, Over, JobOver
    <2>4. CASE next_due' = next_due
      BY <2>1, <2>4
    <2>5. CASE next_due' = [next_due EXCEPT !["publish"] = Interval["publish"]]
      BY <2>1, <2>2, <2>5
    <2>6. CASE next_due' = [j \in Job |-> 0]
      BY <2>2, <2>6
    <2> QED
      BY <2>3, <2>4, <2>5, <2>6
  <1>4. due' \subseteq Job
    BY DEF Published, Failed, Crash, TypeOK
  <1> QED
    BY <1>1, <1>2, <1>3, <1>4 DEF Closes

LEMMA InitIInv == Init => IInv
  <1> SUFFICES ASSUME Init PROVE IInv
    OBVIOUS
  <1> USE DEF Init, MqttInit
  <1>1. TypeOK
    <2>1. Nothing \in [out : Seq(Message), will : BOOLEAN] /\ <<>> \in Seq(Nat)
      BY DEF Nothing
    <2>2. 1 \in Version /\ 0 \in 0 .. MaxRelease
      BY HomeAssistantAssumption DEF Version
    <2>3. \A j \in Job : 0 <= Interval[j]
      BY HomeAssistantAssumption
    <2>4. MqttTypeOK
      BY <2>1, MqttAssumption DEF MqttTypeOK
    <2>5. /\ head \in 0 .. newest /\ deployed \in 0 .. head
          /\ pc \in [Publisher -> {"idle", "metrics", "plan", "check", "update"}]
          /\ got \in [Publisher -> Seq(Nat)]
      BY <2>1
    <2>6. next_due \in [Job -> Nat] /\ \A j \in Job : next_due[j] <= Interval[j]
      BY <2>3
    <2> QED
      BY <2>2, <2>4, <2>5, <2>6 DEF TypeOK
  <1>2. HandsSound /\ FileSound
    BY DEF HandsSound, FileSound, Publisher
  <1>3. ListsSound
    <2>1. \A p \in Publisher : out[p] = <<>> /\ stale[p].out = <<>> /\ ~open[p]
      BY DEF Nothing
    <2>2. Sound(<<>>)
      BY EmptyIsSound DEF Sound
    <2> QED
      BY <2>1, <2>2 DEF ListsSound
  <1>4. ShownSound /\ AnnouncedFirst /\ PageNotBehindSensor
    BY DEF ShownSound, AnnouncedFirst, PageNotBehindSensor, StateTopic
  <1>5. Alone /\ NotBehind
    <2>1. \A p \in Publisher : pc[p] # "metrics" /\ ~LeftBehind(p)
      BY DEF LeftBehind, Nothing
    <2> QED
      BY <2>1 DEF Alone, NotBehind, Carriers, LeftBehind
  <1> QED
    BY <1>1, <1>2, <1>3, <1>4, <1>5 DEF IInv

LEMMA StaysPut ==
    ASSUME IInv, UNCHANGED retained
    PROVE  NotOlder
  BY DEF IInv, ShownSound, Snapshots, NotOlder

LEMMA NextKeeps ==
    ASSUME IInv, [Next]_vars
    PROVE  IInv' /\ (~crowded => NotOlder)
  <1>1. CASE UNCHANGED vars
    <2>1. TypeOK' /\ HandsSound' /\ FileSound'
      BY <1>1 DEF vars, mqttVars, IInv, TypeOK, MqttTypeOK, HandsSound, FileSound, Covers
    <2>2. ListsSound'
      BY <1>1 DEF vars, mqttVars, IInv, ListsSound, Sound
    <2>3. ShownSound' /\ AnnouncedFirst' /\ PageNotBehindSensor'
      BY <1>1 DEF vars, mqttVars, IInv, ShownSound, AnnouncedFirst, PageNotBehindSensor
    <2>4. ~crowded' => Alone' /\ NotBehind'
      BY <1>1 DEF vars, mqttVars, IInv, Alone, NotBehind, Carriers, LeftBehind
    <2>5. UNCHANGED retained
      BY <1>1 DEF vars, mqttVars
    <2> QED
      BY <2>1, <2>2, <2>3, <2>4, <2>5, StaysPut DEF IInv
  <1>2. CASE Next
    <2>1. Watch /\ UNCHANGED enabled /\ Step
      BY <1>2 DEF Next, Whole
    <2>2. crowded' \in BOOLEAN
      BY <2>1 DEF Watch, IInv, TypeOK
    <2>3. /\ household \in 1 .. MaxVersion /\ household \in Nat /\ MaxVersion \in Nat
          /\ newest \in 0 .. MaxRelease /\ newest \in Nat /\ MaxRelease \in Nat
          /\ head \in 0 .. newest /\ head \in Nat
          /\ deployed \in 0 .. head /\ deployed \in Nat
          /\ next_due \in [Job -> Nat] /\ \A j \in Job : next_due[j] <= Interval[j]
          /\ due \subseteq Job
          /\ Interval \in [Job -> Nat] /\ \A j \in Job : Interval[j] >= 0
      BY HomeAssistantAssumption DEF IInv, TypeOK, Version
    <2>4. CASE HouseholdChanges
      <3>1. Quietly
        BY <2>1, <2>3, <2>4 DEF HouseholdChanges, Quietly, Version
      <3> QED
        BY <2>1, <2>2, <3>1, QuietKeeps, StaysPut DEF Quietly, mqttVars
    <2>5. CASE TagRelease
      <3>1. Quietly
        BY <2>1, <2>3, <2>5 DEF TagRelease, Quietly, Version
      <3> QED
        BY <2>1, <2>2, <3>1, QuietKeeps, StaysPut DEF Quietly, mqttVars
    <2>6. CASE Pull \/ DeployHead
      <3>1. Quietly
        BY <2>1, <2>3, <2>6 DEF Pull, DeployHead, Quietly, Version
      <3> QED
        BY <2>1, <2>2, <3>1, QuietKeeps, StaysPut DEF Quietly, mqttVars
    <2>7. CASE Tick
      <3>1. next_due' \in [Job -> Nat] /\ \A j \in Job : next_due'[j] <= Interval[j]
        <4>1. \A j \in Job : LET n == IF next_due[j] > 0 THEN next_due[j] - 1 ELSE 0
                              IN  n \in Nat /\ n <= Interval[j]
          BY <2>3
        <4> QED
          BY <2>7, <4>1 DEF Tick
      <3>2. Quietly
        BY <2>1, <2>3, <2>7, <3>1 DEF Tick, Quietly, Version
      <3> QED
        BY <2>1, <2>2, <3>2, QuietKeeps, StaysPut DEF Quietly, mqttVars
    <2>8. CASE Wake
      <3>1. Quietly
        BY <2>1, <2>3, <2>8 DEF Wake, Quietly, Version
      <3> QED
        BY <2>1, <2>2, <3>1, QuietKeeps, StaysPut DEF Quietly, mqttVars
    <2>9. CASE FetchMyfund
      <3>1. next_due' \in [Job -> Nat] /\ \A j \in Job : next_due'[j] <= Interval[j]
        BY <2>3, <2>9 DEF FetchMyfund, JobOver
      <3>2. Quietly
        BY <2>1, <2>3, <2>9, <3>1 DEF FetchMyfund, Quietly, Version
      <3> QED
        BY <2>1, <2>2, <3>2, QuietKeeps, StaysPut DEF Quietly, mqttVars
    <2>10. CASE MqttPublish
      <3>1. "worker" \in Publisher /\ SetsOut("worker")
        BY <2>1, <2>3, <2>10 DEF MqttPublish, SetsOut, Publisher
      <3> QED
        BY <2>1, <2>2, <3>1, SetsOutKeeps, StaysPut DEF SetsOut, mqttVars
    <2>11. CASE PublishNow
      <3>1. "web" \in Publisher /\ SetsOut("web")
        BY <2>1, <2>3, <2>11 DEF PublishNow, SetsOut, Publisher
      <3> QED
        BY <2>1, <2>2, <3>1, SetsOutKeeps, StaysPut DEF SetsOut, mqttVars
    <2>12. CASE CheckUpdate
      <3>1. "cron" \in Publisher /\ SetsOut("cron")
        BY <2>1, <2>3, <2>12 DEF CheckUpdate, SetsOut, Publisher
      <3> QED
        BY <2>1, <2>2, <3>1, SetsOutKeeps, StaysPut DEF SetsOut, mqttVars
    <2>13. CASE SaveStatus
      <3>1. UNCHANGED retained
        BY <2>13 DEF SaveStatus, mqttVars
      <3> QED
        BY <2>1, <2>2, <2>13, <3>1, SaveStatusKeeps, StaysPut
    <2>14. ASSUME NEW p \in Publisher, Connect(p)
           PROVE  IInv' /\ (~crowded => NotOlder)
      <3>1. UNCHANGED retained
        BY <2>14 DEF Connect, Connected
      <3> QED
        BY <2>1, <2>2, <2>14, <3>1, ConnectKeeps, StaysPut
    <2>15. ASSUME NEW p \in Publisher, Published(p) \/ Failed(p) \/ Crash(p)
           PROVE  IInv' /\ (~crowded => NotOlder)
      <3>1. Closes(p)
        BY <2>1, <2>15, EndsClose
      <3>2. IInv'
        BY <2>1, <2>2, <3>1, ClosesKeeps
      <3> QED
        BY <3>1, <3>2, StaysPut DEF Closes
    <2>16. ASSUME NEW p \in Publisher, Broker(p)
           PROVE  IInv' /\ (~crowded => NotOlder)
      BY <2>1, <2>2, <2>16, BrokerKeeps
    <2> QED
      BY <2>1, <2>4, <2>5, <2>6, <2>7, <2>8, <2>9, <2>10, <2>11, <2>12, <2>13, <2>14, <2>15,
         <2>16 DEF Step
  <1> QED
    BY <1>1, <1>2

-----------------------------------------------------------------------------
(* The theorems.                                                           *)

\* The inductive invariant holds in every reachable state.
THEOREM HomeAssistantInvariant == Spec => []IInv
  <1>1. IInv /\ [Next]_vars => IInv'
    BY NextKeeps
  <1> QED
    BY InitIInv, <1>1, PTL DEF Spec

\* Every publisher is at a step of its own list, with messages of the right shape on
\* its connections, and a job is never due later than an interval from now
\* (_run_scheduler, publish_snapshot, update_notify.main).
THEOREM HomeAssistantTypeCorrect == Spec => []TypeOK
  <1>1. IInv => TypeOK
    BY DEF IInv
  <1> QED
    BY HomeAssistantInvariant, <1>1, PTL

\* Home Assistant never gets a figure it has no sensor for, whatever is lost, cut
\* short or said twice (publish_metrics, publish_plan, publish_update).
THEOREM SensorsAreAnnouncedFirst == Spec => []AnnouncedFirst
  <1>1. IInv => AnnouncedFirst
    BY DEF IInv
  <1> QED
    BY HomeAssistantInvariant, <1>1, PTL

\* The Updates page is never behind the sensor, whatever fails between the file and
\* the broker (update_notify.main).
THEOREM PageLeadsSensor == Spec => []PageNotBehindSensor
  <1>1. IInv => PageNotBehindSensor
    BY DEF IInv
  <1> QED
    BY HomeAssistantInvariant, <1>1, PTL

\* A publisher alone never takes figures back: older ones replace those that are
\* shown only while two snapshots are under way at a time (publish_snapshot).
THEOREM LonePublisherGoesOn == Spec => OnlyCrowdsGoBack
  <1>1. ASSUME IInv, [Next]_vars, retained["state"] # <<>>,
               retained'["state"][1] < retained["state"][1]
        PROVE  crowded
    <2>1. IInv' /\ (~crowded => NotOlder)
      BY <1>1, NextKeeps
    <2>2. retained["state"][1] \in Nat /\ crowded \in BOOLEAN
      BY <1>1 DEF IInv, ShownSound, Snapshots, TypeOK
    <2>3. retained'["state"] # <<>> => retained'["state"][1] \in Nat
      BY <2>1 DEF IInv, ShownSound, Snapshots
    <2> QED
      BY <1>1, <2>1, <2>2, <2>3 DEF NotOlder
  <1> QED
    BY HomeAssistantInvariant, <1>1, PTL DEF Spec, OnlyCrowdsGoBack
=============================================================================
