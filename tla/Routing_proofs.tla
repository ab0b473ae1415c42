--------------------------- MODULE Routing_proofs ---------------------------
(***************************************************************************)
(* Theorems about License, for every set of answers, every grace and every *)
(* term, and about Routing, for any number of commands, files, answers and *)
(* environments.  The heart of the first is EnabledUntilDeadline: what     *)
(* is_online_ai_enabled puts together from a validity, a grace and a       *)
(* period is one comparison of the clock with Deadline.  The licence goes  *)
(* through its own steps in Routing, so that its theorems hold there too;  *)
(* what a command sends is then held against what the status has had to    *)
(* show since the file was begun.                                          *)
(***************************************************************************)
EXTENDS Routing, TLAPS

\* A refresh is asked for an entitlement, which is there when it is answered.
RefreshOfSome == asking = "refresh" => ent # Absent

LicenseInv == LicenseTypeOK /\ RefreshOfSome

\* While every grant has been stored, a restart finds the entitlement in
\* force, or nothing.
StoredInv == ~unstored => Accepted(cached) \in {ent, Absent}

-----------------------------------------------------------------------------
(* Lemmas on the licence *)

(* A clock and a kept entitlement: online AI is on before the deadline.    *)
LEMMA EnabledUntilDeadline ==
    ASSUME NEW e \in Entitlement \cup {Absent}, NEW t \in Nat
    PROVE  /\ Deadline(e) \in Nat
           /\ Enabled(e, t) <=> t < Deadline(e)
<1>1. CASE e = Absent
  BY <1>1 DEF Deadline, Enabled
<1>2. CASE e # Absent /\ (~Entitled(e) \/ e.status = "past_due")
  BY <1>2 DEF Deadline, Enabled, PeriodRuns
<1>3. CASE e # Absent /\ Entitled(e) /\ e.status = "active"
  <2>1. e.expires \in Nat /\ Grace \in Nat
    BY <1>3, LicenseAssumption DEF Entitlement
  <2>2. Deadline(e) = e.expires + Grace
    BY <1>3 DEF Deadline
  <2>3. Enabled(e, t) <=> t < e.expires + Grace
    BY <1>3, <2>1 DEF Enabled, IsValid, InGrace
  <2> QED
    BY <2>1, <2>2, <2>3
<1>4. CASE e # Absent /\ Entitled(e) /\ e.status = "canceled" /\ e.period = Absent
  BY <1>4 DEF Deadline, Enabled, PeriodRuns
<1>5. CASE e # Absent /\ Entitled(e) /\ e.status = "canceled" /\ e.period # Absent
  <2>1. e.expires \in Nat /\ e.period \in Nat /\ Grace \in Nat
    BY <1>5, LicenseAssumption DEF Entitlement
  <2>2. Deadline(e) = IF e.period < e.expires + Grace THEN e.period ELSE e.expires + Grace
    BY <1>5 DEF Deadline
  <2>3. Enabled(e, t) <=> t < e.expires + Grace /\ t < e.period
    BY <1>5, <2>1 DEF Enabled, IsValid, InGrace, PeriodRuns
  <2> QED
    BY <2>1, <2>2, <2>3
<1> QED
  BY <1>1, <1>2, <1>3, <1>4, <1>5 DEF Entitlement, Statuses

(* What a grant is taken for is an entitlement, whatever fields the answer *)
(* leaves out.                                                             *)
LEMMA GrantedTyped ==
    ASSUME LicenseInv, NEW a \in Answers, asking # "none"
    PROVE  Granted(asking, a) \in Entitlement
<1>1. a \in Answer
  BY LicenseAssumption
<1>2. Status(asking, a) \in Statuses
  BY <1>1, LicenseAssumption
  DEF LicenseInv, LicenseTypeOK, RefreshOfSome, Status, Given, Answer, Statuses, Entitlement
<1>3. Given(a.expires, now + Term) \in Nat
  <2>1. a.expires \in Nat \cup {Absent}
    BY <1>1 DEF Answer
  <2>2. now + Term \in Nat
    BY LicenseAssumption DEF LicenseInv, LicenseTypeOK
  <2> QED
    BY <2>1, <2>2 DEF Given
<1>4. /\ a.period \in Nat \cup {Absent}
      /\ a.credits \in Nat \cup {Absent}
      /\ Session(a) \in {"", "token"}
  BY <1>1 DEF Answer, Session
<1>5. (Plan(asking, a) \in {"lite", "pro"}) \in BOOLEAN
  OBVIOUS
<1> QED
  BY <1>2, <1>3, <1>4, <1>5 DEF Granted, Entitlement

(* What a restart accepts is an entitlement, or none.                      *)
LEMMA AcceptedTyped ==
    ASSUME NEW e \in Entitlement \cup {Absent}
    PROVE  Accepted(e) \in {e, Absent} /\ Accepted(e) \in Entitlement \cup {Absent}
BY DEF Accepted

-----------------------------------------------------------------------------
(* Invariants *)

LEMMA InvHolds == LicenseSpec => []LicenseInv
<1>1. LicenseInit => LicenseInv
  <2> SUFFICES ASSUME LicenseInit
               PROVE  LicenseInv
    OBVIOUS
  <2>1. now = 0 /\ ent = Absent /\ cached = Absent /\ asking = "none" /\ grants = 0
    BY DEF LicenseInit
  <2>2. unstored \in BOOLEAN
    BY DEF LicenseInit
  <2> QED
    BY <2>1, <2>2 DEF LicenseInv, LicenseTypeOK, RefreshOfSome
<1>2. LicenseInv /\ [LicenseNext]_licenseVars => LicenseInv'
  <2> SUFFICES ASSUME LicenseInv, [LicenseNext]_licenseVars
               PROVE  LicenseInv'
    OBVIOUS
  <2> USE DEF LicenseInv, LicenseTypeOK, RefreshOfSome
  <2>1. ASSUME NEW kind \in {"activate", "refresh"}, Ask(kind)
        PROVE  LicenseInv'
    BY <2>1 DEF Ask
  <2>2. ASSUME NEW a \in Answers, Grant(a)
        PROVE  LicenseInv'
    <3>1. Granted(asking, a) \in Entitlement
      BY <2>2, GrantedTyped DEF Grant
    <3>2. ent' \in Entitlement /\ asking' = "none" /\ now' = now /\ grants' = grants + 1
      BY <2>2, <3>1 DEF Grant
    <3>3. cached' \in Entitlement \cup {Absent} /\ unstored' \in BOOLEAN
      BY <2>2, <3>1 DEF Grant, Stored
    <3> QED
      BY <3>2, <3>3
  <2>3. CASE Fail
    BY <2>3 DEF Fail
  <2>4. CASE Tick
    BY <2>4, LicenseAssumption DEF Tick
  <2>5. CASE Restart
    BY <2>5, AcceptedTyped DEF Restart
  <2>6. CASE UNCHANGED licenseVars
    BY <2>6 DEF licenseVars
  <2> QED
    BY <2>1, <2>2, <2>3, <2>4, <2>5, <2>6 DEF LicenseNext, Answered
<1> QED
  BY <1>1, <1>2, PTL DEF LicenseSpec

(* The variables of LicenseManager and its command have their types, and a *)
(* refresh is never answered with no entitlement to take fields from       *)
(* (license.rs:559).                                                       *)
THEOREM LicenseTypeCorrect == LicenseSpec => []LicenseTypeOK
BY InvHolds, PTL DEF LicenseInv

LEMMA StoredHolds == LicenseSpec => []StoredInv
<1>1. LicenseInit => StoredInv
  BY DEF LicenseInit, StoredInv, Accepted
<1>2. StoredInv /\ [LicenseNext]_licenseVars => StoredInv'
  <2> SUFFICES ASSUME StoredInv, [LicenseNext]_licenseVars
               PROVE  StoredInv'
    OBVIOUS
  <2> USE DEF StoredInv
  <2>1. ASSUME NEW kind \in {"activate", "refresh"}, Ask(kind)
        PROVE  StoredInv'
    BY <2>1 DEF Ask
  <2>2. ASSUME NEW a \in Answers, Grant(a)
        PROVE  StoredInv'
    BY <2>2 DEF Grant, Stored, Accepted
  <2>3. CASE Fail
    BY <2>3 DEF Fail
  <2>4. CASE Tick
    BY <2>4 DEF Tick
  <2>5. CASE Restart
    BY <2>5 DEF Restart
  <2>6. CASE UNCHANGED licenseVars
    BY <2>6 DEF licenseVars
  <2> QED
    BY <2>1, <2>2, <2>3, <2>4, <2>5, <2>6 DEF LicenseNext, Answered
<1> QED
  BY <1>1, <1>2, PTL DEF LicenseSpec

-----------------------------------------------------------------------------
(* What the licence promises *)

(* Wherever is_online_ai_enabled says yes (license.rs:293), check does not *)
(* say that a licence is missing or expired (license.rs:265).              *)
THEOREM OnlineIsLicensed == LicenseSpec => []EnabledIsLicensed
<1>1. EnabledIsLicensed
  BY DEF EnabledIsLicensed, Enabled, Check
<1> QED
  BY <1>1, PTL

(* Online AI that is off comes on with a grant of the server only, as long *)
(* as every grant has been stored (license.rs:322) and the clock is not    *)
(* set back.                                                               *)
THEOREM OffStaysOff == LicenseSpec => NoRevival
<1>1. ASSUME LicenseInv, StoredInv, [LicenseNext]_licenseVars,
             ~unstored, now' >= now, ~Enabled(ent, now), Enabled(ent', now')
      PROVE  grants' > grants
  <2>1. ASSUME NEW a \in Answers, Grant(a)
        PROVE  grants' > grants
    BY <1>1, <2>1 DEF Grant, LicenseInv, LicenseTypeOK
  <2>2. CASE Tick
    <3>1. ent' = ent /\ now \in Nat /\ now' \in Nat /\ now' >= now
      BY <1>1, <2>2, LicenseAssumption DEF Tick, LicenseInv, LicenseTypeOK
    <3>2. ent \in Entitlement \cup {Absent}
      BY <1>1 DEF LicenseInv, LicenseTypeOK
    <3>3. Deadline(ent) \in Nat /\ now' < Deadline(ent)
      BY <1>1, <3>1, <3>2, EnabledUntilDeadline
    <3>4. now < Deadline(ent)
      BY <3>1, <3>3
    <3> QED
      BY <1>1, <3>1, <3>2, <3>4, EnabledUntilDeadline
  <2>3. CASE Restart
    <3>1. ent' # Absent /\ now' = now
      BY <1>1, <2>3 DEF Restart, Enabled
    <3>2. ent' = ent
      BY <1>1, <2>3, <3>1 DEF Restart, StoredInv
    <3> QED
      BY <1>1, <3>1, <3>2
  <2>4. CASE \/ \E kind \in {"activate", "refresh"} : Ask(kind)
             \/ Fail
             \/ UNCHANGED licenseVars
    <3>1. ent' = ent /\ now' = now
      BY <2>4 DEF Ask, Fail, licenseVars
    <3> QED
      BY <1>1, <3>1
  <2> QED
    BY <1>1, <2>1, <2>2, <2>3, <2>4 DEF LicenseNext, Answered
<1>2. LicenseInv /\ StoredInv /\ [LicenseNext]_licenseVars
         => [~unstored /\ now' >= now /\ ~Enabled(ent, now) /\ Enabled(ent', now')
                => grants' > grants]_licenseVars
  BY <1>1
<1> QED
  BY <1>2, InvHolds, StoredHolds, PTL DEF LicenseSpec, NoRevival

(* The licence is a lease: whatever the server answers, whatever fails and *)
(* whenever the application restarts, online AI is on exactly before a     *)
(* deadline that only a grant, or the restart from the file, moves         *)
(* (license.rs:293-327).                                                   *)
THEOREM LicenseImplementsLease == LicenseSpec => ImplementsLease
<1>1. LicenseInit => L!LeaseInit
  BY DEF LicenseInit, L!LeaseInit, Deadline, Accepted, Enabled
<1>2. LicenseInv /\ LicenseInv' /\ [LicenseNext]_licenseVars => [L!LeaseNext]_(L!lease)
  <2> SUFFICES ASSUME LicenseInv, LicenseInv', [LicenseNext]_licenseVars
               PROVE  [L!LeaseNext]_(L!lease)
    OBVIOUS
  <2> DEFINE cap(e) == Deadline(Accepted(e))
  <2>1. /\ now \in Nat /\ now' \in Nat
        /\ ent \in Entitlement \cup {Absent} /\ ent' \in Entitlement \cup {Absent}
        /\ cached \in Entitlement \cup {Absent} /\ cached' \in Entitlement \cup {Absent}
    BY DEF LicenseInv, LicenseTypeOK
  <2>2. L!Follows /\ Deadline(ent)' \in Nat
    <3>1. Deadline(ent') \in Nat /\ (Enabled(ent', now') <=> now' < Deadline(ent'))
      BY <2>1, EnabledUntilDeadline
    <3>2. Enabled(ent', now') \in BOOLEAN /\ (now' < Deadline(ent')) \in BOOLEAN
      BY <2>1, <3>1 DEF Enabled
    <3> QED
      BY <3>1, <3>2 DEF L!Follows
  <2>3. ASSUME NEW a \in Answers, Grant(a)
        PROVE  L!Grant
    <3>1. now' = now /\ cached' \in {ent', cached, Absent}
      BY <2>3 DEF Grant, Stored
    <3>2. cap(cached') \in {Deadline(ent'), cap(cached), 0}
      BY <3>1 DEF Accepted, Deadline
    <3> QED
      BY <2>2, <3>1, <3>2 DEF L!Grant
  <2>4. ASSUME Tick
        PROVE  L!Pass
    <3>1. now' \in Nat /\ now' # now /\ ent' = ent /\ cached' = cached
      BY <2>1, <2>4 DEF Tick
    <3>2. Deadline(ent)' = Deadline(ent) /\ cap(cached)' = cap(cached)
      BY <3>1
    <3> QED
      BY <2>2, <3>1, <3>2 DEF L!Pass
  <2>5. ASSUME Restart
        PROVE  L!Restart
    <3>1. ent' = Accepted(cached) /\ cached' = cached /\ now' = now
      BY <2>5 DEF Restart
    <3>2. Deadline(ent)' = cap(cached) /\ cap(cached)' = cap(cached)
      BY <3>1
    <3> QED
      BY <2>2, <3>1, <3>2 DEF L!Restart
  <2>6. CASE \/ \E kind \in {"activate", "refresh"} : Ask(kind)
             \/ Fail
             \/ UNCHANGED licenseVars
    <3>1. UNCHANGED <<now, ent, cached>>
      BY <2>6 DEF Ask, Fail, licenseVars
    <3> QED
      BY <3>1 DEF L!lease
  <2> QED
    BY <2>3, <2>4, <2>5, <2>6 DEF LicenseNext, Answered, L!LeaseNext
<1> QED
  BY <1>1, <1>2, InvHolds, PTL DEF LicenseSpec, ImplementsLease, L!LeaseSpec

-----------------------------------------------------------------------------
(* Routing *)

(* Of each command: it is idle when no file is left, has then sent         *)
(* nothing, remembers what is shown now, and goes to the cloud only after  *)
(* that was shown.                                                         *)
CommandInv(c) ==
    /\ At(c, "idle") <=> left[c] = 0
    /\ At(c, "idle") => sentTo[c] = {}
    /\ ~At(c, "idle") => ShownNow(c) \subseteq shown[c]
    /\ At(c, "load") \/ At(c, "cloud") => "cloud" \in shown[c]
    /\ sentTo[c] \subseteq shown[c]

RoutingInv == RoutingTypeOK /\ \A c \in Commands : CommandInv(c)

-----------------------------------------------------------------------------
(* The licence within *)

LEMMA OnlineStepOfLicense ==
    ASSUME [OnlineNext]_onlineVars
    PROVE  [LicenseNext]_licenseVars
<1>1. CASE LicenseStep
  BY <1>1 DEF LicenseStep, LicenseNext
<1>2. CASE RestartAll
  BY <1>2 DEF RestartAll, LicenseNext
<1>3. CASE SaveKey \/ ClearKey
  BY <1>3 DEF SaveKey, ClearKey
<1>4. CASE \E c \in Commands : Begin(c) \/ LookAtLicense(c) \/ OwnStep(c) \/ NetworkStep(c)
  BY <1>4 DEF Begin, LookAtLicense, OwnStep, NetworkStep, ReadClock, GatewayAnswers, GatewayFails,
              LoadKey, SendToCloud, CloudAnswers, CloudFails, ClassifyLocally, Serve, Quiet
<1>5. CASE UNCHANGED onlineVars
  BY <1>5 DEF onlineVars
<1> QED
  BY <1>1, <1>2, <1>3, <1>4, <1>5 DEF OnlineNext, Act

(* What goes on beside the licence takes no step of its own in it, so that *)
(* its theorems are theorems of the whole.                                 *)
THEOREM OnlineIsLicense == OnlineSpec => LicenseSpec
BY OnlineStepOfLicense, PTL DEF OnlineSpec, OnlineInit, LicenseSpec

(* Beside any number of plans under way, the licence is one lease with one *)
(* deadline (license.rs:293-327).                                          *)
THEOREM OnlineImplementsLease == OnlineSpec => ImplementsLease
BY OnlineIsLicense, LicenseImplementsLease, PTL

(* Online AI comes back with a grant of the server only, unless a store    *)
(* has failed (license.rs:322) or the clock is set back.                   *)
THEOREM OnlineOffStaysOff == OnlineSpec => NoRevival
BY OnlineIsLicense, OffStaysOff, PTL

(* Where online AI is on, the licence is shown as active or in its grace   *)
(* (main.rs:60).                                                           *)
THEOREM OnlineOnIsLicensed == OnlineSpec => []EnabledIsLicensed
BY OnlineIsLicense, OnlineIsLicensed, PTL

-----------------------------------------------------------------------------
(* What is shown *)

LEMMA ShownTyped ==
    ASSUME NEW c
    PROVE  /\ ShownNow(c) \subseteq {"gateway", "cloud"}
           /\ ShownNow(c)' \subseteq {"gateway", "cloud"}
<1>1. ASSUME NEW t
      PROVE  /\ ShownAt(t) \subseteq {"gateway", "cloud"}
             /\ ShownAt(t)' \subseteq {"gateway", "cloud"}
  BY DEF ShownAt
<1> QED
  BY <1>1 DEF ShownNow

(* At a time a command may go by, what the licence and the key say is      *)
(* shown.                                                                  *)
LEMMA ShownByStatus ==
    ASSUME NEW c, NEW t \in Times(c)
    PROVE  /\ Enabled(ent, t) => "gateway" \in ShownNow(c)
           /\ Configured => "cloud" \in ShownNow(c)
<1>1. ShownAt(t) \subseteq ShownNow(c)
  BY DEF ShownNow
<1>2. Enabled(ent, t) => "gateway" \in ShownAt(t)
  BY DEF ShownAt, ActiveTier
<1>3. Configured => "cloud" \in ShownAt(t)
  BY DEF ShownAt, ActiveTier
<1> QED
  BY <1>1, <1>2, <1>3

(* A step remembers what is shown after it, and, within a file, what was   *)
(* shown before.                                                           *)
LEMMA Recalled ==
    ASSUME Recall, NEW c \in Commands
    PROVE  /\ pc'[c] = "idle" => shown'[c] = {}
           /\ pc'[c] # "idle" => ShownNow(c)' \subseteq shown'[c]
           /\ pc'[c] # "idle" /\ left'[c] = left[c] => shown[c] \subseteq shown'[c]
           /\ shown[c] \subseteq {"gateway", "cloud"} => shown'[c] \subseteq {"gateway", "cloud"}
BY ShownTyped DEF Recall

-----------------------------------------------------------------------------
(* Types *)

\* The types of what Recall does not write.
PlansTyped ==
    /\ key \in BOOLEAN
    /\ env \in Environments
    /\ pc \in [Commands -> Steps]
    /\ left \in [Commands -> 0 .. MaxFiles]
    /\ sampled \in [Commands -> Nat]
    /\ cfg \in [Commands -> BOOLEAN]
    /\ sentTo \in [Commands -> SUBSET {"gateway", "cloud"}]

LEMMA InitTyped == OnlineInit => RoutingTypeOK
<1> SUFFICES ASSUME OnlineInit
             PROVE  RoutingTypeOK
  OBVIOUS
<1>1. LicenseTypeOK
  <2>1. now = 0 /\ ent = Absent /\ cached = Absent /\ asking = "none" /\ grants = 0
    BY DEF OnlineInit, LicenseInit
  <2>2. unstored \in BOOLEAN
    BY DEF OnlineInit, LicenseInit
  <2> QED
    BY <2>1, <2>2 DEF LicenseTypeOK
<1>2. FALSE \in BOOLEAN
  OBVIOUS
<1>3. 0 \in 0 .. MaxFiles
  BY RoutingAssumption
<1>4. key \in BOOLEAN
  BY DEF OnlineInit, RoutingInit
<1> QED
  BY <1>1, <1>2, <1>3, <1>4 DEF OnlineInit, RoutingInit, RoutingTypeOK, Steps

\* A file that is served was left.
LEMMA ServeTyped ==
    ASSUME PlansTyped, NEW c \in Commands, left[c] # 0, Serve(c)
    PROVE  PlansTyped'
<1>1. left[c] - 1 \in 0 .. MaxFiles
  <2>1. left[c] \in 0 .. MaxFiles /\ MaxFiles \in Nat
    BY RoutingAssumption DEF PlansTyped
  <2> QED
    BY <2>1
<1>2. left' \in [Commands -> 0 .. MaxFiles]
  BY <1>1 DEF PlansTyped, Serve
<1>3. pc' \in [Commands -> Steps]
  BY DEF PlansTyped, Serve, Goto, Steps, First
<1>4. sampled' \in [Commands -> Nat] /\ sentTo' \in [Commands -> SUBSET {"gateway", "cloud"}]
  BY DEF PlansTyped, Serve
<1>5. cfg' \in [Commands -> BOOLEAN]
  <2>1. (cfg[c] /\ ~LastFile(c)) \in BOOLEAN
    OBVIOUS
  <2> QED
    BY <2>1 DEF PlansTyped, Serve
<1>6. key' = key /\ env' = env
  BY DEF Serve, Quiet
<1> QED
  BY <1>2, <1>3, <1>4, <1>5, <1>6 DEF PlansTyped

LEMMA ActTyped ==
    ASSUME RoutingInv, LicenseTypeOK, Act
    PROVE  PlansTyped'
<1>1. PlansTyped
  BY DEF RoutingInv, RoutingTypeOK, PlansTyped
<1> USE <1>1 DEF PlansTyped
<1>2. CASE LicenseStep
  BY <1>2 DEF LicenseStep
<1>3. CASE SaveKey \/ ClearKey
  BY <1>3 DEF SaveKey, ClearKey
<1>4. CASE RestartAll
  BY <1>4, RoutingAssumption DEF RestartAll, Steps
<1>5. ASSUME NEW c \in Commands, Begin(c) \/ ReadClock(c)
      PROVE  PlansTyped'
  <2>1. pc' \in [Commands -> Steps] /\ left' \in [Commands -> 0 .. MaxFiles]
    <3>1. pc' \in [Commands -> Steps]
      BY <1>5 DEF Begin, ReadClock, Goto, Steps
    <3>2. 1 .. MaxFiles \subseteq 0 .. MaxFiles
      BY RoutingAssumption
    <3>3. left' \in [Commands -> 0 .. MaxFiles]
      BY <1>5, <3>2 DEF Begin, ReadClock
    <3> QED
      BY <3>1, <3>3
  <2>2. sampled' \in [Commands -> Nat] /\ sentTo' \in [Commands -> SUBSET {"gateway", "cloud"}]
    BY <1>5 DEF Begin, ReadClock, LicenseTypeOK
  <2>3. cfg' \in [Commands -> BOOLEAN]
    BY <1>5 DEF Begin, ReadClock
  <2> QED
    BY <1>5, <2>1, <2>2, <2>3 DEF Begin, ReadClock, Quiet
<1>6. ASSUME NEW c \in Commands, LookAtLicense(c) \/ SendToCloud(c)
      PROVE  PlansTyped'
  <2>1. pc' \in [Commands -> Steps] /\ sentTo' \in [Commands -> SUBSET {"gateway", "cloud"}]
    BY <1>6 DEF LookAtLicense, SendToCloud, Goto, Steps
  <2>2. sampled' \in [Commands -> Nat]
    BY <1>6 DEF LookAtLicense, SendToCloud
  <2> QED
    BY <1>6, <2>1, <2>2 DEF LookAtLicense, SendToCloud, Quiet
<1>7. ASSUME NEW c \in Commands, GatewayFails(c) \/ LoadKey(c) \/ CloudFails(c)
      PROVE  PlansTyped'
  <2>1. pc' \in [Commands -> Steps]
    BY <1>7 DEF GatewayFails, LoadKey, CloudFails, AfterFailure, Goto, Steps
  <2> QED
    BY <1>7, <2>1 DEF GatewayFails, LoadKey, CloudFails, Quiet
<1>8. ASSUME NEW c \in Commands, GatewayAnswers(c) \/ CloudAnswers(c) \/ ClassifyLocally(c)
      PROVE  PlansTyped'
  <2>1. left[c] # 0
    BY <1>8 DEF GatewayAnswers, CloudAnswers, ClassifyLocally, At, RoutingInv, CommandInv
  <2>2. Serve(c)
    BY <1>8 DEF GatewayAnswers, CloudAnswers, ClassifyLocally
  <2> QED
    BY <2>1, <2>2, ServeTyped
<1> QED
  BY <1>2, <1>3, <1>4, <1>5, <1>6, <1>7, <1>8 DEF Act, OwnStep, NetworkStep

LEMMA NextTyped ==
    ASSUME RoutingInv, LicenseTypeOK, LicenseTypeOK', [OnlineNext]_onlineVars
    PROVE  RoutingTypeOK'
<1>1. CASE UNCHANGED onlineVars
  BY <1>1 DEF onlineVars, routingVars, RoutingInv, RoutingTypeOK
<1>2. CASE OnlineNext
  <2>1. PlansTyped'
    BY <1>2, ActTyped DEF OnlineNext
  <2>2. shown' = [c \in Commands |-> shown'[c]]
    BY <1>2 DEF OnlineNext, Recall
  <2>3. ASSUME NEW c \in Commands
        PROVE  shown'[c] \subseteq {"gateway", "cloud"}
    <3>1. shown[c] \subseteq {"gateway", "cloud"}
      BY DEF RoutingInv, RoutingTypeOK
    <3> QED
      BY <1>2, <3>1, Recalled DEF OnlineNext
  <2>4. shown' \in [Commands -> SUBSET {"gateway", "cloud"}]
    BY <2>2, <2>3
  <2> QED
    BY <2>1, <2>4 DEF PlansTyped, RoutingTypeOK
<1> QED
  BY <1>1, <1>2

-----------------------------------------------------------------------------
(* Where files go *)

\* Time passes for a command, and settings change, while it takes no step.
LEMMA Unmoved ==
    ASSUME RoutingInv, Recall, NEW c \in Commands,
           pc'[c] = pc[c], left'[c] = left[c], sentTo'[c] = sentTo[c]
    PROVE  CommandInv(c)'
<1>1. CommandInv(c)
  BY DEF RoutingInv
<1>2. /\ pc'[c] # "idle" => ShownNow(c)' \subseteq shown'[c] /\ shown[c] \subseteq shown'[c]
      /\ pc'[c] = "idle" => shown'[c] = {}
  BY Recalled
<1> QED
  BY <1>1, <1>2 DEF CommandInv, At

\* A command that takes a step within a file.
LEMMA Moved ==
    ASSUME RoutingInv, Recall, NEW c \in Commands,
           ~At(c, "idle"), pc'[c] # "idle", left'[c] = left[c],
           pc'[c] \in {"load", "cloud"} => "cloud" \in ShownNow(c) \/ At(c, "load"),
           sentTo'[c] \subseteq sentTo[c] \cup ShownNow(c) \cup shown[c]
    PROVE  CommandInv(c)'
<1>1. CommandInv(c)
  BY DEF RoutingInv
<1>2. ShownNow(c)' \subseteq shown'[c] /\ shown[c] \subseteq shown'[c]
  BY Recalled
<1>3. ShownNow(c) \subseteq shown[c]
  BY <1>1 DEF CommandInv
<1>4. pc'[c] \in {"load", "cloud"} => "cloud" \in shown'[c]
  BY <1>1, <1>2, <1>3 DEF CommandInv
<1>5. sentTo'[c] \subseteq shown'[c]
  BY <1>1, <1>2, <1>3 DEF CommandInv
<1>6. ~(left'[c] = 0)
  BY <1>1 DEF CommandInv
<1> QED
  BY <1>2, <1>4, <1>5, <1>6 DEF CommandInv, At

\* A command between two files, or at an end of the plan.
LEMMA Served ==
    ASSUME RoutingInv, NEW c \in Commands, ~At(c, "idle"), Serve(c), Recall
    PROVE  CommandInv(c)'
<1>1. left[c] \in 1 .. MaxFiles
  BY RoutingAssumption DEF RoutingInv, RoutingTypeOK, CommandInv
<1>2. left'[c] = left[c] - 1 /\ sentTo'[c] = {}
  BY DEF Serve, RoutingInv, RoutingTypeOK
<1>3. pc'[c] = IF left[c] = 1 THEN "idle" ELSE "clock"
  BY DEF Serve, Goto, LastFile, First, RoutingInv, RoutingTypeOK
<1>4. pc'[c] = "idle" <=> left'[c] = 0
  BY <1>1, <1>2, <1>3, RoutingAssumption
<1>5. pc'[c] # "idle" => ShownNow(c)' \subseteq shown'[c]
  BY Recalled
<1> QED
  BY <1>2, <1>3, <1>4, <1>5 DEF CommandInv, At

\* Another command's step is none of this one's.
LEMMA StepOfOne ==
    ASSUME RoutingInv, LicenseTypeOK, Recall, NEW c \in Commands,
           Begin(c) \/ LookAtLicense(c) \/ OwnStep(c) \/ NetworkStep(c)
    PROVE  /\ CommandInv(c)'
           /\ \A d \in Commands \ {c} :
                 pc'[d] = pc[d] /\ left'[d] = left[d] /\ sentTo'[d] = sentTo[d]
<1> USE DEF RoutingInv, RoutingTypeOK
<1>1. CommandInv(c)
  OBVIOUS
<1>2. CASE Begin(c)
  <2>1. pc'[c] = "clock" /\ sentTo'[c] = {}
    BY <1>2 DEF Begin, Goto
  <2>2. left'[c] # 0
    BY <1>2, RoutingAssumption DEF Begin
  <2>3. ShownNow(c)' \subseteq shown'[c]
    BY <2>1, Recalled
  <2>4. CommandInv(c)'
    BY <2>1, <2>2, <2>3 DEF CommandInv, At
  <2> QED
    BY <1>2, <2>4 DEF Begin, Goto, Quiet, licenseVars
<1>3. CASE ReadClock(c)
  <2>1. pc'[c] = "lock" /\ left'[c] = left[c] /\ sentTo'[c] = sentTo[c]
    BY <1>3 DEF ReadClock, Goto
  <2>2. ~At(c, "idle")
    BY <1>3 DEF ReadClock, At
  <2>3. CommandInv(c)'
    BY <1>1, <2>1, <2>2, Moved DEF CommandInv
  <2> QED
    BY <1>3, <2>3 DEF ReadClock, Goto, Quiet, licenseVars
<1>4. CASE LookAtLicense(c)
  <2>1. sampled[c] \in Times(c)
    <3>1. At(c, "lock")
      BY <1>4 DEF LookAtLicense
    <3> QED
      BY <3>1 DEF Times
  <2>2. pc'[c] \in {"gateway", "key"} /\ left'[c] = left[c]
    BY <1>4 DEF LookAtLicense, Goto
  <2>3. sentTo'[c] \subseteq ShownNow(c)
    BY <1>4, <2>1, ShownByStatus DEF LookAtLicense
  <2>4. ~At(c, "idle")
    BY <1>4 DEF LookAtLicense, At
  <2>5. CommandInv(c)'
    BY <1>1, <2>2, <2>3, <2>4, Moved DEF CommandInv
  <2> QED
    BY <1>4, <2>5 DEF LookAtLicense, Goto, Quiet, licenseVars
<1>5. CASE LoadKey(c)
  <2>1. now \in Times(c)
    BY <1>5 DEF LoadKey, At, Times
  <2>2. pc'[c] \in {"load", "local"} /\ left'[c] = left[c] /\ sentTo'[c] = sentTo[c]
       
    BY <1>5 DEF LoadKey, Goto
  <2>3. pc'[c] = "load" => "cloud" \in ShownNow(c)
    BY <1>5, <2>1, ShownByStatus DEF LoadKey, Goto
  <2>4. ~At(c, "idle")
    BY <1>5 DEF LoadKey, At
  <2>5. CommandInv(c)'
    BY <1>1, <2>2, <2>3, <2>4, Moved DEF CommandInv
  <2> QED
    BY <1>5, <2>5 DEF LoadKey, Goto, Quiet, licenseVars
<1>6. CASE SendToCloud(c)
  <2>1. pc'[c] \in {"cloud", "local"} /\ left'[c] = left[c]
    BY <1>6 DEF SendToCloud, Goto
  <2>2. At(c, "load") /\ ~At(c, "idle")
    BY <1>6 DEF SendToCloud, At
  <2>3. sentTo'[c] \subseteq sentTo[c] \cup shown[c]
    BY <1>1, <1>6, <2>2 DEF SendToCloud, CommandInv
  <2>4. CommandInv(c)'
    BY <1>1, <2>1, <2>2, <2>3, Moved DEF CommandInv
  <2> QED
    BY <1>6, <2>4 DEF SendToCloud, Goto, Quiet, licenseVars
<1>7. CASE GatewayFails(c) \/ CloudFails(c)
  <2>1. pc'[c] \in {"key", "local"} /\ left'[c] = left[c] /\ sentTo'[c] = sentTo[c]
       
    BY <1>7 DEF GatewayFails, CloudFails, AfterFailure, Goto
  <2>2. ~At(c, "idle")
    BY <1>7 DEF GatewayFails, CloudFails, At
  <2>3. CommandInv(c)'
    BY <1>1, <2>1, <2>2, Moved DEF CommandInv
  <2> QED
    BY <1>7, <2>3 DEF GatewayFails, CloudFails, Goto, Quiet, licenseVars
<1>8. CASE GatewayAnswers(c) \/ CloudAnswers(c) \/ ClassifyLocally(c)
  <2>1. Serve(c)
    BY <1>8 DEF GatewayAnswers, CloudAnswers, ClassifyLocally
  <2>2. ~At(c, "idle")
    BY <1>8 DEF GatewayAnswers, CloudAnswers, ClassifyLocally, At
  <2>3. CommandInv(c)'
    BY <2>1, <2>2, Served
  <2> QED
    BY <2>1, <2>3 DEF Serve, Goto, Quiet, licenseVars
<1> QED
  BY <1>2, <1>3, <1>4, <1>5, <1>6, <1>7, <1>8 DEF OwnStep, NetworkStep

LEMMA CommandsKept ==
    ASSUME RoutingInv, LicenseTypeOK, LicenseTypeOK', [OnlineNext]_onlineVars,
           NEW c \in Commands
    PROVE  CommandInv(c)'
<1>1. CASE UNCHANGED onlineVars
  <2>1. ShownNow(c)' = ShownNow(c)
    BY <1>1 DEF onlineVars, routingVars, licenseVars, ShownNow, ShownAt, Times, At,
                ActiveTier, Configured, Enabled, Entitled, IsValid, InGrace, PeriodRuns
  <2> QED
    BY <1>1, <2>1 DEF onlineVars, routingVars, licenseVars, RoutingInv, CommandInv, At
<1>2. CASE Recall /\ (LicenseStep \/ SaveKey \/ ClearKey)
  BY <1>2, Unmoved DEF LicenseStep, SaveKey, ClearKey
<1>3. CASE Recall /\ RestartAll
  <2>1. pc'[c] = "idle" /\ left'[c] = 0 /\ sentTo'[c] = {}
    BY <1>3 DEF RestartAll
  <2> QED
    BY <2>1 DEF CommandInv, At
<1>4. ASSUME Recall, NEW d \in Commands,
             Begin(d) \/ LookAtLicense(d) \/ OwnStep(d) \/ NetworkStep(d)
      PROVE  CommandInv(c)'
  <2>1. CASE c = d
    BY <1>4, <2>1, StepOfOne
  <2>2. CASE c # d
    <3>1. pc'[c] = pc[c] /\ left'[c] = left[c] /\ sentTo'[c] = sentTo[c]
      BY <1>4, <2>2, StepOfOne
    <3> QED
      BY <1>4, <3>1, Unmoved
  <2> QED
    BY <2>1, <2>2
<1> QED
  BY <1>1, <1>2, <1>3, <1>4 DEF OnlineNext, Act

-----------------------------------------------------------------------------
(* The theorems *)

LEMMA RoutingHolds == OnlineSpec => []RoutingInv
<1>1. OnlineInit => RoutingInv
  BY InitTyped DEF OnlineInit, RoutingInit, RoutingInv, CommandInv, At
<1>2. RoutingInv /\ LicenseInv /\ LicenseInv' /\ [OnlineNext]_onlineVars => RoutingInv'
  BY NextTyped, CommandsKept DEF RoutingInv, LicenseInv
<1> QED
  BY <1>1, <1>2, OnlineIsLicense, InvHolds, PTL DEF OnlineSpec

(* The variables of the plans and of the licence keep their types, and no  *)
(* plan serves more files than it has (main.rs:957-1017).                  *)
THEOREM RoutingTypeCorrect == OnlineSpec => []RoutingTypeOK
BY RoutingHolds, PTL DEF RoutingInv

(* However plans, the licence, the clock and the key interleave, a file    *)
(* goes only where the status would have said so since it was begun        *)
(* (main.rs:850-907).                                                      *)
THEOREM FilesGoWhereShown == OnlineSpec => []SentOnlyWhereShown
<1>1. RoutingInv => SentOnlyWhereShown
  BY DEF RoutingInv, CommandInv, SentOnlyWhereShown
<1> QED
  BY <1>1, RoutingHolds, PTL

=============================================================================
