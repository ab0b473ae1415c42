------------------------ MODULE Credentials_proofs ------------------------
(***************************************************************************)
(* What holds of the credentials file for every number of identities,      *)
(* every set of AI modes and every interleaving of the threads' stores.    *)
(*                                                                         *)
(* The types hold for any number of processes: JobsFit says which stores a *)
(* thread can have before it in each phase.  The rest is about one         *)
(* instance.  Identities says what each phase of the start-up has found or *)
(* stored so far, with the private key last, as long as no I/O error has   *)
(* hit the identity; Stores says what the file and the buffers hold as     *)
(* long as no two stores have overlapped and no error has cost the file    *)
(* more than the token stored, and what they agree on as long as nothing   *)
(* has failed at all.                                                      *)
(***************************************************************************)
EXTENDS Credentials, TLAPS

-----------------------------------------------------------------------------
(* The stores a thread can have before it *)

Main(p) == <<p, "main">>
Net(p) == <<p, "net">>

AllStores(n) == <<Job("device_id", n), Job("device_pubkey", n), Job("private_key", n)>>
TwoStores(n) == <<Job("device_pubkey", n), Job("private_key", n)>>
LastStore(n) == <<Job("private_key", n)>>

ModeStore(m) == <<Job("ai_mode", m)>>
KeyStore == <<Job("byok_config_json", ApiKey)>>
Clearing == <<Job("byok_config_json", Cleared), Job("byok_api_key", Cleared)>>
ClearingEnds == <<Job("byok_api_key", Cleared)>>
Caching(n) == <<Job("entitlement", n)>>

MainLists(p) ==
    IF phase[p] = "storing"
    THEN {AllStores(device[p].id), TwoStores(device[p].id), LastStore(device[p].id)}
    ELSE IF phase[p] = "running"
    THEN {<<>>, ModeStore(mode[p]), KeyStore, Clearing, ClearingEnds}
    ELSE {<<>>}

NetLists(p) ==
    IF phase[p] = "running" THEN {<<>>, Caching(device[p].id)} ELSE {<<>>}

HasIdentity(p) == phase[p] \in {"storing", "private", "entitlement", "mode", "running"}

JobsFit(p) ==
    /\ jobs[Main(p)] \in MainLists(p)
    /\ jobs[Net(p)] \in NetLists(p)
    /\ HasIdentity(p) => device[p].id \in Nat

Types ==
    /\ TypeOK
    /\ jobs \in [Threads -> Seq([key : Keys, value : Modes \cup Nat])]
    /\ \A t \in Threads : pc[t] = "idle" <=> jobs[t] = <<>>
    /\ \A p \in Procs : JobsFit(p)

-----------------------------------------------------------------------------
(* The identity of one instance *)

Bare(m) ==
    m["device_id"] = Absent /\ m["device_pubkey"] = Absent /\ m["private_key"] = Absent

Whole(m, n) ==
    m["device_id"] = n /\ m["device_pubkey"] = n /\ m["private_key"] = n

(* The private key comes last: with it, the rest is there. *)
KeyLast(m) ==
    m["private_key"] # Absent => Whole(m, m["private_key"])

(* A map in which a list of the identity's stores is still to come. *)
Lacks(m, n, list) ==
    /\ m["private_key"] = Absent
    /\ list # AllStores(n) => m["device_id"] = n
    /\ list = LastStore(n) => m["device_pubkey"] = n

(* The map after the first store of the list. *)
Filled(m, n, list) ==
    /\ m["device_id"] = n
    /\ list # AllStores(n) => m["device_pubkey"] = n
    /\ m["private_key"] = (IF list = LastStore(n) THEN n ELSE Absent)

StartUpStores(p) ==
    LET t == Main(p)
        n == device[p].id
    IN  /\ device[p].pub = n
        /\ pc[t] = "load" => Lacks(Loaded, n, jobs[t])
        /\ Storing(t) => Filled(buffer[t], n, jobs[t]) /\ Loaded["private_key"] = Absent
        /\ pc[t] = "write" => file = Empty

RunsWith(p, m) == Bare(m) \/ Whole(m, device[p].id)

Identities(p) ==
    /\ KeyLast(Loaded)
    /\ phase[p] = "pubkey" => device[p].id = Loaded["device_id"]
    /\ phase[p] = "private" =>
          /\ device[p].id = Loaded["device_id"]
          /\ device[p].pub = Loaded["device_pubkey"]
          /\ device[p].pub # Absent
    /\ phase[p] = "generate" => Loaded["private_key"] = Absent
    /\ phase[p] = "storing" => StartUpStores(p)
    /\ phase[p] \in {"entitlement", "mode", "running"} => device[p].pub = device[p].id
    /\ phase[p] \in {"entitlement", "mode"} => Whole(Loaded, device[p].id)
    /\ phase[p] = "running" =>
          /\ RunsWith(p, Loaded)
          /\ \A t \in Threads : Storing(t) => RunsWith(p, buffer[t])

-----------------------------------------------------------------------------
(* The stores of one instance while none has overlapped another and no     *)
(* error has cost the file more than the token stored                      *)

(* An entitlement lies beside the identity it was issued for. *)
Bound(m) ==
    m["entitlement"] # Absent =>
        m["private_key"] # Absent /\ m["device_id"] = m["entitlement"]

ModeKept(p, m) == ModeOf(m) = mode[p] \/ jobs[Main(p)] = ModeStore(mode[p])

Perfect == errors = NoErrors

Sound == errors["identity"] + errors["loss"] = 0

(* The map holds the identity, and what else the process has in memory as  *)
(* long as nothing has failed.                                             *)
Holds(p, m) ==
    /\ Whole(m, device[p].id)
    /\ Perfect => m["entitlement"] = ent[p] /\ ModeKept(p, m)

MainBuffer(p, m) ==
    /\ Whole(m, device[p].id)
    /\ Perfect => m["entitlement"] = ent[p] /\ ModeOf(m) = mode[p]

NetBuffer(p, m) ==
    /\ Whole(m, device[p].id)
    /\ m["entitlement"] = device[p].id
    /\ Perfect => ModeKept(p, m)

OneStore(p) ==
    /\ Storing(Main(p)) => ~Storing(Net(p))
    /\ pc[Main(p)] = "write" \/ pc[Net(p)] = "write" => file = Empty

Stores(p) ==
    /\ OneStore(p)
    /\ Bound(Loaded)
    /\ \A t \in Threads : Storing(t) => Bound(buffer[t])
    /\ ent[p] # Absent => ent[p] = device[p].id
    /\ phase[p] \notin {"mode", "running"} => ent[p] = Absent
    /\ phase[p] = "mode" /\ Perfect => ent[p] = Loaded["entitlement"]
    /\ phase[p] = "running" =>
          /\ pc[Main(p)] # "write" /\ pc[Net(p)] # "write" => Holds(p, Loaded)
          /\ Storing(Main(p)) => MainBuffer(p, buffer[Main(p)])
          /\ Storing(Net(p)) => NetBuffer(p, buffer[Net(p)])

CredentialsInv ==
    /\ Types
    /\ errors["identity"] = 0 => \A p \in Procs : Identities(p)
    /\ ~overlapped /\ Sound => \A p \in Procs : Stores(p)

-----------------------------------------------------------------------------
(* Lists and maps *)

(* Head, tail and length of the lists of stores. *)
LEMMA Lists ==
    /\ \A a, b, c : /\ Head(<<a, b, c>>) = a /\ Tail(<<a, b, c>>) = <<b, c>>
                    /\ Len(<<a, b, c>>) = 3
    /\ \A a, b : Head(<<a, b>>) = a /\ Tail(<<a, b>>) = <<b>> /\ Len(<<a, b>>) = 2
    /\ \A a : Head(<<a>>) = a /\ Tail(<<a>>) = <<>> /\ Len(<<a>>) = 1
OBVIOUS

(* What each list does first, and what it leaves to do. *)
LEMMA Rests ==
    /\ \A n : /\ Head(AllStores(n)) = Job("device_id", n)
             /\ Tail(AllStores(n)) = TwoStores(n) /\ Len(AllStores(n)) = 3
    /\ \A n : /\ Head(TwoStores(n)) = Job("device_pubkey", n)
             /\ Tail(TwoStores(n)) = LastStore(n) /\ Len(TwoStores(n)) = 2
    /\ \A n : /\ Head(LastStore(n)) = Job("private_key", n)
             /\ Tail(LastStore(n)) = <<>> /\ Len(LastStore(n)) = 1
    /\ \A m : /\ Head(ModeStore(m)) = Job("ai_mode", m)
             /\ Tail(ModeStore(m)) = <<>> /\ Len(ModeStore(m)) = 1
    /\ \A n : /\ Head(Caching(n)) = Job("entitlement", n)
             /\ Tail(Caching(n)) = <<>> /\ Len(Caching(n)) = 1
    /\ Head(KeyStore) = Job("byok_config_json", ApiKey)
    /\ Tail(KeyStore) = <<>> /\ Len(KeyStore) = 1
    /\ Head(Clearing) = Job("byok_config_json", Cleared)
    /\ Tail(Clearing) = ClearingEnds /\ Len(Clearing) = 2
    /\ Head(ClearingEnds) = Job("byok_api_key", Cleared)
    /\ Tail(ClearingEnds) = <<>> /\ Len(ClearingEnds) = 1
BY Lists DEF AllStores, TwoStores, LastStore, ModeStore, KeyStore, Clearing, ClearingEnds, Caching

LEMMA JobParts == \A k, v : Job(k, v).key = k /\ Job(k, v).value = v
BY DEF Job

LEMMA EmptyList == \A S : <<>> \in Seq(S) /\ DOMAIN <<>> = {}
OBVIOUS

(* Nothing is no such list. *)
LEMMA SomeStore ==
    /\ \A n : <<>> # AllStores(n)
    /\ \A n : <<>> # TwoStores(n)
    /\ \A n : <<>> # LastStore(n)
    /\ \A n : <<>> # Caching(n)
    /\ \A m : <<>> # ModeStore(m)
    /\ <<>> \notin {KeyStore, Clearing, ClearingEnds}
BY DEF AllStores, TwoStores, LastStore, Caching, ModeStore, KeyStore, Clearing, ClearingEnds

LEMMA BlankIsMap == Blank \in Tokens
BY DEF Blank, Tokens

LEMMA LoadedIsMap ==
    ASSUME TypeOK
    PROVE  Loaded \in Tokens
BY BlankIsMap DEF TypeOK, Loaded

(* What a store does to a map: the key gets the value, the others stay. *)
LEMMA EditedMap ==
    ASSUME NEW m \in Tokens, NEW k \in Keys, NEW v \in Values(k)
    PROVE  /\ Edited(m, Job(k, v)) \in Tokens
           /\ Edited(m, Job(k, v))[k] = v
           /\ \A l \in Keys \ {k} : Edited(m, Job(k, v))[l] = m[l]
BY DEF Edited, Job, Tokens, Values

(* A list of stores is never empty of values its keys can hold. *)
StoreList(list) ==
    \/ \E n \in Nat : list \in {AllStores(n), TwoStores(n), LastStore(n), Caching(n)}
    \/ \E m \in Modes : list = ModeStore(m)
    \/ list \in {KeyStore, Clearing, ClearingEnds}

LEMMA FirstStore ==
    ASSUME NEW list, StoreList(list)
    PROVE  /\ list # <<>>
           /\ Head(list).key \in Keys
           /\ Head(list).value \in Values(Head(list).key)
           /\ Head(list) = Job(Head(list).key, Head(list).value)
BY Lists DEF StoreList, AllStores, TwoStores, LastStore, Caching, ModeStore, KeyStore,
             Clearing, ClearingEnds, Job, Keys, Values, ApiKey, Cleared

LEMMA ListTyped ==
    ASSUME NEW list, StoreList(list)
    PROVE  /\ list \in Seq([key : Keys, value : Modes \cup Nat])
           /\ \A i \in DOMAIN list :
                 list[i].key \in Keys /\ list[i].value \in Values(list[i].key)
<1> DEFINE S == [key : Keys, value : Modes \cup Nat]
           Fits(j) == j \in S /\ j.value \in Values(j.key)
           Good(l) == l \in Seq(S) /\ \A i \in DOMAIN l : Fits(l[i])
<1>1. \A a, b, c : Fits(a) /\ Fits(b) /\ Fits(c) =>
         Good(<<a>>) /\ Good(<<a, b>>) /\ Good(<<a, b, c>>)
  <2>1. \A a : Fits(a) => Good(<<a>>)
    OBVIOUS
  <2>2. \A a, b : Fits(a) /\ Fits(b) => Good(<<a, b>>)
    OBVIOUS
  <2>3. \A a, b, c : Fits(a) /\ Fits(b) /\ Fits(c) => Good(<<a, b, c>>)
    OBVIOUS
  <2> QED
    BY <2>1, <2>2, <2>3
<1>2. \A k \in Keys \ {"ai_mode"}, n \in Nat : Fits(Job(k, n))
  BY DEF Job, Values
<1>3. \A m \in Modes : Fits(Job("ai_mode", m))
  BY DEF Job, Values, Keys
<1> HIDE DEF Fits, Good
<1>4. ASSUME NEW n \in Nat
      PROVE  /\ Fits(Job("device_id", n)) /\ Fits(Job("device_pubkey", n))
             /\ Fits(Job("private_key", n)) /\ Fits(Job("entitlement", n))
             /\ Fits(Job("byok_config_json", n)) /\ Fits(Job("byok_api_key", n))
  BY <1>2 DEF Keys
<1>5. Good(list)
  <2>1. CASE \E n \in Nat : list \in {AllStores(n), TwoStores(n), LastStore(n), Caching(n)}
    BY <1>1, <1>4, <2>1 DEF AllStores, TwoStores, LastStore, Caching
  <2>2. CASE \E m \in Modes : list = ModeStore(m)
    BY <1>1, <1>3, <2>2 DEF ModeStore
  <2>3. CASE list \in {KeyStore, Clearing, ClearingEnds}
    BY <1>1, <1>4, <2>3 DEF KeyStore, Clearing, ClearingEnds, ApiKey, Cleared
  <2> QED
    BY <2>1, <2>2, <2>3 DEF StoreList
<1> QED
  BY <1>5 DEF Fits, Good

(* What a thread has before it is such a list. *)
LEMMA JobsAreStores ==
    ASSUME Types, NEW t \in Threads, pc[t] # "idle"
    PROVE  /\ StoreList(jobs[t])
           /\ t[1] \in Procs
           /\ t = Main(t[1]) \/ t = Net(t[1])
           /\ phase[t[1]] \in {"storing", "running"}
<1>1. t[1] \in Procs /\ (t = Main(t[1]) \/ t = Net(t[1]))
  BY DEF Threads, Main, Net
<1>2. jobs[t] # <<>> /\ JobsFit(t[1]) /\ mode[t[1]] \in Modes
  BY <1>1 DEF Types, TypeOK
<1>3. CASE t = Main(t[1])
  BY <1>1, <1>2, <1>3 DEF JobsFit, MainLists, HasIdentity, StoreList
<1>4. CASE t = Net(t[1])
  BY <1>1, <1>2, <1>4 DEF JobsFit, NetLists, HasIdentity, StoreList
<1> QED
  BY <1>1, <1>3, <1>4

-----------------------------------------------------------------------------
(* Types, for any number of processes *)

LEMMA InitTypes == Init => Types
<1> SUFFICES ASSUME Init PROVE Types
  OBVIOUS
<1>1. TypeOK
  <2>1. \A t \in Threads : DOMAIN jobs[t] = {}
    BY DEF Init
  <2>2. device \in [Procs -> [id : Nat \cup {Absent}, pub : Nat \cup {Absent}]]
    BY DEF Init, Off
  <2> QED
    BY <2>1, <2>2, BlankIsMap, CredentialsAssumption DEF Init, TypeOK, Phases, NoErrors
<1>2. jobs \in [Threads -> Seq([key : Keys, value : Modes \cup Nat])]
  BY DEF Init
<1>3. \A p \in Procs : JobsFit(p)
  BY DEF Init, JobsFit, MainLists, NetLists, HasIdentity, Threads, Main, Net
<1> QED
  BY <1>1, <1>2, <1>3 DEF Init, Types

(* Errors are only ever added. *)
LEMMA OneMore ==
    ASSUME Types, NEW kind \in Errors, Error(kind)
    PROVE  /\ errors' \in [Errors -> Nat]
           /\ errors'[kind] > 0 /\ errors' # NoErrors
           /\ \A e \in Errors : errors'[e] >= errors[e]
<1>1. errors' = [errors EXCEPT ![kind] = @ + 1] /\ errors \in [Errors -> Nat]
  BY DEF Error, Types, TypeOK
<1>2. errors'[kind] > 0 /\ errors' \in [Errors -> Nat] /\ \A e \in Errors : errors'[e] >= errors[e]
  BY <1>1
<1>3. NoErrors[kind] = 0
  BY DEF NoErrors
<1> QED
  BY <1>2, <1>3

LEMMA HitIsError ==
    ASSUME NEW t, NEW kind \in {"loss", "other"}
    PROVE  /\ Hit(t, kind) \in Errors
           /\ Head(jobs[t]).key \in IdentityKeys => Hit(t, kind) = "identity"
           /\ Head(jobs[t]).key \notin IdentityKeys => Hit(t, kind) = kind
BY DEF Hit, Errors

(* A read finds what the file holds, or fails, which is an error. *)
LEMMA ReadTyped ==
    ASSUME Types, NEW m, NEW kind \in Errors, Reads(m, kind)
    PROVE  /\ m \in Tokens
           /\ errors' \in [Errors -> Nat]
           /\ \A e \in Errors : errors'[e] >= errors[e]
           /\ \/ m = Loaded /\ errors' = errors
              \/ m = Blank /\ errors'[kind] > 0 /\ errors' # NoErrors
<1>1. CASE m = Loaded /\ UNCHANGED errors
  BY <1>1, LoadedIsMap DEF Types, TypeOK
<1>2. CASE m = Blank /\ Error(kind)
  BY <1>2, BlankIsMap, OneMore
<1> QED
  BY <1>1, <1>2 DEF Reads

(* The processes a step is not about. *)
LEMMA OthersFit ==
    ASSUME NEW p \in Procs, NEW q \in Procs, q # p, JobsFit(q), Types,
           phase'[q] = phase[q], device'[q] = device[q], mode'[q] = mode[q],
           jobs'[Main(q)] = jobs[Main(q)], jobs'[Net(q)] = jobs[Net(q)]
    PROVE  JobsFit(q)'
BY DEF JobsFit, MainLists, NetLists, HasIdentity, Main, Net

(* A thread with nothing to do gets a list of stores. *)
LEMMA EnqueueTyped ==
    ASSUME Types, NEW t \in Threads, NEW list, StoreList(list), Enqueue(t, list)
    PROVE  /\ jobs' \in [Threads -> Seq([key : Keys, value : Modes \cup Nat])]
           /\ \A u \in Threads : \A i \in DOMAIN jobs'[u] :
                 jobs'[u][i].key \in Keys /\ jobs'[u][i].value \in Values(jobs'[u][i].key)
           /\ pc' \in [Threads -> {"idle", "load", "truncate", "write"}]
           /\ \A u \in Threads : pc'[u] = "idle" <=> jobs'[u] = <<>>
           /\ jobs'[t] = list
           /\ \A u \in Threads \ {t} : jobs'[u] = jobs[u]
BY ListTyped, FirstStore DEF Types, TypeOK, Enqueue

(* A step of the start-up that reads the map m. *)
StartUp(p, m) ==
    \/ Start(p, m) \/ ReadPubkey(p, m) \/ ReadPrivateKey(p, m)
    \/ ReadEntitlement(p, m) \/ ReadMode(p, m)

(* The start-up has a thread only when it stores. *)
LEMMA StartUpKeepsTypes ==
    ASSUME Types, NEW p \in Procs, NEW m \in {Loaded, Blank}, StartUp(p, m)
    PROVE  Types'
<1> USE DEF StartUp
<1>0. m \in Tokens /\ errors' \in [Errors -> Nat]
  <2>1. PICK kind \in Errors : Reads(m, kind)
    BY DEF Start, ReadPubkey, ReadPrivateKey, ReadEntitlement, ReadMode, Errors
  <2> QED
    BY <2>1, ReadTyped
<1>1. /\ m["device_id"] \in Nat \cup {Absent}
      /\ m["device_pubkey"] \in Nat \cup {Absent}
      /\ m["entitlement"] \in Nat \cup {Absent}
      /\ ModeOf(m) \in Modes
  <2>1. \A k \in Keys : m[k] \in {Absent} \cup Values(k)
    BY <1>0 DEF Tokens
  <2>2. /\ m["device_id"] \in Nat \cup {Absent}
        /\ m["device_pubkey"] \in Nat \cup {Absent}
        /\ m["entitlement"] \in Nat \cup {Absent}
    BY <2>1 DEF Keys, Values
  <2>3. m["ai_mode"] \in Modes \cup {Absent}
    BY <2>1 DEF Keys, Values
  <2> QED
    BY <2>2, <2>3, CredentialsAssumption DEF ModeOf
<1>2. TypeOK'
  <2>1. phase' \in [Procs -> Phases]
    BY DEF Types, TypeOK, Start, ReadPubkey, ReadPrivateKey, ReadEntitlement, ReadMode, Phases
  <2>2. device' \in [Procs -> [id : Nat \cup {Absent}, pub : Nat \cup {Absent}]]
    <3> DEFINE D == [id : Nat \cup {Absent}, pub : Nat \cup {Absent}]
    <3>1. \A d \in D, v \in Nat \cup {Absent} : [d EXCEPT !.id = v] \in D /\ [d EXCEPT !.pub = v] \in D
      OBVIOUS
    <3>2. device \in [Procs -> D]
      BY DEF Types, TypeOK
    <3>3. \A d \in D : [device EXCEPT ![p] = d] \in [Procs -> D]
      BY <3>2
    <3>4. CASE Start(p, m)
      BY <1>1, <3>1, <3>2, <3>3, <3>4 DEF Start
    <3>5. CASE ReadPubkey(p, m)
      BY <1>1, <3>1, <3>2, <3>3, <3>5 DEF ReadPubkey
    <3>6. CASE ReadPrivateKey(p, m) \/ ReadEntitlement(p, m) \/ ReadMode(p, m)
      BY <3>2, <3>6 DEF ReadPrivateKey, ReadEntitlement, ReadMode
    <3> QED
      BY <3>4, <3>5, <3>6
  <2>3. ent' \in [Procs -> Nat \cup {Absent}] /\ mode' \in [Procs -> Modes]
    BY <1>1 DEF Types, TypeOK, Start, ReadPubkey, ReadPrivateKey, ReadEntitlement, ReadMode
  <2>4. UNCHANGED <<file, devices, jobs, pc, buffer, overlapped>>
    BY DEF Start, ReadPubkey, ReadPrivateKey, ReadEntitlement, ReadMode
  <2> QED
    BY <1>0, <2>1, <2>2, <2>3, <2>4 DEF Types, TypeOK
<1>3. UNCHANGED <<jobs, pc>>
  BY DEF Start, ReadPubkey, ReadPrivateKey, ReadEntitlement, ReadMode
<1>4. JobsFit(p)'
  <2>1. phase[p] \notin {"storing", "running"} /\ phase'[p] # "storing"
    BY DEF Types, TypeOK, Start, ReadPubkey, ReadPrivateKey, ReadEntitlement, ReadMode
  <2>3. HasIdentity(p)' => device'[p].id \in Nat
    <3>1. CASE Start(p, m)
      BY <3>1 DEF Types, TypeOK, HasIdentity, Start
    <3>2. CASE ReadPubkey(p, m)
      BY <3>2 DEF Types, TypeOK, HasIdentity, ReadPubkey
    <3>3. CASE ReadPrivateKey(p, m) \/ ReadEntitlement(p, m) \/ ReadMode(p, m)
      <4>1. HasIdentity(p) /\ device' = device
        BY <3>3 DEF HasIdentity, ReadPrivateKey, ReadEntitlement, ReadMode
      <4> QED
        BY <4>1 DEF Types, JobsFit
    <3> QED
      BY <3>1, <3>2, <3>3
  <2>2. jobs[Main(p)] = <<>> /\ jobs[Net(p)] = <<>>
    BY <2>1 DEF Types, JobsFit, MainLists, NetLists
  <2> QED
    BY <1>3, <2>1, <2>2, <2>3 DEF JobsFit, MainLists, NetLists, Main, Net
<1>5. ASSUME NEW q \in Procs, q # p
      PROVE  JobsFit(q)'
  BY <1>3, <1>5, OthersFit
     DEF Types, TypeOK, Start, ReadPubkey, ReadPrivateKey, ReadEntitlement, ReadMode
<1> QED
  BY <1>2, <1>3, <1>4, <1>5 DEF Types

(* The commands, and the new identity, give a thread its stores. *)
LEMMA CommandKeepsTypes ==
    ASSUME Types, NEW p \in Procs,
           \/ Generate(p) \/ SaveByok(p) \/ ClearByok(p) \/ CacheEntitlement(p)
           \/ \E m \in Modes : SetMode(p, m)
    PROVE  Types'
<1> USE DEF Main, Net
<1>1. /\ <<p, "main">> \in Threads /\ <<p, "net">> \in Threads
      /\ <<p, "main">> # <<p, "net">>
  BY DEF Threads
<1>2. JobsFit(p) /\ phase \in [Procs -> Phases] /\ mode \in [Procs -> Modes]
  BY DEF Types, TypeOK
<1>3. UNCHANGED <<file, buffer, overlapped, errors, ent>>
  BY DEF Generate, SaveByok, ClearByok, CacheEntitlement, SetMode, Enqueue, procVars
<1>4. \A q \in Procs \ {p} :
         phase'[q] = phase[q] /\ device'[q] = device[q] /\ mode'[q] = mode[q]
  BY DEF Generate, SaveByok, ClearByok, CacheEntitlement, SetMode, procVars, Types, TypeOK
<1>5. ASSUME NEW t \in {<<p, "main">>, <<p, "net">>}, NEW list, StoreList(list), Enqueue(t, list),
             JobsFit(p)',
             devices' \in Nat, phase' \in [Procs -> Phases], mode' \in [Procs -> Modes],
             device' \in [Procs -> [id : Nat \cup {Absent}, pub : Nat \cup {Absent}]]
      PROVE  Types'
  <2>1. t \in Threads
    BY <1>1, <1>5
  <2>2. TypeOK'
    BY <1>3, <1>5, <2>1, EnqueueTyped DEF Types, TypeOK
  <2>3. ASSUME NEW q \in Procs, q # p
        PROVE  JobsFit(q)'
    <3>1. jobs'[Main(q)] = jobs[Main(q)] /\ jobs'[Net(q)] = jobs[Net(q)]
      BY <1>5, <2>1, <2>3, EnqueueTyped DEF Threads
    <3> QED
      BY <1>4, <2>3, <3>1, OthersFit DEF Types
  <2> QED
    BY <1>5, <2>1, <2>2, <2>3, EnqueueTyped DEF Types
<1>6. CASE Generate(p)
  <2> DEFINE n == devices + 1
  <2>1. n \in Nat /\ device'[p].id = n
    BY <1>6 DEF Generate, Types, TypeOK
  <2>2. StoreList(AllStores(n))
    BY <2>1 DEF StoreList
  <2>3. Enqueue(<<p, "main">>, AllStores(n))
    BY <1>6 DEF Generate, AllStores
  <2>4. jobs[<<p, "net">>] = <<>> /\ jobs'[<<p, "net">>] = <<>> /\ jobs'[<<p, "main">>] = AllStores(n)
    <3>1. jobs[<<p, "net">>] = <<>>
      BY <1>2, <1>6 DEF JobsFit, NetLists, Generate
    <3> QED
      BY <1>1, <2>2, <2>3, <3>1, EnqueueTyped
  <2>5. JobsFit(p)'
    BY <1>2, <1>6, <2>1, <2>4 DEF JobsFit, MainLists, NetLists, HasIdentity, Generate
  <2>6. devices' \in Nat /\ phase' \in [Procs -> Phases] /\ mode' \in [Procs -> Modes]
    BY <1>2, <1>6, <2>1 DEF Generate, Phases
  <2>7. device' \in [Procs -> [id : Nat \cup {Absent}, pub : Nat \cup {Absent}]]
    BY <1>6, <2>1 DEF Generate, Types, TypeOK
  <2> QED
    BY <1>5, <2>2, <2>3, <2>5, <2>6, <2>7
<1>7. ASSUME NEW m \in Modes, SetMode(p, m)
      PROVE  Types'
  <2>1. StoreList(ModeStore(m)) /\ Enqueue(<<p, "main">>, ModeStore(m))
    BY <1>7 DEF SetMode, StoreList, ModeStore
  <2>2. jobs'[<<p, "main">>] = ModeStore(m) /\ jobs'[<<p, "net">>] = jobs[<<p, "net">>]
    BY <1>1, <2>1, EnqueueTyped
  <2>3. JobsFit(p)'
    BY <1>2, <1>7, <2>2 DEF JobsFit, MainLists, NetLists, HasIdentity, SetMode
  <2>4. mode' \in [Procs -> Modes]
    BY <1>2, <1>7 DEF SetMode
  <2> QED
    BY <1>5, <1>7, <2>1, <2>3, <2>4 DEF SetMode, Types, TypeOK
<1>8. CASE SaveByok(p) \/ ClearByok(p)
  <2>1. PICK list \in {KeyStore, Clearing} : Enqueue(<<p, "main">>, list)
    BY <1>8 DEF SaveByok, ClearByok, KeyStore, Clearing
  <2>2. StoreList(list)
    BY DEF StoreList
  <2>3. jobs'[<<p, "main">>] = list /\ jobs'[<<p, "net">>] = jobs[<<p, "net">>]
    BY <1>1, <2>1, <2>2, EnqueueTyped
  <2>4. JobsFit(p)'
    BY <1>2, <1>8, <2>3 DEF JobsFit, MainLists, NetLists, HasIdentity, SaveByok, ClearByok, procVars
  <2> QED
    BY <1>5, <1>8, <2>1, <2>2, <2>4 DEF SaveByok, ClearByok, procVars, Types, TypeOK
<1>9. CASE CacheEntitlement(p)
  <2> DEFINE n == device[p].id
  <2>1. n \in Nat
    BY <1>2, <1>9 DEF CacheEntitlement, JobsFit, HasIdentity
  <2>2. StoreList(Caching(n)) /\ Enqueue(<<p, "net">>, Caching(n))
    BY <1>9, <2>1 DEF CacheEntitlement, StoreList, Caching
  <2>3. jobs'[<<p, "net">>] = Caching(n) /\ jobs'[<<p, "main">>] = jobs[<<p, "main">>]
    BY <1>1, <2>2, EnqueueTyped
  <2>4. JobsFit(p)'
    BY <1>2, <1>9, <2>3 DEF JobsFit, MainLists, NetLists, HasIdentity, CacheEntitlement, procVars
  <2> QED
    BY <1>5, <1>9, <2>2, <2>4 DEF CacheEntitlement, procVars, Types, TypeOK
<1> QED
  BY <1>6, <1>7, <1>8, <1>9

(* The map a thread is going to write is the file with its token. *)
LEMMA LoadTyped ==
    ASSUME Types, NEW t \in Threads, pc[t] # "idle", NEW m \in Tokens
    PROVE  Edited(m, Head(jobs[t])) \in Tokens
<1>1. StoreList(jobs[t])
  BY JobsAreStores
<1> DEFINE j == Head(jobs[t])
<1>2. j.key \in Keys /\ j.value \in Values(j.key) /\ j = Job(j.key, j.value)
  BY <1>1, FirstStore
<1> HIDE DEF j
<1>3. Edited(m, j) \in Tokens
  BY <1>2, EditedMap
<1> QED
  BY <1>3 DEF j

LEMMA LoadKeepsTypes ==
    ASSUME Types, NEW t \in Threads, NEW m, Load(t, m) \/ Truncate(t)
    PROVE  Types'
<1>1. CASE Load(t, m)
  <2>1. m \in Tokens /\ errors' \in [Errors -> Nat]
    BY <1>1, HitIsError, ReadTyped DEF Load
  <2>2. Edited(m, Head(jobs[t])) \in Tokens
    BY <1>1, <2>1, LoadTyped DEF Load
  <2>3. TypeOK'
    BY <1>1, <2>1, <2>2 DEF Types, TypeOK, Load, procVars
  <2>4. UNCHANGED <<jobs, phase, device, mode>> /\ \A u \in Threads : pc'[u] = "idle" <=> pc[u] = "idle"
    BY <1>1 DEF Types, TypeOK, Load, procVars
  <2> QED
    BY <2>3, <2>4 DEF Types, JobsFit, MainLists, NetLists, HasIdentity
<1>2. CASE Truncate(t)
  <2>1. TypeOK'
    BY <1>2 DEF Types, TypeOK, Truncate, procVars
  <2>2. UNCHANGED <<jobs, phase, device, mode>> /\ \A u \in Threads : pc'[u] = "idle" <=> pc[u] = "idle"
    BY <1>2 DEF Types, TypeOK, Truncate, procVars
  <2> QED
    BY <2>1, <2>2 DEF Types, JobsFit, MainLists, NetLists, HasIdentity
<1> QED
  BY <1>1, <1>2

(* After the first store of a list the rest is such a list, or nothing,    *)
(* and the start-up goes on after the last.                                *)
LEMMA ReturnKeepsJobs ==
    ASSUME Types, NEW t \in Threads, pc[t] # "idle", Return(t), NEW p, p = t[1]
    PROVE  /\ JobsFit(p)'
           /\ StoreList(Tail(jobs[t])) \/ Tail(jobs[t]) = <<>>
           /\ Len(jobs[t]) = 1 <=> Tail(jobs[t]) = <<>>
           /\ phase' \in [Procs -> Phases]
           /\ ent' \in [Procs -> Nat \cup {Absent}]
<1> DEFINE n == device[p].id
<1>1. /\ StoreList(jobs[t]) /\ p \in Procs
      /\ t = Main(p) \/ t = Net(p)
      /\ phase[p] \in {"storing", "running"}
  BY JobsAreStores
<1>2. JobsFit(p) /\ n \in Nat /\ mode[p] \in Modes
  BY <1>1 DEF Types, TypeOK, JobsFit, HasIdentity
<1>3. /\ device' = device /\ mode' = mode
      /\ jobs'[t] = Tail(jobs[t])
      /\ \A u \in Threads \ {t} : jobs'[u] = jobs[u]
      /\ Main(p) \in Threads /\ Net(p) \in Threads /\ Main(p) # Net(p)
      /\ jobs[t] # <<>>
  BY <1>1 DEF Return, Stored, Types, TypeOK, Threads, Main, Net
<1>4. CASE phase[p] = "storing"
  <2>1. t = Main(p) /\ jobs[Net(p)] = <<>>
    BY <1>1, <1>2, <1>3, <1>4 DEF JobsFit, NetLists
  <2>2. jobs[t] \in {AllStores(n), TwoStores(n), LastStore(n)}
    BY <1>2, <1>4, <2>1 DEF JobsFit, MainLists
  <2>3. CASE jobs[t] \in {AllStores(n), TwoStores(n)}
    <3>1. /\ Tail(jobs[t]) \in {TwoStores(n), LastStore(n)} /\ Len(jobs[t]) # 1
          /\ Head(jobs[t]).key \notin {"private_key", "entitlement"}
      BY <2>3, Rests, JobParts
    <3>2. Tail(jobs[t]) # <<>> /\ StoreList(Tail(jobs[t]))
      BY <1>2, <3>1, SomeStore DEF StoreList
    <3>3. phase' = phase /\ ent' = ent
      BY <3>1 DEF Return, Stored
    <3>4. JobsFit(p)'
      BY <1>2, <1>3, <1>4, <2>1, <3>1, <3>3 DEF JobsFit, MainLists, NetLists, HasIdentity, Main, Net
    <3> QED
      BY <3>1, <3>2, <3>3, <3>4 DEF Types, TypeOK
  <2>4. CASE jobs[t] = LastStore(n)
    <3>1. Tail(jobs[t]) = <<>> /\ Len(jobs[t]) = 1 /\ Head(jobs[t]).key = "private_key"
      BY <2>4, Rests, JobParts
    <3>2. phase' = [phase EXCEPT ![p] = "entitlement"] /\ ent' = ent
      BY <3>1 DEF Return, Stored
    <3>3. phase' \in [Procs -> Phases] /\ phase'[p] = "entitlement"
      BY <1>1, <3>2 DEF Types, TypeOK, Phases
    <3>4. JobsFit(p)'
      BY <1>2, <1>3, <2>1, <3>1, <3>3 DEF JobsFit, MainLists, NetLists, HasIdentity, Main, Net
    <3> QED
      BY <3>1, <3>2, <3>3, <3>4 DEF Types, TypeOK
  <2> QED
    BY <2>2, <2>3, <2>4
<1>5. CASE phase[p] = "running"
  <2>1. CASE t = Main(p)
    <3>1. jobs[t] \in {ModeStore(mode[p]), KeyStore, Clearing, ClearingEnds}
      BY <1>2, <1>3, <1>5, <2>1 DEF JobsFit, MainLists
    <3>2. /\ Tail(jobs[t]) \in {<<>>, ClearingEnds}
          /\ Len(jobs[t]) = 1 <=> Tail(jobs[t]) = <<>>
          /\ Head(jobs[t]).key \notin {"private_key", "entitlement"}
      BY <3>1, Rests, JobParts, SomeStore
    <3>3. phase' = phase /\ ent' = ent
      BY <3>2 DEF Return, Stored
    <3>4. JobsFit(p)'
      BY <1>2, <1>3, <1>5, <2>1, <3>2, <3>3 DEF JobsFit, MainLists, NetLists, HasIdentity, Main, Net
    <3> QED
      BY <3>2, <3>3, <3>4 DEF Types, TypeOK, StoreList
  <2>2. CASE t = Net(p)
    <3>1. jobs[t] = Caching(n)
      BY <1>2, <1>3, <1>5, <2>2 DEF JobsFit, NetLists
    <3>2. /\ Tail(jobs[t]) = <<>> /\ Len(jobs[t]) = 1
          /\ Head(jobs[t]).key = "entitlement" /\ Head(jobs[t]).value = n
      BY <3>1, Rests, JobParts
    <3>3. phase' = phase /\ ent' = [ent EXCEPT ![p] = n]
      BY <3>2 DEF Return, Stored
    <3>4. JobsFit(p)'
      BY <1>2, <1>3, <1>5, <2>2, <3>2, <3>3 DEF JobsFit, MainLists, NetLists, HasIdentity, Main, Net
    <3> QED
      BY <1>1, <1>2, <3>2, <3>3, <3>4 DEF Types, TypeOK
  <2> QED
    BY <1>1, <2>1, <2>2
<1> QED
  BY <1>1, <1>4, <1>5

LEMMA WriteKeepsTypes ==
    ASSUME Types, NEW t \in Threads, Write(t) \/ OpenFails(t) \/ WriteFails(t)
    PROVE  Types'
<1> DEFINE S == [key : Keys, value : Modes \cup Nat]
           p == t[1]
           rest == Tail(jobs[t])
<1>0. /\ pc[t] # "idle" /\ Return(t)
      /\ file' \in {file, buffer[t], Garbled}
      /\ errors' \in [Errors -> Nat]
  <2>1. pc[t] # "idle" /\ Return(t) /\ file' \in {file, buffer[t], Garbled}
    BY DEF Write, OpenFails, WriteFails
  <2>2. CASE Write(t)
    BY <2>2 DEF Write, Types, TypeOK
  <2>3. CASE OpenFails(t) \/ WriteFails(t)
    BY <2>3, HitIsError, OneMore DEF OpenFails, WriteFails
  <2> QED
    BY <2>1, <2>2, <2>3
<1>1. /\ p \in Procs /\ (t = Main(p) \/ t = Net(p))
  BY <1>0, JobsAreStores
<1> HIDE DEF rest, S
<1>2. /\ rest \in Seq(S)
      /\ \A i \in DOMAIN rest : rest[i].key \in Keys /\ rest[i].value \in Values(rest[i].key)
  <2>1. CASE StoreList(rest)
    BY <2>1, ListTyped DEF S
  <2>2. CASE rest = <<>>
    BY <2>2, EmptyList
  <2> QED
    BY <2>1, <2>2, <1>0, ReturnKeepsJobs DEF rest
<1>3. /\ jobs' = [jobs EXCEPT ![t] = rest]
      /\ pc' = [pc EXCEPT ![t] = IF Len(jobs[t]) = 1 THEN "idle" ELSE "load"]
      /\ buffer' = [buffer EXCEPT ![t] = Blank]
      /\ UNCHANGED <<devices, device, mode, overlapped>>
  BY <1>0 DEF Return, Stored, rest
<1>4. TypeOK'
  <2>1. \A u \in Threads : \A i \in DOMAIN jobs'[u] :
            jobs'[u][i].key \in Keys /\ jobs'[u][i].value \in Values(jobs'[u][i].key)
    BY <1>2, <1>3 DEF Types, TypeOK
  <2>2. file' \in Tokens \cup {Empty, Garbled} /\ buffer' \in [Threads -> Tokens]
    BY <1>0, <1>3, BlankIsMap DEF Types, TypeOK
  <2>3. pc' \in [Threads -> {"idle", "load", "truncate", "write"}]
    BY <1>3 DEF Types, TypeOK
  <2> QED
    BY <1>3, <2>1, <2>2, <2>3, <1>0, ReturnKeepsJobs DEF Types, TypeOK
<1>5. jobs' \in [Threads -> Seq(S)]
  BY <1>2, <1>3 DEF Types, S
<1>6. \A u \in Threads : pc'[u] = "idle" <=> jobs'[u] = <<>>
  BY <1>3, <1>0, ReturnKeepsJobs DEF Types, TypeOK, rest
<1>7. ASSUME NEW q \in Procs, q # p
      PROVE  JobsFit(q)'
  <2>1. phase'[q] = phase[q]
    BY <1>0, <1>7 DEF Return, Stored, Types, TypeOK
  <2>2. jobs'[Main(q)] = jobs[Main(q)] /\ jobs'[Net(q)] = jobs[Net(q)]
    BY <1>1, <1>3, <1>7 DEF Main, Net, Types, Threads
  <2> QED
    BY <1>1, <1>3, <1>7, <2>1, <2>2, OthersFit DEF Types
<1> QED
  BY <1>4, <1>5, <1>6, <1>7, <1>0, ReturnKeepsJobs DEF Types, S

LEMMA KillKeepsTypes ==
    ASSUME Types, NEW p \in Procs, Kill(p)
    PROVE  Types'
<1>1. jobs' \in [Threads -> Seq([key : Keys, value : Modes \cup Nat])]
  BY EmptyList DEF Kill, Types
<1>2. \A t \in Threads : jobs'[t] = (IF t[1] = p THEN <<>> ELSE jobs[t])
  BY DEF Kill
<1>3. \A t \in Threads : \A i \in DOMAIN jobs'[t] :
          jobs'[t][i].key \in Keys /\ jobs'[t][i].value \in Values(jobs'[t][i].key)
  BY <1>2, EmptyList DEF Types, TypeOK
<1>4. TypeOK'
  BY <1>3, BlankIsMap, CredentialsAssumption DEF Kill, Types, TypeOK, Off, Phases
<1>5. \A t \in Threads : pc'[t] = "idle" <=> jobs'[t] = <<>>
  BY <1>2 DEF Kill, Types
<1>6. ASSUME NEW q \in Procs
      PROVE  JobsFit(q)'
  <2>1. Main(q) \in Threads /\ Net(q) \in Threads /\ Main(q)[1] = q /\ Net(q)[1] = q
    BY DEF Main, Net, Threads
  <2>2. CASE q = p
    BY <1>2, <2>1, <2>2 DEF Kill, Types, TypeOK, JobsFit, MainLists, NetLists, HasIdentity
  <2>3. CASE q # p
    BY <1>2, <2>1, <2>3, OthersFit DEF Kill, Types, TypeOK
  <2> QED
    BY <2>2, <2>3
<1> QED
  BY <1>1, <1>4, <1>5, <1>6 DEF Types

LEMMA NextKeepsTypes ==
    ASSUME Types, [Next]_vars
    PROVE  Types'
<1>1. CASE UNCHANGED vars
  BY <1>1 DEF vars, procVars, Types, TypeOK, JobsFit, MainLists, NetLists, HasIdentity
<1>2. ASSUME Next
      PROVE  Types'
  BY <1>2, LoadKeepsTypes, WriteKeepsTypes, StartUpKeepsTypes, CommandKeepsTypes, KillKeepsTypes
     DEF Next, StartUp
<1> QED
  BY <1>1, <1>2

(* Every number of processes, identities and modes: what the file holds is *)
(* a map of the right kinds, or nothing that can be read.                  *)
THEOREM CredentialsTypeCorrect == Spec => []TypeOK
<1>1. Types => TypeOK
  BY DEF Types
<1>2. Types /\ [Next]_vars => Types'
  BY NextKeepsTypes
<1> QED
  BY <1>1, <1>2, InitTypes, PTL DEF Spec

-----------------------------------------------------------------------------
(* The identity of one instance, through its start-up and every kill *)

OneInstance == \A p, q \in Procs : p = q

LEMMA TwoThreads ==
    ASSUME OneInstance, NEW p \in Procs, NEW t \in Threads
    PROVE  /\ t = Main(p) \/ t = Net(p)
           /\ t[1] = p
           /\ Main(p) \in Threads /\ Net(p) \in Threads /\ Main(p) # Net(p)
BY DEF OneInstance, Threads, Main, Net

LEMMA BothThreads ==
    ASSUME NEW p \in Procs
    PROVE  Main(p) \in Threads /\ Net(p) \in Threads /\ Main(p) # Net(p)
BY DEF Threads, Main, Net

LEMMA BlankBare == /\ Bare(Blank) /\ KeyLast(Blank) /\ Bound(Blank)
                   /\ \A k \in Keys : Blank[k] = Absent
BY DEF Bare, KeyLast, Bound, Blank, Keys

LEMMA ListsDiffer ==
    \A n : /\ AllStores(n) # TwoStores(n)
          /\ AllStores(n) # LastStore(n)
          /\ TwoStores(n) # LastStore(n)
BY Rests

(* What a write leaves to be read. *)
LEMMA AfterWrite ==
    ASSUME Types, NEW t \in Threads, Write(t)
    PROVE  /\ Loaded' \in {buffer[t], Blank}
           /\ file = Empty => Loaded' = buffer[t]
BY CredentialsAssumption DEF Types, TypeOK, Write, Loaded

(* A store that has failed leaves what there was to read, or nothing.      *)
LEMMA AfterFailure ==
    ASSUME Types, NEW t \in Threads, OpenFails(t) \/ WriteFails(t)
    PROVE  /\ Loaded' \in {Loaded, Blank}
           /\ OpenFails(t) => file' = file /\ Loaded' = Loaded
BY CredentialsAssumption DEF Types, TypeOK, OpenFails, WriteFails, Loaded

(* With no error in the identity now, there was none before, and a step    *)
(* that fails is not about the identity.                                   *)
LEMMA SoundStep ==
    ASSUME Types, errors'["identity"] = 0
    PROVE  /\ \A m : Reads(m, "identity") => m = Loaded
           /\ \A t \in Threads : \A m : Load(t, m) /\ m # Loaded =>
                 m = Blank /\ Head(jobs[t]).key \notin IdentityKeys
           /\ \A t \in Threads : OpenFails(t) \/ WriteFails(t) =>
                 Head(jobs[t]).key \notin IdentityKeys
<1>1. \A m : Reads(m, "identity") => m = Loaded
  BY ReadTyped DEF Errors
<1>2. ASSUME NEW t \in Threads, NEW m, Load(t, m), m # Loaded
      PROVE  m = Blank /\ Head(jobs[t]).key \notin IdentityKeys
  <2>1. Reads(m, Hit(t, "loss")) /\ Hit(t, "loss") \in Errors
    BY <1>2, HitIsError DEF Load
  <2>2. m = Blank /\ errors'[Hit(t, "loss")] > 0
    BY <1>2, <2>1, ReadTyped
  <2> QED
    BY <2>2, HitIsError
<1>3. ASSUME NEW t \in Threads, OpenFails(t) \/ WriteFails(t)
      PROVE  Head(jobs[t]).key \notin IdentityKeys
  <2>1. PICK kind \in {"loss", "other"} : Error(Hit(t, kind))
    BY <1>3 DEF OpenFails, WriteFails
  <2>2. errors'[Hit(t, kind)] > 0
    BY <2>1, HitIsError, OneMore
  <2> QED
    BY <2>2, HitIsError
<1> QED
  BY <1>1, <1>2, <1>3

LEMMA AfterTruncate ==
    ASSUME NEW t, Truncate(t)
    PROVE  Loaded' = Blank /\ file' = Empty
BY DEF Truncate, Loaded

LEMMA StartUpKeepsIdentity ==
    ASSUME OneInstance, Types, Types', NEW p \in Procs, Identities(p),
           NEW m \in {Loaded, Blank}, StartUp(p, m), errors'["identity"] = 0
    PROVE  Identities(p)'
<1> USE DEF StartUp
<1>1. UNCHANGED <<file, jobs, pc, buffer>> /\ Loaded' = Loaded
  BY DEF Start, ReadPubkey, ReadPrivateKey, ReadEntitlement, ReadMode, Loaded
<1>2. phase \in [Procs -> Phases]
      /\ device \in [Procs -> [id : Nat \cup {Absent}, pub : Nat \cup {Absent}]]
  BY DEF Types, TypeOK
<1>3. CASE Start(p, m)
  <2>1. phase'[p] = "pubkey" /\ device'[p].id = Loaded["device_id"]
    BY <1>2, <1>3, SoundStep DEF Start
  <2> QED
    BY <1>1, <2>1 DEF Identities, KeyLast, Whole
<1>4. CASE ReadPubkey(p, m)
  <2>1. /\ device'[p].id = Loaded["device_id"]
        /\ device'[p].pub = Loaded["device_pubkey"]
        /\ phase'[p] = IF Loaded["device_id"] # Absent /\ Loaded["device_pubkey"] # Absent
                       THEN "private" ELSE "generate"
    BY <1>2, <1>4, SoundStep DEF ReadPubkey, Identities
  <2> QED
    BY <1>1, <2>1 DEF Identities, KeyLast, Whole
<1>5. CASE ReadPrivateKey(p, m)
  <2>1. /\ device' = device
        /\ phase'[p] = IF KeyFound(Loaded) THEN "entitlement" ELSE "generate"
        /\ device[p].id = Loaded["device_id"] /\ device[p].pub = Loaded["device_pubkey"]
    BY <1>2, <1>5, SoundStep DEF ReadPrivateKey, Identities
  <2> QED
    BY <1>1, <2>1 DEF Identities, KeyLast, Whole, KeyFound
<1>6. CASE ReadEntitlement(p, m) \/ ReadMode(p, m)
  <2>1. /\ device' = device
        /\ phase[p] \in {"entitlement", "mode"} /\ phase'[p] \in {"mode", "running"}
    BY <1>2, <1>6 DEF ReadEntitlement, ReadMode
  <2>2. \A t \in Threads : pc'[t] = "idle"
    <3>1. jobs[Main(p)] = <<>> /\ jobs[Net(p)] = <<>>
      BY <2>1 DEF Types, JobsFit, MainLists, NetLists
    <3> QED
      BY <1>1, <3>1, TwoThreads DEF Types
  <2> QED
    BY <1>1, <2>1, <2>2 DEF Identities, RunsWith, Storing, KeyLast, Whole
<1> QED
  BY <1>3, <1>4, <1>5, <1>6

LEMMA CommandKeepsIdentity ==
    ASSUME OneInstance, Types, Types', NEW p \in Procs, Identities(p),
           \/ Generate(p) \/ SaveByok(p) \/ ClearByok(p) \/ CacheEntitlement(p)
           \/ \E m \in Modes : SetMode(p, m)
    PROVE  Identities(p)'
<1>1. UNCHANGED <<file, buffer>> /\ Loaded' = Loaded
  BY DEF Generate, SaveByok, ClearByok, CacheEntitlement, SetMode, Enqueue, Loaded
<1>2. CASE Generate(p)
  <2> DEFINE n == device'[p].id
             t == Main(p)
  <2>1. /\ n = devices + 1 /\ device'[p].pub = n
        /\ phase'[p] = "storing"
        /\ jobs'[t] = AllStores(n) /\ pc'[t] = "load"
    BY <1>2, TwoThreads DEF Generate, Enqueue, Types, TypeOK, AllStores, Main, Threads
  <2>2. Loaded["private_key"] = Absent
    BY <1>2 DEF Generate, Identities
  <2>3. StartUpStores(p)'
    BY <1>1, <2>1, <2>2, ListsDiffer DEF StartUpStores, Lacks, Storing, Main
  <2> QED
    BY <1>1, <2>1, <2>3 DEF Identities, KeyLast, Whole
<1>3. CASE ~Generate(p)
  <2>1. phase[p] = "running" /\ UNCHANGED <<phase, device>>
    BY <1>3 DEF SaveByok, ClearByok, CacheEntitlement, SetMode, procVars
  <2>2. \A t \in Threads : Storing(t)' => Storing(t)
    BY <1>3 DEF SaveByok, ClearByok, CacheEntitlement, SetMode, Enqueue, Types, TypeOK, Storing
  <2> QED
    BY <1>1, <2>1, <2>2 DEF Identities, KeyLast, Whole, Bare, RunsWith
<1> QED
  BY <1>2, <1>3

(* A list begins with a token that belongs to its place among the stores.  *)
LEMMA Heads ==
    ASSUME Types, OneInstance, NEW p \in Procs, NEW t \in Threads, pc[t] # "idle"
    PROVE  /\ phase[p] \in {"storing", "running"} /\ device[p].id \in Nat
           /\ phase[p] = "storing" =>
                 /\ t = Main(p)
                 /\ \/ jobs[t] = AllStores(device[p].id)
                    \/ jobs[t] = TwoStores(device[p].id)
                    \/ jobs[t] = LastStore(device[p].id)
           /\ phase[p] = "running" =>
                 Head(jobs[t]).key \notin {"device_id", "device_pubkey", "private_key"}
           /\ phase[p] = "running" /\ t = Main(p) =>
                 jobs[t] \in {ModeStore(mode[p]), KeyStore, Clearing, ClearingEnds}
           /\ phase[p] = "running" /\ t = Net(p) => jobs[t] = Caching(device[p].id)
<1>0. t[1] = p
  BY TwoThreads
<1>1. phase[p] \in {"storing", "running"} /\ jobs[t] # <<>> /\ JobsFit(p)
  <2>1. phase[p] \in {"storing", "running"}
    BY <1>0, JobsAreStores
  <2>2. jobs[t] # <<>> /\ JobsFit(p)
    BY DEF Types
  <2> QED
    BY <2>1, <2>2
<1>2. device[p].id \in Nat
  BY <1>1 DEF JobsFit, HasIdentity
<1>3. CASE phase[p] = "storing"
  BY <1>1, <1>2, <1>3, TwoThreads DEF JobsFit, MainLists, NetLists
<1>4. CASE phase[p] = "running" /\ t = Main(p)
  <2>1. jobs[t] \in {ModeStore(mode[p]), KeyStore, Clearing, ClearingEnds}
    BY <1>1, <1>4 DEF JobsFit, MainLists
  <2> QED
    BY <1>2, <1>4, <2>1, TwoThreads, Rests, JobParts
<1>5. CASE phase[p] = "running" /\ t = Net(p)
  <2>1. jobs[t] = Caching(device[p].id)
    BY <1>1, <1>5 DEF JobsFit, NetLists
  <2> QED
    BY <1>2, <1>5, <2>1, TwoThreads, Rests, JobParts
<1> QED
  BY <1>1, <1>3, <1>4, <1>5, TwoThreads

(* The map with the first token of the thread's list. *)
LEMMA EditedHead ==
    ASSUME Types, NEW t \in Threads, pc[t] # "idle", NEW m \in Tokens
    PROVE  LET j == Head(jobs[t])
               e == Edited(m, j)
           IN  /\ e \in Tokens
               /\ j.key \in Keys /\ e[j.key] = j.value
               /\ \A l \in Keys : l # j.key => e[l] = m[l]
<1> DEFINE j == Head(jobs[t])
<1>1. j.key \in Keys /\ j.value \in Values(j.key) /\ j = Job(j.key, j.value)
  BY JobsAreStores, FirstStore
<1> HIDE DEF j
<1>2. /\ Edited(m, j) \in Tokens /\ Edited(m, j)[j.key] = j.value
      /\ \A l \in Keys : l # j.key => Edited(m, j)[l] = m[l]
  BY <1>1, EditedMap
<1> QED
  BY <1>1, <1>2 DEF j

LEMMA KeysAre ==
    /\ "device_id" \in Keys /\ "device_pubkey" \in Keys /\ "private_key" \in Keys
    /\ "entitlement" \in Keys /\ "ai_mode" \in Keys
BY DEF Keys

LEMMA LoadKeepsIdentity ==
    ASSUME OneInstance, Types, NEW p \in Procs, Identities(p),
           NEW t \in Threads, NEW m, Load(t, m), errors'["identity"] = 0
    PROVE  Identities(p)'
<1> DEFINE j == Head(jobs[t])
           e == Edited(m, j)
<1>1. pc[t] = "load" /\ UNCHANGED <<file, procVars, jobs>> /\ Loaded' = Loaded
  BY DEF Load, Loaded
<1>0. /\ m \in Tokens
      /\ m # Loaded => m = Blank /\ j.key \notin {"device_id", "device_pubkey", "private_key"}
  BY HitIsError, ReadTyped, SoundStep DEF Load, IdentityKeys
<1>2. /\ pc' = [pc EXCEPT ![t] = "truncate"]
      /\ buffer' = [buffer EXCEPT ![t] = e]
      /\ buffer'[t] = e /\ pc'[t] = "truncate"
      /\ \A u \in Threads \ {t} : buffer'[u] = buffer[u] /\ pc'[u] = pc[u]
  BY DEF Load, Types, TypeOK
<1>3. /\ e[j.key] = j.value
      /\ \A l \in Keys : l # j.key => e[l] = m[l]
  BY <1>0, <1>1, EditedHead
<1> HIDE DEF j, e
<1>4. CASE phase[p] = "storing"
  <2> DEFINE n == device[p].id
  <2>1. t = Main(p) /\ Lacks(Loaded, n, jobs[t]) /\ m = Loaded
    <3>1. t = Main(p) /\ Lacks(Loaded, n, jobs[t])
      BY <1>1, <1>4, Heads DEF Identities, StartUpStores
    <3>2. j.key \in {"device_id", "device_pubkey", "private_key"}
      BY <1>1, <1>4, Heads, Rests, JobParts DEF j
    <3> QED
      BY <1>0, <3>1, <3>2
  <2>2. Filled(e, n, jobs[t])
    <3>1. CASE jobs[t] = AllStores(n)
      <4>1. j.key = "device_id" /\ j.value = n
        BY <3>1, Rests, JobParts DEF j
      <4> QED
        BY <1>3, <2>1, <3>1, <4>1, KeysAre, ListsDiffer DEF Lacks, Filled
    <3>2. CASE jobs[t] = TwoStores(n)
      <4>1. j.key = "device_pubkey" /\ j.value = n
        BY <3>2, Rests, JobParts DEF j
      <4> QED
        BY <1>3, <2>1, <3>2, <4>1, KeysAre, ListsDiffer DEF Lacks, Filled
    <3>3. CASE jobs[t] = LastStore(n)
      <4>1. j.key = "private_key" /\ j.value = n
        BY <3>3, Rests, JobParts DEF j
      <4> QED
        BY <1>3, <2>1, <3>3, <4>1, KeysAre, ListsDiffer DEF Lacks, Filled
    <3> QED
      BY <1>1, <1>4, <3>1, <3>2, <3>3, Heads
  <2>3. StartUpStores(p)'
    BY <1>1, <1>2, <1>4, <2>1, <2>2 DEF Identities, StartUpStores, Lacks, Storing, Main, procVars
  <2> QED
    BY <1>1, <1>4, <2>3 DEF Identities, KeyLast, Whole, procVars
<1>5. CASE phase[p] = "running"
  <2>1. j.key \notin {"device_id", "device_pubkey", "private_key"}
    BY <1>1, <1>5, Heads DEF j
  <2>2. RunsWith(p, e)
    <3>1. RunsWith(p, m)
      BY <1>0, <1>5, BlankBare DEF Identities, RunsWith
    <3> QED
      BY <1>3, <2>1, <3>1, KeysAre DEF RunsWith, Bare, Whole
  <2>3. \A u \in Threads : Storing(u)' => RunsWith(p, buffer'[u])
    BY <1>2, <1>5, <2>2 DEF Identities, Storing
  <2> QED
    BY <1>1, <1>5, <2>3 DEF Identities, RunsWith, KeyLast, Bare, Whole, procVars
<1> QED
  BY <1>1, <1>4, <1>5, Heads

LEMMA TruncateKeepsIdentity ==
    ASSUME OneInstance, Types, NEW p \in Procs, Identities(p),
           NEW t \in Threads, Truncate(t)
    PROVE  Identities(p)'
<1>1. /\ pc[t] = "truncate" /\ UNCHANGED <<procVars, jobs, buffer>>
      /\ Loaded' = Blank /\ file' = Empty
      /\ pc' = [pc EXCEPT ![t] = "write"]
  BY AfterTruncate DEF Truncate
<1>0. \A u \in Threads : (Storing(u)' <=> Storing(u)) /\ (pc'[u] = "load" => pc[u] = "load")
  BY <1>1 DEF Storing, Types, TypeOK
<1>2. CASE phase[p] = "storing"
  <2>1. t = Main(p) /\ pc'[t] = "write"
    BY <1>1, <1>2, Heads DEF Truncate, Types, TypeOK
  <2>2. StartUpStores(p)'
    BY <1>0, <1>1, <1>2, <2>1, BlankBare, KeysAre DEF Identities, StartUpStores, Storing, procVars, Main
  <2> QED
    BY <1>1, <1>2, <2>2, BlankBare DEF Identities, procVars
<1>3. CASE phase[p] = "running"
  BY <1>0, <1>1, <1>3, BlankBare DEF Identities, RunsWith, Bare, Whole, procVars
<1> QED
  BY <1>1, <1>2, <1>3, Heads

LEMMA WriteKeepsIdentity ==
    ASSUME OneInstance, Types, NEW p \in Procs, Identities(p),
           NEW t \in Threads, Write(t)
    PROVE  Identities(p)'
<1> DEFINE n == device[p].id
<1>1. /\ pc[t] = "write" /\ device' = device /\ n \in Nat /\ n # Absent
      /\ jobs'[t] = Tail(jobs[t])
      /\ buffer[t] \in Tokens
      /\ t[1] = p
  <2>1. pc[t] = "write" /\ device' = device
    BY DEF Write, Return, Stored
  <2>2. n \in Nat /\ n # Absent
    BY <2>1, Heads, CredentialsAssumption
  <2>3. jobs'[t] = Tail(jobs[t]) /\ buffer[t] \in Tokens
    BY DEF Write, Return, Types, TypeOK
  <2> QED
    BY <2>1, <2>2, <2>3, TwoThreads
<1>2. /\ pc' = [pc EXCEPT ![t] = IF Len(jobs[t]) = 1 THEN "idle" ELSE "load"]
      /\ buffer' = [buffer EXCEPT ![t] = Blank]
  BY DEF Write, Return
<1>3. \A u \in Threads : Storing(u)' => u # t /\ Storing(u) /\ buffer'[u] = buffer[u]
  BY <1>2 DEF Storing, Types, TypeOK
<1>4. /\ pc'[t] = (IF Len(jobs[t]) = 1 THEN "idle" ELSE "load")
      /\ \A u \in Threads \ {t} : pc'[u] = pc[u]
  BY <1>2 DEF Types, TypeOK
<1>5. CASE phase[p] = "storing"
  <2>1. t = Main(p) /\ StartUpStores(p)
    BY <1>1, <1>5, Heads DEF Identities
  <2>2. /\ Loaded' = buffer[t] /\ Filled(buffer[t], n, jobs[t])
        /\ device[p].pub = n
    BY <1>1, <2>1, AfterWrite DEF StartUpStores, Storing
  <2>3. CASE jobs[t] # LastStore(n)
    <3>1. /\ jobs[t] = AllStores(n) => jobs'[t] = TwoStores(n)
          /\ jobs[t] = TwoStores(n) => jobs'[t] = LastStore(n)
          /\ jobs[t] = AllStores(n) \/ jobs[t] = TwoStores(n)
          /\ Len(jobs[t]) # 1
          /\ Head(jobs[t]).key # "private_key"
      <4>1. jobs[t] = AllStores(n) \/ jobs[t] = TwoStores(n)
        BY <1>1, <1>5, <2>3, Heads
      <4>2. CASE jobs[t] = AllStores(n)
        BY <1>1, <4>2, Rests, JobParts, ListsDiffer
      <4>3. CASE jobs[t] = TwoStores(n)
        BY <1>1, <4>3, Rests, JobParts, ListsDiffer
      <4> QED
        BY <4>1, <4>2, <4>3
    <3>2. phase' = phase /\ pc'[t] = "load"
      BY <1>4, <3>1 DEF Write, Return, Stored
    <3>3. Lacks(buffer[t], n, jobs'[t]) /\ buffer[t]["private_key"] = Absent
      BY <2>2, <2>3, <3>1, ListsDiffer DEF Lacks, Filled
    <3>4. StartUpStores(p)'
      BY <1>1, <2>1, <2>2, <3>2, <3>3 DEF StartUpStores, Storing, Main
    <3> QED
      BY <1>1, <1>5, <2>2, <3>2, <3>3, <3>4 DEF Identities, KeyLast
  <2>4. CASE jobs[t] = LastStore(n)
    <3>1. Head(jobs[t]).key = "private_key"
      BY <2>4, Rests, JobParts
    <3>2. phase'[p] = "entitlement"
      BY <1>1, <3>1 DEF Write, Return, Stored, Types, TypeOK
    <3>3. Whole(buffer[t], n)
      BY <2>2, <2>4, ListsDiffer DEF Filled, Whole
    <3> QED
      BY <1>1, <2>2, <3>2, <3>3 DEF Identities, KeyLast, Whole
  <2> QED
    BY <2>3, <2>4
<1>6. CASE phase[p] = "running"
  <2>1. Head(jobs[t]).key # "private_key"
    BY <1>1, <1>6, Heads
  <2>2. phase' = phase
    BY <2>1 DEF Write, Return, Stored
  <2>3. RunsWith(p, buffer[t]) /\ RunsWith(p, Blank)
    BY <1>1, <1>6, BlankBare DEF Identities, RunsWith, Storing
  <2>4. RunsWith(p, Loaded') /\ KeyLast(Loaded')
    BY <1>1, <2>3, AfterWrite DEF RunsWith, Bare, KeyLast, Whole
  <2> QED
    BY <1>1, <1>3, <1>6, <2>2, <2>4 DEF Identities, RunsWith, KeyLast, Bare, Whole
<1> QED
  BY <1>1, <1>5, <1>6, Heads

(* A store that fails beside the identity leaves it, or takes all of it.   *)
LEMMA FailureKeepsIdentity ==
    ASSUME OneInstance, Types, NEW p \in Procs, Identities(p),
           NEW t \in Threads, OpenFails(t) \/ WriteFails(t), errors'["identity"] = 0
    PROVE  Identities(p)'
<1>1. pc[t] # "idle" /\ Return(t)
  BY DEF OpenFails, WriteFails
<1>2. /\ Head(jobs[t]).key \notin {"device_id", "device_pubkey", "private_key"}
      /\ Loaded' \in {Loaded, Blank}
  BY SoundStep, AfterFailure DEF IdentityKeys
<1>3. phase' = phase /\ device' = device
  BY <1>1, <1>2 DEF Return, Stored
<1>4. phase[p] = "running"
  <2>1. phase[p] # "storing"
    BY <1>1, <1>2, Heads, Rests, JobParts
  <2> QED
    BY <1>1, <2>1, Heads
<1>5. \A u \in Threads : Storing(u)' => Storing(u) /\ buffer'[u] = buffer[u]
  BY <1>1 DEF Return, Storing, Types, TypeOK
<1>6. RunsWith(p, Loaded') /\ KeyLast(Loaded')
  BY <1>2, <1>4, BlankBare DEF Identities, RunsWith
<1> QED
  BY <1>3, <1>4, <1>5, <1>6 DEF Identities, RunsWith, KeyLast, Bare, Whole

LEMMA KillKeepsIdentity ==
    ASSUME OneInstance, Types, NEW p \in Procs, Identities(p), Kill(p)
    PROVE  Identities(p)'
<1>1. phase'[p] = "off" /\ Loaded' = Loaded
  BY DEF Kill, Types, TypeOK, Loaded
<1> QED
  BY <1>1 DEF Identities, KeyLast, Whole

LEMMA NextKeepsIdentity ==
    ASSUME OneInstance, Types, NEW p \in Procs, Identities(p), [Next]_vars,
           errors'["identity"] = 0
    PROVE  Identities(p)'
<1>1. CASE UNCHANGED vars
  BY <1>1 DEF vars, procVars, Identities, StartUpStores, RunsWith, Storing, Loaded, Main,
              Lacks, Filled, KeyLast, Whole, Bare
<1>2. ASSUME Next
      PROVE  Identities(p)'
  <2>1. Types'
    BY <1>2, NextKeepsTypes
  <2>2. \A q \in Procs : q = p
    BY DEF OneInstance
  <2> QED
    BY <1>2, <2>1, <2>2, LoadKeepsIdentity, TruncateKeepsIdentity, WriteKeepsIdentity,
       FailureKeepsIdentity, StartUpKeepsIdentity, CommandKeepsIdentity, KillKeepsIdentity
       DEF Next, StartUp
<1> QED
  BY <1>1, <1>2

(* An error is never forgotten. *)
LEMMA ErrorsGrow ==
    ASSUME Types, [Next]_vars
    PROVE  /\ errors' \in [Errors -> Nat]
           /\ \A e \in Errors : errors'[e] >= errors[e]
<1>1. CASE UNCHANGED errors
  BY <1>1 DEF Types, TypeOK
<1>2. CASE \E kind \in Errors : Error(kind)
  BY <1>2, OneMore
<1>3. UNCHANGED errors \/ \E kind \in Errors : Error(kind)
  <2>1. ASSUME NEW t \in Threads, NEW m, Load(t, m)
        PROVE  UNCHANGED errors \/ \E kind \in Errors : Error(kind)
    BY <2>1, HitIsError DEF Load, Reads
  <2>2. ASSUME NEW t \in Threads, OpenFails(t) \/ WriteFails(t)
        PROVE  \E kind \in Errors : Error(kind)
    BY <2>2, HitIsError DEF OpenFails, WriteFails
  <2>3. ASSUME NEW t \in Threads, Truncate(t) \/ Write(t)
        PROVE  UNCHANGED errors
    BY <2>3 DEF Truncate, Write
  <2>4. ASSUME NEW p \in Procs, NEW m, StartUp(p, m)
        PROVE  UNCHANGED errors \/ \E kind \in Errors : Error(kind)
    BY <2>4 DEF StartUp, Start, ReadPubkey, ReadPrivateKey, ReadEntitlement, ReadMode, Reads, Errors
  <2>5. ASSUME NEW p \in Procs,
               \/ Generate(p) \/ SaveByok(p) \/ ClearByok(p) \/ CacheEntitlement(p) \/ Kill(p)
               \/ \E m \in Modes : SetMode(p, m)
        PROVE  UNCHANGED errors
    BY <2>5 DEF Generate, SaveByok, ClearByok, CacheEntitlement, SetMode, Enqueue, Kill
  <2>6. CASE UNCHANGED vars
    BY <2>6 DEF vars
  <2> QED
    BY <2>1, <2>2, <2>3, <2>4, <2>5, <2>6 DEF Next, StartUp
<1> QED
  BY <1>1, <1>2, <1>3

IdentityInv ==
    /\ Types
    /\ errors["identity"] = 0 => \A p \in Procs : Identities(p)

LEMMA InitIdentity == Init => IdentityInv
<1>1. Init => Loaded = Blank
  BY DEF Init, Loaded
<1> QED
  BY <1>1, InitTypes, BlankBare DEF Init, IdentityInv, Identities

LEMMA NextKeepsIdentityInv ==
    ASSUME OneInstance, IdentityInv, [Next]_vars
    PROVE  IdentityInv'
<1>1. Types'
  BY NextKeepsTypes DEF IdentityInv
<1>2. ASSUME errors'["identity"] = 0
      PROVE  \A p \in Procs : Identities(p)'
  <2>1. errors["identity"] = 0
    <3>1. "identity" \in Errors /\ Types
      BY DEF Errors, IdentityInv
    <3>2. errors["identity"] \in Nat /\ errors'["identity"] >= errors["identity"]
      BY <3>1, ErrorsGrow DEF Types, TypeOK
    <3> QED
      BY <1>2, <3>2
  <2> QED
    BY <1>2, <2>1, NextKeepsIdentity DEF IdentityInv
<1> QED
  BY <1>1, <1>2 DEF IdentityInv

(* The identity a process runs with was generated as a whole, and the file *)
(* holds all of it or nothing (main.rs:71-95): for one instance, through   *)
(* kills at every step, any number of restarts, and any number of failed   *)
(* reads and writes of everything but the identity itself.                 *)
THEOREM IdentityIsWhole ==
    ASSUME OneInstance
    PROVE  Spec => []IdentityCoherent
<1>1. IdentityInv => IdentityCoherent
  BY DEF IdentityInv, Identities, IdentityCoherent, Running, RunsWith, Bare, Whole
<1>2. IdentityInv /\ [Next]_vars => IdentityInv'
  BY NextKeepsIdentityInv
<1> QED
  BY <1>1, <1>2, InitIdentity, PTL DEF Spec

-----------------------------------------------------------------------------
(* What one instance has stored, while no two stores have overlapped *)

(* A map that is whole and names the entitlement of its own device.        *)
LEMMA WholeIsBound ==
    ASSUME NEW m, NEW n \in Nat, Whole(m, n), m["entitlement"] \in {Absent, n}
    PROVE  Bound(m)
BY CredentialsAssumption DEF Bound, Whole

(* While the file keeps what it holds, only the token of a store can be    *)
(* lost, and only an entitlement or a mode can be read wrongly.            *)
LEMMA SparingStep ==
    ASSUME Types, Sound', errors' \in [Errors -> Nat]
    PROVE  /\ errors'["identity"] = 0
           /\ \A m : Reads(m, "identity") => m = Loaded /\ UNCHANGED errors
           /\ \A m : Reads(m, "other") /\ Perfect' => m = Loaded /\ Perfect
           /\ \A t \in Threads : \A m : Load(t, m) => m = Loaded /\ UNCHANGED errors
           /\ \A t \in Threads : ~WriteFails(t)
           /\ \A t \in Threads : OpenFails(t) =>
                 ~Perfect' /\ Head(jobs[t]).key \notin IdentityKeys
<1>1. errors'["identity"] = 0 /\ errors'["loss"] = 0
  BY DEF Sound, Errors
<1>2. \A kind \in {"identity", "loss"} : \A m : Reads(m, kind) => m = Loaded /\ UNCHANGED errors
  BY <1>1, ReadTyped DEF Errors
<1>3. ASSUME NEW m, Reads(m, "other"), Perfect'
      PROVE  m = Loaded /\ Perfect
  BY <1>3, ReadTyped DEF Errors, Perfect, NoErrors
<1>4. ASSUME NEW t \in Threads
      PROVE  Hit(t, "loss") \in {"identity", "loss"}
  BY DEF Hit
<1>5. ASSUME NEW t \in Threads, WriteFails(t)
      PROVE  FALSE
  <2>1. Hit(t, "loss") \in Errors /\ Error(Hit(t, "loss"))
    BY <1>4, <1>5 DEF WriteFails, Errors
  <2>2. errors'[Hit(t, "loss")] > 0
    BY <2>1, OneMore
  <2> QED
    BY <1>1, <1>4, <2>2
<1>6. ASSUME NEW t \in Threads, OpenFails(t)
      PROVE  ~Perfect' /\ Head(jobs[t]).key \notin IdentityKeys
  <2>1. Hit(t, "other") \in Errors /\ Error(Hit(t, "other"))
    BY <1>6, HitIsError DEF OpenFails
  <2>2. errors' # NoErrors
    BY <2>1, OneMore
  <2>3. Perfect' <=> errors' = NoErrors
    BY DEF Perfect, NoErrors
  <2> QED
    BY <1>1, <1>6, <2>2, <2>3, SoundStep
<1>7. \A t \in Threads : \A m : Load(t, m) => m = Loaded /\ UNCHANGED errors
  BY <1>2, <1>4 DEF Load
<1> QED
  BY <1>1, <1>2, <1>3, <1>5, <1>6, <1>7

LEMMA SparingRead ==
    ASSUME Types, NEW p \in Procs, NEW m, StartUp(p, m), Sound'
    PROVE  /\ Start(p, m) \/ ReadPubkey(p, m) \/ ReadPrivateKey(p, m) => UNCHANGED errors
           /\ Perfect' => Perfect /\ m = Loaded
<1>1. PICK kind \in {"identity", "other"} : Reads(m, kind)
  BY DEF StartUp, Start, ReadPubkey, ReadPrivateKey, ReadEntitlement, ReadMode
<1>2. errors' \in [Errors -> Nat]
  BY <1>1, ReadTyped DEF Errors
<1>3. Start(p, m) \/ ReadPubkey(p, m) \/ ReadPrivateKey(p, m) => UNCHANGED errors
  BY <1>2, SparingStep DEF Start, ReadPubkey, ReadPrivateKey
<1>4. Perfect' => Perfect /\ m = Loaded
  <2>1. CASE kind = "identity"
    BY <1>1, <1>2, <2>1, SparingStep DEF Perfect, NoErrors
  <2>2. CASE kind = "other"
    BY <1>1, <1>2, <2>2, SparingStep
  <2> QED
    BY <2>1, <2>2
<1> QED
  BY <1>3, <1>4

LEMMA StartUpKeepsStores ==
    ASSUME OneInstance, Types, NEW p \in Procs, Identities(p), Stores(p),
           NEW m \in {Loaded, Blank}, StartUp(p, m), Sound'
    PROVE  Stores(p)'
<1> USE DEF StartUp
<1>0. /\ Start(p, m) \/ ReadPubkey(p, m) \/ ReadPrivateKey(p, m) => UNCHANGED errors
      /\ Perfect' => Perfect /\ m = Loaded
  BY SparingRead
<1>1. UNCHANGED <<file, jobs, pc, buffer>> /\ Loaded' = Loaded
  BY DEF Start, ReadPubkey, ReadPrivateKey, ReadEntitlement, ReadMode, Loaded
<1>2. phase[p] \notin {"storing", "running"}
  BY DEF Start, ReadPubkey, ReadPrivateKey, ReadEntitlement, ReadMode
<1>3. \A t \in Threads : pc[t] = "idle"
  <2>1. jobs[Main(p)] = <<>> /\ jobs[Net(p)] = <<>>
    BY <1>2 DEF Types, JobsFit, MainLists, NetLists
  <2> QED
    BY <2>1, TwoThreads, BothThreads DEF Types
<1>4. /\ OneStore(p)' /\ Bound(Loaded)'
      /\ \A t \in Threads : Storing(t)' => Bound(buffer[t])'
      /\ pc'[Main(p)] = "idle" /\ pc'[Net(p)] = "idle"
  BY <1>1, <1>3, TwoThreads, BothThreads DEF Stores, OneStore, Bound, Storing, Main, Net
<1>5. CASE Start(p, m) \/ ReadPubkey(p, m) \/ ReadPrivateKey(p, m)
  <2>1. phase'[p] \notin {"mode", "running"} /\ ent' = ent /\ ent[p] = Absent
    BY <1>2, <1>5 DEF Start, ReadPubkey, ReadPrivateKey, Stores, Types, TypeOK
  <2> QED
    BY <1>4, <2>1 DEF Stores
<1>6. CASE ReadEntitlement(p, m)
  <2>1. phase'[p] = "mode" /\ ent'[p] = m["entitlement"] /\ device' = device
    BY <1>6 DEF ReadEntitlement, Types, TypeOK
  <2>2. ent'[p] # Absent => ent'[p] = device[p].id
    BY <1>6, <2>1, BlankBare, KeysAre DEF ReadEntitlement, Identities, Stores, Bound, Whole
  <2> QED
    BY <1>0, <1>1, <1>4, <2>1, <2>2 DEF Stores
<1>7. CASE ReadMode(p, m)
  <2>1. /\ phase[p] = "mode" /\ phase'[p] = "running" /\ device' = device /\ ent' = ent
        /\ mode'[p] = ModeOf(m)
    BY <1>7 DEF ReadMode, Types, TypeOK
  <2>2. Holds(p, Loaded)'
    BY <1>0, <1>1, <1>7, <2>1 DEF Holds, ModeKept, ModeOf, Whole, Identities, Stores
  <2> QED
    BY <1>1, <1>4, <2>1, <2>2 DEF Stores, Storing
<1> QED
  BY <1>5, <1>6, <1>7

LEMMA CommandKeepsStores ==
    ASSUME OneInstance, Types, NEW p \in Procs, Identities(p), Stores(p),
           \/ Generate(p) \/ SaveByok(p) \/ ClearByok(p) \/ CacheEntitlement(p)
           \/ \E m \in Modes : SetMode(p, m)
    PROVE  Stores(p)'
<1>1. UNCHANGED <<file, buffer, ent, errors>> /\ Loaded' = Loaded /\ (Perfect' <=> Perfect)
  BY DEF Perfect, NoErrors, Generate, SaveByok, ClearByok, CacheEntitlement, SetMode, Enqueue, procVars, Loaded
<1>2. PICK t \in {Main(p), Net(p)} : \E list : Enqueue(t, list)
  BY DEF Generate, SaveByok, ClearByok, CacheEntitlement, SetMode, Main, Net
<1>3. PICK list : Enqueue(t, list)
  BY <1>2
<1>4. /\ pc[t] = "idle" /\ pc'[t] = "load" /\ jobs'[t] = list
      /\ \A u \in Threads \ {t} : pc'[u] = pc[u] /\ jobs'[u] = jobs[u]
  BY <1>3, TwoThreads, BothThreads DEF Enqueue, Types, TypeOK
<1>5. \A u \in Threads : (Storing(u)' <=> Storing(u)) /\ (pc'[u] = "write" <=> pc[u] = "write")
  BY <1>4 DEF Storing
<1>6. /\ OneStore(p)' /\ Bound(Loaded)'
      /\ \A u \in Threads : Storing(u)' => Bound(buffer[u])'
  <2>1. OneStore(p)'
    BY <1>1, <1>5, TwoThreads, BothThreads DEF Stores, OneStore, Main, Net
  <2> QED
    BY <1>1, <1>5, <2>1 DEF Stores, Bound
<1>7. CASE Generate(p)
  <2>1. phase'[p] = "storing" /\ ent[p] = Absent
    BY <1>7 DEF Generate, Stores, Types, TypeOK
  <2> QED
    BY <1>1, <1>6, <2>1 DEF Stores
<1>8. CASE ~Generate(p)
  <2>1. phase[p] = "running" /\ UNCHANGED <<phase, device>>
    BY <1>8 DEF SaveByok, ClearByok, CacheEntitlement, SetMode, procVars
  <2>2. \A m : ModeKept(p, m) => ModeKept(p, m)'
    <3>1. CASE \E m \in Modes : SetMode(p, m)
      <4>1. PICK m \in Modes : SetMode(p, m)
        BY <3>1
      <4>2. mode'[p] = m /\ jobs'[Main(p)] = ModeStore(m)
        BY <4>1, TwoThreads, BothThreads DEF SetMode, Enqueue, Main, ModeStore, Types, TypeOK
      <4> QED
        BY <4>2 DEF ModeKept, Main
    <3>2. CASE SaveByok(p) \/ ClearByok(p)
      <4>1. mode' = mode /\ pc[Main(p)] = "idle"
        BY <3>2 DEF SaveByok, ClearByok, Enqueue, procVars, Main
      <4>2. jobs[Main(p)] # ModeStore(mode[p])
        BY <4>1, TwoThreads, BothThreads, SomeStore DEF Types
      <4> QED
        BY <4>1, <4>2 DEF ModeKept, ModeOf
    <3>3. CASE CacheEntitlement(p)
      <4>1. mode' = mode /\ jobs'[Main(p)] = jobs[Main(p)]
        BY <3>3, TwoThreads, BothThreads DEF CacheEntitlement, Enqueue, procVars, Net, Types
      <4> QED
        BY <4>1 DEF ModeKept, ModeOf, Main
    <3> QED
      BY <1>8, <3>1, <3>2, <3>3
  <2>3. Perfect /\ Storing(Main(p))' => ModeOf(buffer[Main(p)]) = mode'[p]
    <3>1. CASE \E m \in Modes : SetMode(p, m)
      <4>1. pc[Main(p)] = "idle"
        BY <3>1 DEF SetMode, Enqueue, Main
      <4> QED
        BY <1>5, <4>1, TwoThreads, BothThreads DEF Storing, Main
    <3>2. CASE SaveByok(p) \/ ClearByok(p) \/ CacheEntitlement(p)
      <4>1. mode' = mode
        BY <3>2 DEF SaveByok, ClearByok, CacheEntitlement, procVars
      <4>2. Storing(Main(p))' => Storing(Main(p))
        BY <1>5, TwoThreads, BothThreads DEF Main
      <4> QED
        BY <1>1, <2>1, <4>1, <4>2 DEF Stores, MainBuffer
    <3> QED
      BY <1>8, <3>1, <3>2
  <2>4. /\ pc'[Main(p)] # "write" /\ pc'[Net(p)] # "write" => Holds(p, Loaded)'
        /\ Storing(Main(p))' => MainBuffer(p, buffer[Main(p)])'
        /\ Storing(Net(p))' => NetBuffer(p, buffer[Net(p)])'
    <3>1. /\ pc'[Main(p)] # "write" => pc[Main(p)] # "write"
          /\ pc'[Net(p)] # "write" => pc[Net(p)] # "write"
          /\ Storing(Main(p))' => Storing(Main(p))
          /\ Storing(Net(p))' => Storing(Net(p))
      BY <1>5, TwoThreads, BothThreads DEF Main, Net
    <3>2. pc'[Main(p)] # "write" /\ pc'[Net(p)] # "write" => Holds(p, Loaded)'
      BY <1>1, <2>1, <2>2, <3>1 DEF Stores, Holds, Whole, ModeKept, ModeOf
    <3>3. Storing(Main(p))' => MainBuffer(p, buffer[Main(p)])'
      BY <1>1, <2>1, <2>3, <3>1 DEF Stores, MainBuffer, Whole, ModeOf, Main
    <3>4. Storing(Net(p))' => NetBuffer(p, buffer[Net(p)])'
      BY <1>1, <2>1, <2>2, <3>1 DEF Stores, NetBuffer, Whole, ModeKept, ModeOf, Net
    <3> QED
      BY <3>2, <3>3, <3>4
  <2> QED
    BY <1>1, <1>6, <2>1, <2>4 DEF Stores, Main, Net
<1> QED
  BY <1>7, <1>8

(* A load that overlaps no store finds what the process has in memory.     *)
LEMMA LoadKeepsStores ==
    ASSUME OneInstance, Types, NEW p \in Procs, Identities(p), Stores(p),
           NEW t \in Threads, Load(t, Loaded), UNCHANGED errors, ~overlapped'
    PROVE  Stores(p)'
<1> DEFINE j == Head(jobs[t])
           e == Edited(Loaded, j)
           n == device[p].id
<1>1. /\ pc[t] = "load" /\ UNCHANGED <<file, procVars, jobs>> /\ Loaded' = Loaded
      /\ \A u \in Threads \ {t} : ~Storing(u)
  BY DEF Load, Loaded
<1>2. /\ buffer'[t] = e /\ pc'[t] = "truncate"
      /\ \A u \in Threads \ {t} : buffer'[u] = buffer[u] /\ pc'[u] = pc[u] /\ ~Storing(u)'
  BY <1>1 DEF Load, Types, TypeOK, Storing
<1>3. /\ e[j.key] = j.value
      /\ \A l \in Keys : l # j.key => e[l] = Loaded[l]
  BY <1>1, EditedHead, LoadedIsMap DEF Types
<1> HIDE DEF j, e
<1>0. Perfect' <=> Perfect
  BY DEF Perfect, NoErrors
<1>4. OneStore(p)'
  BY <1>1, <1>2, TwoThreads, BothThreads DEF OneStore, Storing, Main, Net
<1>5. \A u \in Threads : u # t => ~Storing(u)'
  BY <1>2
<1>6. n \in Nat /\ phase[p] \in {"storing", "running"}
  BY <1>1, Heads
<1>7. CASE phase[p] = "storing"
  <2>1. t = Main(p) /\ Loaded["private_key"] = Absent
    BY <1>1, <1>7, Heads DEF Identities, StartUpStores, Lacks
  <2>2. j.key # "entitlement"
    BY <1>1, <1>7, Heads, Rests, JobParts DEF j
  <2>3. Bound(e)
    BY <1>3, <2>1, <2>2, KeysAre DEF Stores, Bound
  <2> QED
    BY <1>1, <1>2, <1>4, <1>5, <1>7, <2>3 DEF Stores, Bound, procVars
<1>8. CASE phase[p] = "running"
  <2>1. Holds(p, Loaded) /\ ent[p] \in {Absent, n}
    BY <1>1, <1>8, TwoThreads, BothThreads DEF Stores, Storing
  <2>2. j.key \notin {"device_id", "device_pubkey", "private_key"}
    BY <1>1, <1>8, Heads DEF j
  <2>3. Whole(e, n)
    BY <1>3, <2>1, <2>2, KeysAre DEF Holds, Whole
  <2>4. CASE t = Main(p)
    <3>1. jobs[t] \in {ModeStore(mode[p]), KeyStore, Clearing, ClearingEnds}
      BY <1>1, <1>8, <2>4, Heads
    <3>2. j.key # "entitlement"
      BY <3>1, Rests, JobParts DEF j
    <3>3. Perfect => ModeOf(e) = mode[p]
      <4>1. CASE jobs[t] = ModeStore(mode[p])
        <5>1. j.key = "ai_mode" /\ j.value = mode[p]
          BY <4>1, Rests, JobParts DEF j
        <5>2. mode[p] \in Modes /\ mode[p] # Absent
          BY CredentialsAssumption DEF Types, TypeOK
        <5> QED
          BY <1>3, <5>1, <5>2 DEF ModeOf
      <4>2. CASE Perfect /\ jobs[t] # ModeStore(mode[p])
        <5>1. j.key # "ai_mode"
          BY <3>1, <4>2, Rests, JobParts DEF j
        <5> QED
          BY <1>3, <2>1, <2>4, <4>2, <5>1, KeysAre DEF Holds, ModeKept, ModeOf
      <4> QED
        BY <4>1, <4>2
    <3>4. MainBuffer(p, e)
      BY <1>3, <2>1, <2>3, <3>2, <3>3, KeysAre DEF MainBuffer, Holds
    <3>5. Bound(e)
      <4>1. e["entitlement"] = Loaded["entitlement"] /\ Whole(Loaded, n) /\ Bound(Loaded)
        BY <1>3, <2>1, <3>2, KeysAre DEF Stores, Holds
      <4> QED
        BY <1>6, <2>3, <4>1, CredentialsAssumption DEF Bound, Whole
    <3>6. MainBuffer(p, buffer[Main(p)])' /\ ~Storing(Net(p))'
      <4>1. MainBuffer(p, e) => MainBuffer(p, buffer[Main(p)])'
        BY <1>0, <1>1, <1>2, <2>4 DEF MainBuffer, Whole, ModeOf, procVars, Main
      <4> QED
        BY <1>5, <2>4, <3>4, <4>1, BothThreads DEF Main, Net
    <3>7. Holds(p, Loaded)'
      BY <1>0, <1>1, <2>1 DEF Holds, Whole, ModeKept, ModeOf, procVars, Main
    <3> QED
      BY <1>1, <1>2, <1>4, <1>5, <1>8, <3>5, <3>6, <3>7 DEF Stores, Bound, procVars, Main, Net
  <2>5. CASE t = Net(p)
    <3>1. j.key = "entitlement" /\ j.value = n
      BY <1>1, <1>8, <2>5, Heads, Rests, JobParts DEF j
    <3>2. NetBuffer(p, e)
      BY <1>3, <2>1, <2>3, <3>1, KeysAre DEF NetBuffer, Holds, ModeKept, ModeOf
    <3>3. Bound(e)
      BY <1>6, <2>3, <3>2, WholeIsBound DEF NetBuffer
    <3>4. NetBuffer(p, buffer[Net(p)])' /\ ~Storing(Main(p))'
      <4>1. NetBuffer(p, e) => NetBuffer(p, buffer[Net(p)])'
        BY <1>0, <1>1, <1>2, <2>5 DEF NetBuffer, Whole, ModeKept, ModeOf, procVars, Net, Main
      <4> QED
        BY <1>5, <2>5, <3>2, <4>1, BothThreads DEF Main, Net
    <3>5. Holds(p, Loaded)'
      BY <1>0, <1>1, <2>1 DEF Holds, Whole, ModeKept, ModeOf, procVars, Main
    <3> QED
      BY <1>1, <1>2, <1>4, <1>5, <1>8, <3>3, <3>4, <3>5 DEF Stores, Bound, procVars, Main, Net
  <2> QED
    BY <2>4, <2>5, TwoThreads
<1> QED
  BY <1>6, <1>7, <1>8

LEMMA TruncateKeepsStores ==
    ASSUME OneInstance, Types, NEW p \in Procs, Identities(p), Stores(p),
           NEW t \in Threads, Truncate(t)
    PROVE  Stores(p)'
<1>0. Perfect' <=> Perfect
  BY DEF Truncate, Perfect, NoErrors
<1>1. /\ pc[t] = "truncate" /\ UNCHANGED <<procVars, jobs, buffer>>
      /\ Loaded' = Blank /\ file' = Empty
      /\ phase[p] \in {"storing", "running"}
  BY AfterTruncate, Heads DEF Truncate
<1>2. /\ pc'[t] = "write"
      /\ \A u \in Threads : (Storing(u)' <=> Storing(u))
  BY DEF Truncate, Storing, Types, TypeOK
<1>3. /\ Storing(Main(p))' <=> Storing(Main(p))
      /\ Storing(Net(p))' <=> Storing(Net(p))
  BY <1>2, BothThreads DEF Main, Net
<1>4. OneStore(p)'
  BY <1>1, <1>3 DEF Stores, OneStore
<1>5. /\ Bound(Loaded)'
      /\ \A u \in Threads : Storing(u)' => Bound(buffer[u])'
  BY <1>1, <1>2, BlankBare DEF Stores, Bound
<1>6. pc'[Main(p)] = "write" \/ pc'[Net(p)] = "write"
  BY <1>2, TwoThreads
<1>7. /\ phase[p] = "running" /\ Storing(Main(p))' => MainBuffer(p, buffer[Main(p)])'
      /\ phase[p] = "running" /\ Storing(Net(p))' => NetBuffer(p, buffer[Net(p)])'
  BY <1>0, <1>1, <1>3 DEF Stores, MainBuffer, NetBuffer, Whole, ModeKept, ModeOf, procVars, Main, Net
<1> QED
  BY <1>1, <1>4, <1>5, <1>6, <1>7 DEF Stores, procVars, Main, Net

(* A write that overlaps no store leaves in the file what the process has. *)
LEMMA WriteKeepsStores ==
    ASSUME OneInstance, Types, NEW p \in Procs, Identities(p), Stores(p),
           NEW t \in Threads, Write(t)
    PROVE  Stores(p)'
<1> DEFINE n == device[p].id
           j == Head(jobs[t])
<1>0. Perfect' <=> Perfect
  BY DEF Write, Perfect, NoErrors
<1>1. /\ pc[t] = "write" /\ Storing(t)
      /\ UNCHANGED <<devices, device, mode>>
      /\ phase[p] \in {"storing", "running"} /\ n \in Nat /\ n # Absent
      /\ t[1] = p
  BY Heads, TwoThreads, CredentialsAssumption DEF Write, Return, Stored, Storing
<1>2. /\ pc'[t] \in {"idle", "load"}
      /\ \A u \in Threads \ {t} : /\ pc'[u] = pc[u] /\ buffer'[u] = buffer[u]
                                  /\ jobs'[u] = jobs[u]
      /\ ~Storing(t)'
  BY DEF Write, Return, Types, TypeOK, Storing
<1>3. file = Empty /\ Loaded' = buffer[t]
  BY <1>1, TwoThreads, BothThreads, AfterWrite DEF Stores, OneStore
<1>4. \A u \in Threads : ~Storing(u)' /\ pc'[u] # "write"
  <2>1. \A u \in Threads \ {t} : ~Storing(u)
    BY <1>1, TwoThreads, BothThreads DEF Stores, OneStore
  <2> QED
    BY <1>2, <2>1 DEF Storing
<1>5. /\ ~Storing(Main(p))' /\ ~Storing(Net(p))'
      /\ pc'[Main(p)] # "write" /\ pc'[Net(p)] # "write"
  BY <1>4, BothThreads DEF Main, Net
<1>6. OneStore(p)' /\ Bound(Loaded)' /\ \A u \in Threads : Storing(u)' => Bound(buffer[u])'
  <2>1. Bound(Loaded')
    BY <1>1, <1>3 DEF Stores
  <2> QED
    BY <1>4, <1>5, <2>1 DEF OneStore, Bound
<1>7. CASE phase[p] = "storing"
  <2>1. j.key # "entitlement"
    BY <1>1, <1>7, Heads, Rests, JobParts
  <2>2. phase'[p] \in {"storing", "entitlement"} /\ ent' = ent /\ ent[p] = Absent
    BY <1>1, <1>7, <2>1 DEF Write, Return, Stored, Types, TypeOK, Stores
  <2> QED
    BY <1>6, <2>2 DEF Stores
<1>8. CASE phase[p] = "running"
  <2>1. phase' = phase
    BY <1>1, <1>8, Heads DEF Write, Return, Stored
  <2>2. CASE t = Main(p)
    <3>1. j.key # "entitlement"
      BY <1>1, <1>8, <2>2, Heads, Rests, JobParts
    <3>2. ent' = ent /\ MainBuffer(p, buffer[t])
      BY <1>1, <1>8, <2>2, <3>1 DEF Write, Return, Stored, Stores
    <3>3. Holds(p, Loaded)'
      <4>1. /\ Whole(Loaded', n)
            /\ Perfect => Loaded'["entitlement"] = ent'[p] /\ ModeOf(Loaded') = mode'[p]
        BY <1>1, <1>3, <3>2 DEF MainBuffer
      <4> QED
        BY <1>0, <1>1, <4>1 DEF Holds, Whole, ModeKept, ModeOf
    <3> QED
      BY <1>1, <1>5, <1>6, <1>8, <2>1, <3>2, <3>3 DEF Stores
  <2>3. CASE t = Net(p)
    <3>1. j.key = "entitlement" /\ j.value = n
      BY <1>1, <1>8, <2>3, Heads, Rests, JobParts
    <3>2. ent'[p] = n /\ NetBuffer(p, buffer[t])
      BY <1>1, <1>8, <2>3, <3>1 DEF Write, Return, Stored, Stores, Types, TypeOK
    <3>3. jobs'[Main(p)] = jobs[Main(p)]
      BY <1>2, <2>3, BothThreads
    <3>4. Holds(p, Loaded)'
      <4>1. Whole(Loaded', n) /\ Loaded'["entitlement"] = ent'[p]
        BY <1>1, <1>3, <3>2 DEF NetBuffer
      <4>2. Perfect => ModeOf(Loaded') = mode'[p] \/ jobs'[Main(p)] = ModeStore(mode'[p])
        BY <1>1, <1>3, <3>2, <3>3 DEF NetBuffer, ModeKept
      <4> QED
        BY <1>0, <1>1, <4>1, <4>2 DEF Holds, Whole, ModeKept, ModeOf, Main, ModeStore
    <3> QED
      BY <1>1, <1>5, <1>6, <1>8, <2>1, <3>2, <3>4 DEF Stores
  <2> QED
    BY <2>2, <2>3, TwoThreads
<1> QED
  BY <1>1, <1>7, <1>8

(* A store that cannot open the file loses its token, and nothing else.    *)
LEMMA OpenFailureKeepsStores ==
    ASSUME OneInstance, Types, NEW p \in Procs, Identities(p), Stores(p),
           NEW t \in Threads, OpenFails(t), ~Perfect',
           Head(jobs[t]).key \notin IdentityKeys
    PROVE  Stores(p)'
<1> DEFINE n == device[p].id
<1>1. /\ pc[t] = "truncate" /\ Storing(t) /\ Return(t)
      /\ UNCHANGED <<file, devices, device, mode>> /\ Loaded' = Loaded
      /\ n \in Nat /\ n # Absent
  <2>1. pc[t] = "truncate" /\ Storing(t) /\ Return(t) /\ UNCHANGED <<file, devices, device, mode>>
    BY DEF OpenFails, Return, Stored, Storing
  <2> QED
    BY <2>1, Heads, CredentialsAssumption DEF Loaded
<1>2. phase[p] = "running" /\ phase' = phase
  <2>1. phase[p] # "storing"
    BY <1>1, Heads, Rests, JobParts DEF IdentityKeys
  <2> QED
    BY <1>1, <2>1, Heads DEF Return, Stored, IdentityKeys
<1>3. \A u \in Threads : ~Storing(u)' /\ pc'[u] # "write" /\ pc[u] # "write"
  <2>1. \A u \in Threads \ {t} : ~Storing(u)
    BY <1>1, TwoThreads, BothThreads DEF Stores, OneStore
  <2> QED
    BY <1>1, <2>1 DEF Return, Storing, Types, TypeOK
<1>4. /\ ~Storing(Main(p))' /\ ~Storing(Net(p))'
      /\ pc[Main(p)] # "write" /\ pc[Net(p)] # "write"
      /\ pc'[Main(p)] # "write" /\ pc'[Net(p)] # "write"
  BY <1>3, BothThreads DEF Main, Net
<1>5. OneStore(p)' /\ Bound(Loaded)' /\ \A u \in Threads : Storing(u)' => Bound(buffer[u])'
  BY <1>1, <1>3, <1>4 DEF OneStore, Bound, Stores
<1>6. ent'[p] # Absent => ent'[p] = device'[p].id
  <2>1. CASE t = Main(p)
    <3>1. Head(jobs[t]).key # "entitlement"
      BY <1>1, <1>2, <2>1, Heads, Rests, JobParts
    <3> QED
      BY <1>1, <3>1 DEF Return, Stored, Stores
  <2>2. CASE t = Net(p)
    <3>1. Head(jobs[t]).key = "entitlement" /\ Head(jobs[t]).value = n /\ t[1] = p
      BY <1>1, <1>2, <2>2, Heads, Rests, JobParts, TwoThreads
    <3> QED
      BY <1>1, <3>1 DEF Return, Stored, Types, TypeOK
  <2> QED
    BY <2>1, <2>2, TwoThreads
<1>7. Holds(p, Loaded)'
  BY <1>1, <1>2, <1>4 DEF Stores, Holds, Whole
<1> QED
  BY <1>2, <1>4, <1>5, <1>6, <1>7 DEF Stores

LEMMA KillKeepsStores ==
    ASSUME OneInstance, Types, NEW p \in Procs, Stores(p), Kill(p)
    PROVE  Stores(p)'
<1>1. phase'[p] = "off" /\ ent'[p] = Absent /\ Loaded' = Loaded
  BY DEF Kill, Types, TypeOK, Loaded
<1>2. \A t \in Threads : pc'[t] = "idle"
  BY TwoThreads DEF Kill
<1>3. /\ \A t \in Threads : ~Storing(t)'
      /\ OneStore(p)'
  BY <1>2, BothThreads DEF OneStore, Storing, Main, Net
<1> QED
  BY <1>1, <1>3 DEF Stores, Bound

LEMMA NextKeepsStores ==
    ASSUME OneInstance, Types, NEW p \in Procs, Identities(p), Stores(p),
           [Next]_vars, ~overlapped', Sound'
    PROVE  Stores(p)'
<1>1. CASE UNCHANGED vars
  BY <1>1 DEF vars, procVars, Stores, OneStore, Bound, Storing, Holds, MainBuffer, Perfect,
     NetBuffer, Whole, ModeKept, ModeOf, Loaded, Main, Net, ModeStore, NoErrors
<1>2. ASSUME Next
      PROVE  Stores(p)'
  <2>1. \A q \in Procs : q = p
    BY DEF OneInstance
  <2>2. errors' \in [Errors -> Nat]
    BY ErrorsGrow
  <2>3. ASSUME NEW t \in Threads, NEW m \in {Loaded, Blank}, Load(t, m)
        PROVE  Stores(p)'
    <3>1. m = Loaded /\ UNCHANGED errors
      BY <2>2, <2>3, SparingStep
    <3> QED
      BY <2>3, <3>1, LoadKeepsStores
  <2>4. ASSUME NEW t \in Threads, OpenFails(t) \/ WriteFails(t)
        PROVE  Stores(p)'
    BY <2>2, <2>4, SparingStep, OpenFailureKeepsStores
  <2>5. ASSUME NEW t \in Threads, Truncate(t) \/ Write(t)
        PROVE  Stores(p)'
    BY <2>5, TruncateKeepsStores, WriteKeepsStores
  <2> QED
    BY <1>2, <2>1, <2>3, <2>4, <2>5,
       StartUpKeepsStores, CommandKeepsStores, KillKeepsStores DEF Next, StartUp
<1> QED
  BY <1>1, <1>2

(* Nor is an overlap forgotten. *)
LEMMA OverlapStays ==
    ASSUME [Next]_vars, overlapped
    PROVE  overlapped'
<1>1. ASSUME NEW t \in Threads,
             (\E m : Load(t, m)) \/ Truncate(t) \/ OpenFails(t) \/ Write(t) \/ WriteFails(t)
      PROVE  overlapped'
  BY <1>1 DEF Load, Truncate, OpenFails, Write, WriteFails, Return
<1>2. ASSUME NEW q \in Procs, (\E m : StartUp(q, m)) \/ Kill(q)
      PROVE  overlapped'
  BY <1>2 DEF StartUp, Start, ReadPubkey, ReadPrivateKey, ReadEntitlement, ReadMode, Kill
<1>3. ASSUME NEW q \in Procs,
             \/ Generate(q) \/ SaveByok(q) \/ ClearByok(q) \/ CacheEntitlement(q)
             \/ \E m \in Modes : SetMode(q, m)
      PROVE  overlapped'
  BY <1>3 DEF Generate, SaveByok, ClearByok, CacheEntitlement, SetMode, Enqueue
<1>4. CASE UNCHANGED vars
  BY <1>4 DEF vars
<1> QED
  BY <1>1, <1>2, <1>3, <1>4 DEF Next, StartUp

LEMMA InitStores == Init => CredentialsInv
<1>1. Init => Loaded = Blank
  BY DEF Init, Loaded
<1>2. ASSUME Init, NEW p \in Procs
      PROVE  Stores(p)
  BY <1>1, <1>2, BlankBare, BothThreads DEF Init, Stores, OneStore, Storing
<1> QED
  BY <1>2, InitIdentity DEF IdentityInv, CredentialsInv

LEMMA NextKeepsCredentials ==
    ASSUME OneInstance, CredentialsInv, [Next]_vars
    PROVE  CredentialsInv'
<1>1. IdentityInv'
  BY NextKeepsIdentityInv DEF CredentialsInv, IdentityInv
<1>2. ASSUME ~overlapped', Sound'
      PROVE  \A p \in Procs : Stores(p)'
  <2>1. Types /\ "identity" \in Errors /\ "loss" \in Errors
    BY DEF CredentialsInv, Errors
  <2>2. /\ errors["identity"] \in Nat /\ errors'["identity"] >= errors["identity"]
        /\ errors["loss"] \in Nat /\ errors'["loss"] >= errors["loss"]
    BY <2>1, ErrorsGrow DEF Types, TypeOK
  <2>3. Sound /\ errors["identity"] = 0 /\ ~overlapped
    <3>1. errors'["identity"] \in Nat /\ errors'["loss"] \in Nat
      BY <2>1, ErrorsGrow
    <3>2. errors'["identity"] + errors'["loss"] = 0
      BY <1>2 DEF Sound
    <3>3. errors["identity"] = 0 /\ errors["loss"] = 0
      BY <2>2, <3>1, <3>2
    <3> QED
      BY <1>2, <3>3, OverlapStays DEF Sound
  <2> QED
    BY <1>2, <2>1, <2>3, NextKeepsStores DEF CredentialsInv
<1> QED
  BY <1>1, <1>2 DEF CredentialsInv, IdentityInv

(* The entitlement in use names the device that uses it, as long as no two *)
(* stores have overlapped and no error has cost the file more than the     *)
(* token stored, although a cached entitlement is taken without comparing  *)
(* devices (license.rs:261-273).                                           *)
THEOREM EntitlementIsBound ==
    ASSUME OneInstance
    PROVE  Spec => []BoundEntitlement
<1>1. CredentialsInv => BoundEntitlement
  BY DEF CredentialsInv, BoundEntitlement, Stores, Sound
<1>2. CredentialsInv /\ [Next]_vars => CredentialsInv'
  BY NextKeepsCredentials
<1> QED
  BY <1>1, <1>2, InitStores, PTL DEF Spec

(* With no store in progress, and as long as no two have overlapped and no *)
(* read or write has failed, a restart finds what the process has in       *)
(* memory (secure_store.rs:101-120).                                       *)
THEOREM SerialStoresLast ==
    ASSUME OneInstance
    PROVE  Spec => []DurableWhenSerial
<1>1. CredentialsInv => DurableWhenSerial
  <2> SUFFICES ASSUME CredentialsInv, ~overlapped, errors = NoErrors, NEW p \in Procs, Resting(p)
               PROVE  RestartFindsAll(p)
    BY DEF DurableWhenSerial
  <2>0. Sound /\ Perfect /\ errors["identity"] = 0
    BY DEF Sound, Perfect, NoErrors, Errors
  <2>1. /\ Types /\ Identities(p) /\ Stores(p)
        /\ phase[p] = "running" /\ device[p].id \in Nat
    BY <2>0 DEF CredentialsInv, Types, JobsFit, HasIdentity, Resting, Running
  <2>2. pc[Main(p)] = "idle" /\ pc[Net(p)] = "idle"
    BY TwoThreads, BothThreads DEF Resting
  <2>3. jobs[Main(p)] # ModeStore(mode[p])
    BY <2>1, <2>2, BothThreads, SomeStore DEF Types
  <2>4. Whole(Loaded, device[p].id) /\ ent[p] = Loaded["entitlement"] /\ mode[p] = ModeOf(Loaded)
    BY <2>0, <2>1, <2>2, <2>3 DEF Stores, Holds, ModeKept
  <2>5. device[p] = [id |-> Loaded["device_id"], pub |-> Loaded["device_pubkey"]]
    BY <2>1, <2>4 DEF Types, TypeOK, Identities, Whole
  <2> QED
    BY <2>1, <2>4, <2>5, CredentialsAssumption DEF RestartFindsAll, Whole
<1>2. CredentialsInv /\ [Next]_vars => CredentialsInv'
  BY NextKeepsCredentials
<1> QED
  BY <1>1, <1>2, InitStores, PTL DEF Spec

=============================================================================
