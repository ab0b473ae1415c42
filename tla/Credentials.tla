---------------------------- MODULE Credentials ----------------------------
(***************************************************************************)
(* The credentials file of broomed-core (secure_store.rs, file fallback:   *)
(* the shell builds it without the keyring feature) and what the shell     *)
(* keeps in it: the device identity, the cached entitlement, the AI mode   *)
(* and the user's own API key (main.rs, license.rs, device.rs).            *)
(*                                                                         *)
(* A store reads the whole file, changes one key and writes the whole file *)
(* back: the read, the truncation and the write are three steps, nothing   *)
(* locks the file, and each of them may fail: a file that cannot be read   *)
(* counts as an empty map, and the result of the write is dropped, so the  *)
(* process goes on as if its token were stored.  A process stores from two *)
(* threads: "main" runs the start-up and the synchronous commands, "net"   *)
(* the licence commands, which the licence mutex keeps one at a time.      *)
(***************************************************************************)
EXTENDS Naturals, Sequences

CONSTANTS
    Procs,      \* running instances of the application
    Modes,      \* AI mode settings
    Default,    \* the setting of a new installation
    Absent,     \* value of a key the file does not hold
    Empty,      \* contents of a truncated file
    Garbled,    \* contents that do not parse
    MaxDevices, \* bound on the identities ever generated
    MaxErrors   \* bound on the I/O errors that spare the identity

Keys == {"device_id", "device_pubkey", "private_key", "entitlement",
         "ai_mode", "byok_config_json", "byok_api_key"}

IdentityKeys == {"device_id", "device_pubkey", "private_key"}

\* What an I/O error has hit: a read or a store of the identity; a store of
\* something else that lost the rest of the file; or only the token itself.
Errors == {"identity", "loss", "other"}

NoErrors == [e \in Errors |-> 0]

Blank == [k \in Keys |-> Absent]

Threads == Procs \X {"main", "net"}

\* What the keys can hold: the number of the device (an entitlement names its
\* device), a setting, and an API key or the empty string that clears it.
Cleared == 0
ApiKey  == 1

Values(k) == IF k = "ai_mode" THEN Modes ELSE Nat

Tokens == {m \in [Keys -> {Absent} \cup Modes \cup Nat] :
              \A k \in Keys : m[k] \in {Absent} \cup Values(k)}

ASSUME CredentialsAssumption ==
    /\ Default \in Modes
    /\ Absent \notin Modes \cup Nat
    /\ Empty # Garbled /\ Empty \notin Tokens /\ Garbled \notin Tokens
    /\ MaxDevices \in Nat /\ MaxErrors \in Nat

Phases == {"off", "pubkey", "private", "generate", "storing",
           "entitlement", "mode", "running"}

VARIABLES
    file,       \* the contents of credentials.json
    devices,    \* number of identities generated so far
    phase,      \* how far each process is with its start-up
    device,     \* LicenseManager.device, as its id and public key
    ent,        \* LicenseManager.entitlement, as the device it names
    mode,       \* the AiModeConfig in memory
    jobs,       \* the stores each thread still has to do
    pc,         \* its step in the first of them
    buffer,     \* the map it is going to write
    overlapped, \* history: two stores have been in progress at once
    errors      \* history: how many I/O errors have hit what

procVars == <<devices, phase, device, ent, mode>>
vars == <<file, devices, phase, device, ent, mode, jobs, pc, buffer, overlapped,
          errors>>

TypeOK ==
    /\ file \in Tokens \cup {Empty, Garbled}
    /\ devices \in Nat
    /\ phase \in [Procs -> Phases]
    /\ device \in [Procs -> [id : Nat \cup {Absent}, pub : Nat \cup {Absent}]]
    /\ ent \in [Procs -> Nat \cup {Absent}]
    /\ mode \in [Procs -> Modes]
    /\ \A t \in Threads : \A i \in DOMAIN jobs[t] :
          jobs[t][i].key \in Keys /\ jobs[t][i].value \in Values(jobs[t][i].key)
    /\ pc \in [Threads -> {"idle", "load", "truncate", "write"}]
    /\ buffer \in [Threads -> Tokens]
    /\ overlapped \in BOOLEAN
    /\ errors \in [Errors -> Nat]

Off == [id |-> Absent, pub |-> Absent]

Init ==
    /\ file = Empty
    /\ devices = 0
    /\ phase = [p \in Procs |-> "off"]
    /\ device = [p \in Procs |-> Off]
    /\ ent = [p \in Procs |-> Absent]
    /\ mode = [p \in Procs |-> Default]
    /\ jobs = [t \in Threads |-> <<>>]
    /\ pc = [t \in Threads |-> "idle"]
    /\ buffer = [t \in Threads |-> Blank]
    /\ overlapped = FALSE
    /\ errors = NoErrors

-----------------------------------------------------------------------------
(* Reading and storing a token *)

(* Errors are followed up to one that hits the identity, of which nothing  *)
(* is claimed, and MaxErrors others.                                       *)
Error(kind) ==
    /\ errors["identity"] = 0
    /\ errors["loss"] + errors["other"] < MaxErrors
    /\ errors' = [errors EXCEPT ![kind] = @ + 1]

(* load_file_creds: a missing, empty or unparsable file is an empty map... *)
Loaded == IF file \in {Empty, Garbled} THEN Blank ELSE file

(* ... and so is one that cannot be read. *)
Reads(m, kind) ==
    \/ m = Loaded /\ UNCHANGED errors
    \/ m = Blank /\ Loaded # Blank /\ Error(kind)

Storing(t) == pc[t] \in {"truncate", "write"}

Job(k, v) == [key |-> k, value |-> v]

\* What an error in the first store of a thread has hit.
Hit(t, kind) == IF Head(jobs[t]).key \in IdentityKeys THEN "identity" ELSE kind

(* A thread sets out to store a list of tokens, one after the other.       *)
Enqueue(t, list) ==
    /\ pc[t] = "idle"
    /\ jobs' = [jobs EXCEPT ![t] = list]
    /\ pc' = [pc EXCEPT ![t] = "load"]
    /\ UNCHANGED <<file, buffer, overlapped, errors>>

\* Faulty: the new token replaces the map.
EditedAlone(m, job) == [Blank EXCEPT ![job.key] = job.value]

Edited(m, job) == [m EXCEPT ![job.key] = job.value]

(* load_file_creds and insert. *)
Load(t, m) ==
    /\ pc[t] = "load"
    /\ Reads(m, Hit(t, "loss"))
    /\ buffer' = [buffer EXCEPT ![t] = Edited(m, Head(jobs[t]))]
    /\ pc' = [pc EXCEPT ![t] = "truncate"]
    /\ overlapped' = (overlapped \/ \E u \in Threads \ {t} : Storing(u))
    /\ UNCHANGED <<file, procVars, jobs>>

(* std::fs::write opens the file and truncates it... *)
Truncate(t) ==
    /\ pc[t] = "truncate"
    /\ file' = Empty
    /\ pc' = [pc EXCEPT ![t] = "write"]
    /\ UNCHANGED <<procVars, jobs, buffer, overlapped, errors>>

(* The store of cache_entitlement comes before the assignment; the others  *)
(* change nothing else, save the one that ends the start-up's stores.      *)
Stored(p, job) ==
    /\ ent' = IF job.key = "entitlement" THEN [ent EXCEPT ![p] = job.value] ELSE ent
    /\ phase' = IF job.key = "private_key" THEN [phase EXCEPT ![p] = "entitlement"] ELSE phase
    /\ UNCHANGED <<devices, device, mode>>

(* store_token returns Ok, whatever became of the file. *)
Return(t) ==
    /\ jobs' = [jobs EXCEPT ![t] = Tail(@)]
    /\ pc' = [pc EXCEPT ![t] = IF Len(jobs[t]) = 1 THEN "idle" ELSE "load"]
    /\ buffer' = [buffer EXCEPT ![t] = Blank]
    /\ Stored(t[1], Head(jobs[t]))
    /\ UNCHANGED overlapped

(* ... and fills it from the start.  What another thread has written since *)
(* the truncation may be longer and show behind it.                        *)
Write(t) ==
    /\ pc[t] = "write"
    /\ file' \in {buffer[t]} \cup (IF file = Empty THEN {} ELSE {Garbled})
    /\ Return(t)
    /\ UNCHANGED errors

(* The file cannot be opened: it stays as it is. *)
OpenFails(t) ==
    /\ pc[t] = "truncate"
    /\ Error(Hit(t, "other"))
    /\ Return(t)
    /\ UNCHANGED file

(* The disk is full: nothing follows the truncation, or part of the map.   *)
WriteFails(t) ==
    /\ pc[t] = "write"
    /\ file' \in {file, Garbled}
    /\ Error(Hit(t, "loss"))
    /\ Return(t)

-----------------------------------------------------------------------------
(* Start-up: load_or_create_device, LicenseManager::new, init_ai_mode *)

(* device_id is read, then device_pubkey. *)
Start(p, m) ==
    /\ phase[p] = "off"
    /\ Reads(m, "identity")
    /\ phase' = [phase EXCEPT ![p] = "pubkey"]
    /\ device' = [device EXCEPT ![p].id = m["device_id"]]
    /\ UNCHANGED <<file, devices, ent, mode, jobs, pc, buffer, overlapped>>

ReadPubkey(p, m) ==
    /\ phase[p] = "pubkey"
    /\ Reads(m, "identity")
    /\ device' = [device EXCEPT ![p].pub = m["device_pubkey"]]
    /\ phase' = [phase EXCEPT ![p] =
          IF device[p].id # Absent /\ m["device_pubkey"] # Absent THEN "private" ELSE "generate"]
    /\ UNCHANGED <<file, devices, ent, mode, jobs, pc, buffer, overlapped>>

\* Faulty: an identity without its private key is taken; none is ever taken.
KeyFoundAlways(m) == TRUE
KeyFoundNever(m) == FALSE

(* load_private_key().is_some() *)
KeyFound(m) == m["private_key"] # Absent

ReadPrivateKey(p, m) ==
    /\ phase[p] = "private"
    /\ Reads(m, "identity")
    /\ phase' = [phase EXCEPT ![p] = IF KeyFound(m) THEN "entitlement" ELSE "generate"]
    /\ UNCHANGED <<file, devices, device, ent, mode, jobs, pc, buffer, overlapped>>

(* A new identity is stored in three stores, the private key last. *)
Generate(p) ==
    LET n == devices + 1 IN
    /\ phase[p] = "generate"
    /\ devices < MaxDevices
    /\ devices' = n
    /\ device' = [device EXCEPT ![p] = [id |-> n, pub |-> n]]
    /\ phase' = [phase EXCEPT ![p] = "storing"]
    /\ Enqueue(<<p, "main">>,
               <<Job("device_id", n), Job("device_pubkey", n), Job("private_key", n)>>)
    /\ UNCHANGED <<ent, mode>>

(* LicenseManager::new takes a cached entitlement whatever device it names *)
(* (activate and refresh leave its signature empty).                       *)
ReadEntitlement(p, m) ==
    /\ phase[p] = "entitlement"
    /\ Reads(m, "other")
    /\ ent' = [ent EXCEPT ![p] = m["entitlement"]]
    /\ phase' = [phase EXCEPT ![p] = "mode"]
    /\ UNCHANGED <<file, devices, device, mode, jobs, pc, buffer, overlapped>>

\* Faulty: no setting for a new installation.
ModeOfUnset(m) == m["ai_mode"]

ModeOf(m) == IF m["ai_mode"] = Absent THEN Default ELSE m["ai_mode"]

ReadMode(p, m) ==
    /\ phase[p] = "mode"
    /\ Reads(m, "other")
    /\ mode' = [mode EXCEPT ![p] = ModeOf(m)]
    /\ phase' = [phase EXCEPT ![p] = "running"]
    /\ UNCHANGED <<file, devices, device, ent, jobs, pc, buffer, overlapped>>

-----------------------------------------------------------------------------
(* Commands *)

(* set_ai_mode_cmd *)
SetMode(p, m) ==
    /\ phase[p] = "running"
    /\ Enqueue(<<p, "main">>, <<Job("ai_mode", m)>>)
    /\ mode' = [mode EXCEPT ![p] = m]
    /\ UNCHANGED <<devices, phase, device, ent>>

(* save_byok_config_cmd *)
SaveByok(p) ==
    /\ phase[p] = "running"
    /\ Enqueue(<<p, "main">>, <<Job("byok_config_json", ApiKey)>>)
    /\ UNCHANGED procVars

(* clear_byok_config_cmd stores empty strings. *)
ClearByok(p) ==
    /\ phase[p] = "running"
    /\ Enqueue(<<p, "main">>, <<Job("byok_config_json", Cleared), Job("byok_api_key", Cleared)>>)
    /\ UNCHANGED procVars

(* The server has granted or renewed a licence: cache_entitlement. *)
CacheEntitlement(p) ==
    /\ phase[p] = "running"
    /\ Enqueue(<<p, "net">>, <<Job("entitlement", device[p].id)>>)
    /\ UNCHANGED procVars

(* The process ends, at any step: quit, crash or power loss. *)
Kill(p) ==
    /\ phase[p] # "off"
    /\ phase' = [phase EXCEPT ![p] = "off"]
    /\ device' = [device EXCEPT ![p] = Off]
    /\ ent' = [ent EXCEPT ![p] = Absent]
    /\ mode' = [mode EXCEPT ![p] = Default]
    /\ jobs' = [t \in Threads |-> IF t[1] = p THEN <<>> ELSE jobs[t]]
    /\ pc' = [t \in Threads |-> IF t[1] = p THEN "idle" ELSE pc[t]]
    /\ buffer' = [t \in Threads |-> IF t[1] = p THEN Blank ELSE buffer[t]]
    /\ UNCHANGED <<file, devices, overlapped, errors>>

Next ==
    \/ \E t \in Threads :
          \/ \E m \in {Loaded, Blank} : Load(t, m)
          \/ Truncate(t) \/ OpenFails(t) \/ Write(t) \/ WriteFails(t)
    \/ \E p \in Procs :
          \/ \E m \in {Loaded, Blank} :
                \/ Start(p, m) \/ ReadPubkey(p, m) \/ ReadPrivateKey(p, m)
                \/ ReadEntitlement(p, m) \/ ReadMode(p, m)
          \/ Generate(p)
          \/ \E m \in Modes : SetMode(p, m)
          \/ SaveByok(p) \/ ClearByok(p)
          \/ CacheEntitlement(p)
          \/ Kill(p)

Spec == Init /\ [][Next]_vars

-----------------------------------------------------------------------------
(* Properties *)

Running(p) == phase[p] = "running"

(* The identity a process runs with is one that was generated as a whole,  *)
(* and the file holds all of it or nothing: through kills at any step of   *)
(* the three stores of load_or_create_device (main.rs:71-95), and through  *)
(* lost, torn, garbled and failed stores of everything else later, which   *)
(* rewrite the identity each time.  Unless the identity itself could not   *)
(* be read or stored: main.rs:91-93 ignore that.  For one instance.        *)
IdentityCoherent ==
    errors["identity"] = 0 =>
        \A p \in Procs : Running(p) =>
            /\ device[p].id = device[p].pub
            /\ <<Loaded["device_id"], Loaded["device_pubkey"], Loaded["private_key"]>>
                  \in {<<Absent, Absent, Absent>>,
                       <<device[p].id, device[p].id, device[p].id>>}

(* The entitlement in use names the device it was issued for, as long as   *)
(* no two stores have overlapped and no error has cost the file more than  *)
(* the token stored: new() takes a cached entitlement without comparing    *)
(* devices (license.rs:261-273), so it rests on the identity and the       *)
(* entitlement being lost together, also by a kill in mid-write.           *)
BoundEntitlement ==
    ~overlapped /\ errors["identity"] + errors["loss"] = 0 =>
        \A p \in Procs : Running(p) /\ ent[p] # Absent => ent[p] = device[p].id

(* A restart finds what the running process has in memory: its identity,   *)
(* its entitlement and the AI mode the user chose.                         *)
RestartFindsAll(p) ==
    /\ device[p] = [id |-> Loaded["device_id"], pub |-> Loaded["device_pubkey"]]
    /\ Loaded["private_key"] # Absent
    /\ ent[p] = Loaded["entitlement"]
    /\ mode[p] = ModeOf(Loaded)

Resting(p) == Running(p) /\ \A t \in Threads : t[1] = p => pc[t] = "idle"

(* ... whenever no store is in progress, provided no two stores have       *)
(* overlapped and none, and no read, has failed (secure_store.rs:101-120   *)
(* answers Ok all the same): for one instance, and through kills, since    *)
(* what a kill has torn is read back by the next start.                    *)
DurableWhenSerial ==
    ~overlapped /\ errors = NoErrors => \A p \in Procs : Resting(p) => RestartFindsAll(p)

(* "global lock for file fallback, per-process" (secure_store.rs:55): the  *)
(* threads of one process do not lose each other's stores, on a disk that  *)
(* fails nobody.  There is no lock: the AI mode or the key the user has    *)
(* just cleared comes back, or the whole file goes.                        *)
Durable ==
    errors = NoErrors => \A p \in Procs : Resting(p) => RestartFindsAll(p)

=============================================================================
