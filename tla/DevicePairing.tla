---------------------------- MODULE DevicePairing ----------------------------
(***************************************************************************)
(* Device pairing at a nakli-hub: a paired device obtains a token, a new   *)
(* device completes it.  handlePairComplete checks the row, enrolls the    *)
(* device as a principal, and only then marks the token; the UPDATE is     *)
(* guarded but nobody asks whether it changed a row.                       *)
(***************************************************************************)
EXTENDS Naturals, FiniteSets

CONSTANTS
    PairingTokens,
    Devices,          \* ULIDs of devices this hub can enroll
    Completions,      \* complete handlers
    Null,
    MaxRestarts

ASSUME DeviceAssumption == Null \notin Devices /\ MaxRestarts \in Nat

VARIABLES
    token,        \* [PairingTokens -> row of pairing_tokens]
    lapsed,       \* tokens whose expires_at has passed
    principals,   \* devices with a row in principals
    issued,       \* device ids handed out
    run,          \* [Completions -> local state]
    enrolled,     \* success answers: [token, device]
    restarts,
    raced         \* history: tokens two handlers were about to update at once

deviceVars == <<token, lapsed, principals, issued, run, enrolled, restarts, raced>>

Nullable(S) == S \cup {Null}

\* A row of pairing_tokens, and what a handler keeps in its variables.
TokenRow == [exists : BOOLEAN, by : Nullable(Devices)]
Run == [pc : {"idle", "enroll", "check", "update", "answer"},
        token : Nullable(PairingTokens), device : Nullable(Devices)]

DeviceTypeOK ==
    /\ token \in [PairingTokens -> TokenRow]
    /\ lapsed \subseteq PairingTokens
    /\ principals \subseteq Devices
    /\ issued \subseteq Devices
    /\ run \in [Completions -> Run]
    /\ enrolled \subseteq [token : PairingTokens, device : Devices]
    /\ restarts \in Nat
    /\ raced \subseteq PairingTokens

NotRunning == [pc |-> "idle", token |-> Null, device |-> Null]

DeviceInit ==
    /\ token = [t \in PairingTokens |-> [exists |-> FALSE, by |-> Null]]
    /\ lapsed = {}
    /\ principals = {}
    /\ issued = {}
    /\ run = [r \in Completions |-> NotRunning]
    /\ enrolled = {}
    /\ restarts = 0
    /\ raced = {}

\* The lookup finds a row; who completed it is its column by.
LookupPairingToken(t) == token[t].exists

Usable(t) == LookupPairingToken(t) /\ t \notin lapsed /\ token[t].by = Null

\* The INSERT of a token nobody has completed.
CreatePairingToken(t) == token' = [token EXCEPT ![t].exists = TRUE]

Proceed(r, label) == run' = [run EXCEPT ![r].pc = label]
Stop(r)           == run' = [run EXCEPT ![r] = NotRunning]

\* The token is a fresh ULID.
handlePairInitiate(t) ==
    /\ ~LookupPairingToken(t)
    /\ CreatePairingToken(t)
    /\ UNCHANGED <<lapsed, principals, issued, run, enrolled, restarts, raced>>

Lapse(t) ==
    /\ token[t].exists
    /\ t \notin lapsed
    /\ lapsed' = lapsed \cup {t}
    /\ UNCHANGED <<token, principals, issued, run, enrolled, restarts, raced>>

\* The handler's lookup: unknown, expired and used tokens are turned away.
handlePairComplete(r) ==
    /\ run[r].pc = "idle"
    /\ \E t \in PairingTokens, d \in Devices \ issued :
          /\ Usable(t)
          /\ issued' = issued \cup {d}
          /\ run' = [run EXCEPT ![r] = [pc |-> "enroll", token |-> t, device |-> d]]
    /\ UNCHANGED <<token, lapsed, principals, enrolled, restarts, raced>>

\* Mutant: the principal is not written.
UpsertNothing(r) ==
    /\ run[r].pc = "enroll"
    /\ Proceed(r, "check")
    /\ UNCHANGED <<token, lapsed, principals, issued, enrolled, restarts, raced>>

UpsertPrincipal(r) ==
    /\ run[r].pc = "enroll"
    /\ principals' = principals \cup {run[r].device}
    /\ Proceed(r, "check")
    /\ UNCHANGED <<token, lapsed, issued, enrolled, restarts, raced>>

\* Another handler is between the check of the token and its UPDATE.
Contended(r) ==
    \E q \in Completions \ {r} : run[q].pc = "update" /\ run[q].token = run[r].token

\* Mutant: a completed token passes.
CheckExpiryOnly(r) ==
    /\ run[r].pc = "check"
    /\ IF run[r].token \notin lapsed THEN Proceed(r, "update") ELSE Stop(r)
    /\ raced' = IF Contended(r) THEN raced \cup {run[r].token} ELSE raced
    /\ UNCHANGED <<token, lapsed, principals, issued, enrolled, restarts>>

\* CompletePairing looks the token up again; a fresh device id never matches
\* the one stored, so a used token is an error (500).
CheckToken(r) ==
    /\ run[r].pc = "check"
    /\ IF Usable(run[r].token) THEN Proceed(r, "update") ELSE Stop(r)
    /\ raced' = IF Contended(r) THEN raced \cup {run[r].token} ELSE raced
    /\ UNCHANGED <<token, lapsed, principals, issued, enrolled, restarts>>

\* UPDATE ... WHERE completed_at IS NULL, rows affected not looked at.
CompletePairing(r) ==
    LET t == run[r].token IN
    /\ run[r].pc = "update"
    /\ token' = IF token[t].by = Null
                THEN [token EXCEPT ![t].by = run[r].device] ELSE token
    /\ Proceed(r, "answer")
    /\ UNCHANGED <<lapsed, principals, issued, enrolled, restarts, raced>>

\* The enrollment grant is minted and sent.
AnswerComplete(r) ==
    /\ run[r].pc = "answer"
    /\ enrolled' = enrolled \cup {[token |-> run[r].token, device |-> run[r].device]}
    /\ Stop(r)
    /\ UNCHANGED <<token, lapsed, principals, issued, restarts, raced>>

\* A statement or the minting of the grant fails (500); rows already written
\* stay.
FailStatement(r) ==
    /\ run[r].pc \in {"enroll", "check", "update", "answer"}
    /\ Stop(r)
    /\ UNCHANGED <<token, lapsed, principals, issued, enrolled, restarts, raced>>

Restart ==
    /\ restarts < MaxRestarts
    /\ \E r \in Completions : run[r].pc # "idle"
    /\ run' = [r \in Completions |-> NotRunning]
    /\ restarts' = restarts + 1
    /\ UNCHANGED <<token, lapsed, principals, issued, enrolled, raced>>

DeviceNext ==
    \/ \E t \in PairingTokens : handlePairInitiate(t) \/ Lapse(t)
    \/ \E r \in Completions :
          \/ handlePairComplete(r)
          \/ UpsertPrincipal(r)
          \/ CheckToken(r)
          \/ CompletePairing(r)
          \/ AnswerComplete(r)
          \/ FailStatement(r)
    \/ Restart

DeviceSpec == DeviceInit /\ [][DeviceNext]_deviceVars

-----------------------------------------------------------------------------
(* What the handler keeps.                                                 *)

\* Whoever a token names, and whoever is told it is enrolled, is a principal:
\* the enrollment grant never names a device the hub does not know, whichever
\* step the handler stops at.
EnrolledAreKnown ==
    /\ \A t \in PairingTokens : token[t].by # Null => token[t].by \in principals
    /\ \A e \in enrolled : e.device \in principals

\* Two devices are enrolled with one token only when both handlers were
\* between CompletePairing's check and its UPDATE at the same time: retries,
\* crashes and handlers that overlap anywhere else are turned away.
SecondDeviceNeedsRace ==
    \A e, f \in enrolled :
        e.token = f.token /\ e.device # f.device => e.token \in raced

=============================================================================
