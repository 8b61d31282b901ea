------------------------------ MODULE HotReload ------------------------------
(***************************************************************************)
(* What hot-reload promises the requests, with no mutex, no authenticators *)
(* and no contexts: there is one configuration in force at any time; it    *)
(* only ever becomes the valid content read last; and a request is decided *)
(* by the one configuration that was in force when it asked.               *)
(***************************************************************************)
CONSTANTS Contents, Valid, Issuers, IssuersOf, Requests, Missing, Unread, Nil

VARIABLES latest,    \* the content read last
          serving,   \* the configuration in force, Nil before the first
          phase,     \* of a request: "idle", "asked", "taken"
          iss,       \* the issuer its token names
          snapshot,  \* the configuration it took
          decision   \* how it was decided, and by which configuration

vars == <<latest, serving, phase, iss, snapshot, decision>>

Init ==
    /\ latest = Unread
    /\ serving = Nil
    /\ phase = [r \in Requests |-> "idle"]
    /\ iss \in [Requests -> Issuers]
    /\ snapshot = [r \in Requests |-> Nil]
    /\ decision = [r \in Requests |-> Nil]

Read ==
    /\ latest' \in Contents \cup {Missing}
    /\ UNCHANGED <<serving, phase, iss, snapshot, decision>>

Serve ==
    /\ latest \in Valid
    /\ serving' = latest
    /\ UNCHANGED <<latest, phase, iss, snapshot, decision>>

Ask(r, i) ==
    /\ phase[r] = "idle"
    /\ phase' = [phase EXCEPT ![r] = "asked"]
    /\ iss' = [iss EXCEPT ![r] = i]
    /\ decision' = [decision EXCEPT ![r] = Nil]
    /\ UNCHANGED <<latest, serving, snapshot>>

Take(r) ==
    /\ phase[r] = "asked"
    /\ phase' = [phase EXCEPT ![r] = "taken"]
    /\ snapshot' = [snapshot EXCEPT ![r] = serving]
    /\ UNCHANGED <<latest, serving, iss, decision>>

(* Only a configuration that lists the token's issuer can accept it.       *)
MayAccept(r) == snapshot[r] # Nil /\ iss[r] \in IssuersOf[snapshot[r]]

Decide(r, accepted) ==
    /\ phase[r] = "taken"
    /\ accepted => MayAccept(r)
    /\ phase' = [phase EXCEPT ![r] = "idle"]
    /\ decision' = [decision EXCEPT ![r] = [accepted |-> accepted, by |-> snapshot[r]]]
    /\ snapshot' = [snapshot EXCEPT ![r] = Nil]
    /\ UNCHANGED <<latest, serving, iss>>

Next ==
    \/ Read
    \/ Serve
    \/ \E r \in Requests, i \in Issuers : Ask(r, i)
    \/ \E r \in Requests : Take(r)
    \/ \E r \in Requests, accepted \in BOOLEAN : Decide(r, accepted)

Spec == Init /\ [][Next]_vars
=============================================================================
