---------------------------- MODULE SingleSession ----------------------------
(***************************************************************************)
(* What the device promises the platform about media: at any time it       *)
(* serves at most one session, an INVITE transaction that is already the   *)
(* session is never established a second time, and once the server has     *)
(* shut down nothing is served again.                                      *)
(*                                                                         *)
(* MediaSession.tla is shown to implement this specification for every     *)
(* deployment in which the platform sends no voice-broadcast notification. *)
(***************************************************************************)
CONSTANTS Transaction,  \* INVITE transactions: what Call-ID and CSeq identify
          Session,      \* identities of established sessions
          NoSession     \* the empty slot

VARIABLES session,      \* the session in the slot, or NoSession
          serving,      \* sessions whose media task is sending or receiving
          open          \* FALSE once the server has shut down

vars == <<session, serving, open>>

Slot == [invite : Transaction, id : Session]

Init == /\ session = NoSession
        /\ serving = {}
        /\ open = TRUE

(* An INVITE that is not the current session's own replaces whatever was   *)
(* there, and the previous session stops being served in the same step.    *)
Establish(tx, id) ==
    /\ open
    /\ session # NoSession => session.invite # tx /\ session.id # id
    /\ session' = [invite |-> tx, id |-> id]
    /\ serving' = {id}
    /\ UNCHANGED open

(* BYE, or a new INVITE that is then refused. *)
Release == /\ session # NoSession
           /\ session' = NoSession
           /\ serving' = {}
           /\ UNCHANGED open

(* The media task ends by itself (recording exhausted, peer unreachable);  *)
(* the session keeps its slot until BYE or the next INVITE.                *)
Exhaust == /\ serving # {}
           /\ serving' = {}
           /\ UNCHANGED <<session, open>>

Close == /\ open
         /\ session' = NoSession
         /\ serving' = {}
         /\ open' = FALSE

Next == \/ \E tx \in Transaction, id \in Session : Establish(tx, id)
        \/ Release
        \/ Exhaust
        \/ Close

Spec == Init /\ [][Next]_vars
==============================================================================
