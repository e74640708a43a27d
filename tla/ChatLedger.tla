----------------------------- MODULE ChatLedger -----------------------------
(***************************************************************************)
(* What a chat promises to its client and to whoever reviews it later: a   *)
(* ledger entry is opened, is settled at most once, and the client is told *)
(* of a result only when the ledger holds that very result.  Nothing is    *)
(* rewritten once the client was told anything.                            *)
(***************************************************************************)
CONSTANT Request

VARIABLES
  ledger,   \* the state of each chat's entry
  told      \* what each client has been told

vars == <<ledger, told>>

Settled == {"success", "failed", "timeout"}
Results == {"answer", "error", "timed_out"}
Apology == {"no_record", "no_result", "unhandled", "lost"}

\* The ledger entry a reported result vouches for.
Backing == [answer |-> "success", error |-> "failed", timed_out |-> "timeout"]

Init ==
  /\ ledger = [r \in Request |-> "absent"]
  /\ told   = [r \in Request |-> "nothing"]

Open(r) ==
  /\ told[r] = "nothing"
  /\ ledger[r] = "absent"
  /\ ledger' = [ledger EXCEPT ![r] = "calling"]
  /\ told' \in {told, [told EXCEPT ![r] = "no_record"]}

Settle(r) ==
  /\ told[r] = "nothing"
  /\ ledger[r] = "calling"
  /\ \E s \in Settled : ledger' = [ledger EXCEPT ![r] = s]
  /\ told' \in {told, [told EXCEPT ![r] = "no_result"]}

Report(r) ==
  /\ told[r] = "nothing"
  /\ \E t \in Results : /\ ledger[r] = Backing[t]
                        /\ told' = [told EXCEPT ![r] = t]
  /\ UNCHANGED ledger

\* The server gives up on some chats, or dies with them.
GiveUp ==
  /\ \E S \in SUBSET Request, a \in Apology :
        /\ \A r \in S : told[r] = "nothing"
        /\ told' = [r \in Request |-> IF r \in S THEN a ELSE told[r]]
  /\ UNCHANGED ledger

Next == (\E r \in Request : Open(r) \/ Settle(r) \/ Report(r)) \/ GiveUp

Spec == Init /\ [][Next]_vars
=============================================================================
