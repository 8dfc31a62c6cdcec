------------------------------ MODULE Channel -------------------------------
(***************************************************************************)
(* What a mailbox promises: one place per process.  A message accepted     *)
(* stays in the box, whole, until the owner takes it or is gone; a process *)
(* that asks for a message gets the one in its box.                        *)
(***************************************************************************)
CONSTANTS Slots,   \* the process table
          Msgs,    \* message texts
          Empty    \* no message

VARIABLES box,       \* the message accepted and not yet taken
          receiving, \* the owners that have asked for a message
          got        \* the message the owner's last receive returned

avars == <<box, receiving, got>>

AInit ==
  /\ box = [s \in Slots |-> Empty]
  /\ receiving = {}
  /\ got = [s \in Slots |-> Empty]

Accept(s, m) ==
  /\ box[s] = Empty
  /\ box' = [box EXCEPT ![s] = m]
  /\ UNCHANGED <<receiving, got>>

Ask(s) ==
  /\ s \notin receiving
  /\ receiving' = receiving \cup {s}
  /\ UNCHANGED <<box, got>>

Take(s) ==
  /\ s \in receiving /\ box[s] # Empty
  /\ got' = [got EXCEPT ![s] = box[s]]
  /\ box' = [box EXCEPT ![s] = Empty]
  /\ receiving' = receiving \ {s}

\* the receive fails (a bad address); the message stays
Refuse(s) ==
  /\ s \in receiving /\ box[s] # Empty
  /\ receiving' = receiving \ {s}
  /\ UNCHANGED <<box, got>>

\* the owner is gone, and what was in its box with it
Discard(s) ==
  /\ s \notin receiving
  /\ box' = [box EXCEPT ![s] = Empty]
  /\ got' = [got EXCEPT ![s] = Empty]
  /\ UNCHANGED receiving

ANext ==
  \E s \in Slots : \/ \E m \in Msgs : Accept(s, m)
                   \/ Ask(s) \/ Take(s) \/ Refuse(s) \/ Discard(s)

ASafeSpec == AInit /\ [][ANext]_avars
ASpec == ASafeSpec /\ \A s \in Slots : WF_avars(Take(s) \/ Refuse(s))
=============================================================================
