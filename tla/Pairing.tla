------------------------------ MODULE Pairing ------------------------------
(***************************************************************************)
(* What peer discovery promises: every run of the program settles on at    *)
(* most one partner, for good, and a run that reports success is paired    *)
(* with a partner that has settled on it in turn.  P2PHandshake, the model *)
(* of RunP2PHandshake, implements this specification.                      *)
(***************************************************************************)
CONSTANTS Runs,      \* runs of the program, one identifier each
          NoRun      \* "no partner yet", not a run

VARIABLES choice,    \* choice[r]: the partner r settled on, or NoRun
          paired     \* the runs that reported success

pairingVars == <<choice, paired>>

PairingInit ==
  /\ choice = [r \in Runs |-> NoRun]
  /\ paired = {}

\* A run settles on another one.
Choose(r, s) ==
  /\ r # s
  /\ choice[r] = NoRun
  /\ choice' = [choice EXCEPT ![r] = s]
  /\ UNCHANGED paired

\* A run whose partner settled on it reports success.
Pair(r) ==
  /\ choice[r] \in Runs
  /\ choice[choice[r]] = r
  /\ paired' = paired \cup {r}
  /\ UNCHANGED choice

PairingNext == \E r \in Runs : Pair(r) \/ \E s \in Runs : Choose(r, s)

PairingSpec == PairingInit /\ [][PairingNext]_pairingVars

=============================================================================
