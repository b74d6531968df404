-------------------------- MODULE OrderBookAtomic --------------------------
(***************************************************************************)
(* What an order book promises to its users: every batch of updates, and   *)
(* every question for the best bid and offer, takes effect at one moment.  *)
(***************************************************************************)
EXTENDS BookOps

CONSTANTS
  Threads,   \* the callers
  Batches    \* what may be applied: [snapshot : BOOLEAN, updates : Seq(Updates)]

VARIABLES
  abook,     \* the book
  answer     \* what each thread was told last: nothing, or bid and ask

avars == <<abook, answer>>

AInit == abook = EmptyBook /\ answer = [t \in Threads |-> <<>>]

AWrite(m) == abook' = ApplyBatch(abook, m.snapshot, m.updates) /\ UNCHANGED answer
ARead(t) == answer' = [answer EXCEPT ![t] = Bbo(abook)] /\ UNCHANGED abook

ANext ==
  \/ \E m \in Batches : AWrite(m)
  \/ \E t \in Threads : ARead(t)

ASpec == AInit /\ [][ANext]_avars
=============================================================================
