------------------------------ MODULE Campaign ------------------------------
(***************************************************************************)
(* What the emulator promises who starts it, without program counters,     *)
(* patches, cycles and resets: one input is tested after the other, each   *)
(* made from an entry of the corpus; an edge and a crash are credited to   *)
(* the input under test, and to the first that shows them; an input that   *)
(* was first with an edge or a state value joins the corpus, once, and it  *)
(* does so before the next one is made.  FuzzLoop implements this.         *)
(***************************************************************************)
EXTENDS Naturals, Sequences

CONSTANTS
  Inputs, Seeds, Mutate, CounterMod \* as in FuzzLoop

VARIABLES
  once,   \* test the one file that was given, as it is
  over,   \* the program has ended
  input,  \* the input under test
  marked, \* it was first with something
  corpus, \* the inputs to mutate, in order
  found,  \* each edge found, with the first input that reached it
  ledger, \* each crash found, with the first input that caused it
  gains,  \* how many state values were better than all before
  tests   \* how many tests have ended, modulo CounterMod

campaignVars == <<once, over, input, marked, corpus, found, ledger, gains, tests>>

Pool(q) == {q[k] : k \in 1 .. Len(q)}

(* The table only grows, and what is new in it is credited to the input.   *)
Credits(table, next) ==
  /\ DOMAIN table \subseteq DOMAIN next
  /\ next = [k \in DOMAIN next |-> IF k \in DOMAIN table THEN table[k] ELSE input]

Init ==
  /\ \E parent \in Pool(Seeds) :
       IF once THEN corpus = <<parent>> /\ input = parent
               ELSE corpus = Seeds /\ input \in Mutate[parent]
  /\ once \in BOOLEAN /\ over = FALSE /\ marked = FALSE
  /\ DOMAIN found = {} /\ DOMAIN ledger = {}
  /\ gains = 0 /\ tests = 0

(* The test goes on.                                                       *)
Observe ==
  /\ Credits(ledger, ledger') /\ Credits(found, found')
  /\ gains' \in {gains, gains + 1}
  /\ marked' = (marked \/ DOMAIN found' # DOMAIN found \/ gains' # gains)
  /\ UNCHANGED <<once, over, input, corpus, tests>>

(* The test ends: the input is kept if it is worth it, and another is made.*)
NextTest ==
  /\ ~once
  /\ Credits(ledger, ledger')
  /\ corpus' = IF marked THEN Append(corpus, input) ELSE corpus
  /\ \E parent \in Pool(corpus') : input' \in Mutate[parent]
  /\ marked' = FALSE
  /\ tests' = (tests + 1) % CounterMod
  /\ UNCHANGED <<once, over, found, gains>>

Stop ==
  /\ over' = TRUE
  /\ Credits(ledger, ledger')
  /\ tests' \in {tests, (tests + 1) % CounterMod}
  /\ UNCHANGED <<once, input, marked, corpus, found, gains>>

Next == ~over /\ (Observe \/ NextTest \/ Stop)

Spec == Init /\ [][Next]_campaignVars

-----------------------------------------------------------------------------
(* An input that was first with an edge is not lost.                       *)
NothingLost ==
  \A e \in DOMAIN found : found[e] \in Pool(corpus) \/ (marked /\ found[e] = input)
=============================================================================
