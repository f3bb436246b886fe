--------------------------- MODULE FlexibleDuration ---------------------------
(***************************************************************************)
(* ParseFlexibleDuration, which reads ttl and job-timeout: a sign, and     *)
(* elements of a number and a unit, added up in an int64.                  *)
(*                                                                         *)
(* A text is what the regular expression finds in it; whatever lies        *)
(* between two elements is skipped by the code and not in the model.       *)
(* Durations are counted in ticks, of which an int64 holds Word different  *)
(* numbers; numbers are whole, as a fraction only makes another multiple   *)
(* of the tick.                                                            *)
(***************************************************************************)
EXTENDS Integers, Sequences, FiniteSetsExt

CONSTANTS
  Word,        \* how many numbers an int64 holds
  Exact,       \* units time.ParseDuration reads: ns, us, ms, s, m, h
  Custom,      \* units of this parser: d, w, mth, month, mo, y
  Ticks,       \* Ticks[u]: the length of the unit u
  Missing,     \* an element without unit
  Unknown,     \* an element with any other unit
  TooLarge,    \* a number beyond the range of float64
  Texts        \* the texts parsed

Largest == Word \div 2 - 1
Least == -(Word \div 2)

Units    == Exact \cup Custom
Numbers  == Nat \cup {TooLarge}
Elements == [num : Numbers, unit : Units \cup {Missing, Unknown}]

ASSUME WordAssumption == Word \in Nat /\ Word >= 2 /\ Word % 2 = 0
ASSUME UnitAssumption ==
  /\ Exact \cap Custom = {}
  /\ {Missing, Unknown} \cap Units = {}
  /\ TooLarge \notin Int
  /\ Ticks \in [Units -> Nat \ {0}]
ASSUME TextAssumption == Texts \subseteq [neg : BOOLEAN, elements : Seq(Elements)]

VARIABLES
  text,        \* the text
  next,        \* the number of the element the loop comes to next
  sum,         \* sumDur
  answer       \* "none" yet, "value" or "error"

durationVars == <<text, next, sum, answer>>

-----------------------------------------------------------------------------
\* Arithmetic of time.Duration.
Wrap(x) == IF Least <= x /\ x <= Largest THEN x ELSE Least + ((x - Least) % Word)

\* time.Duration(f) for a float64 f: a value out of range becomes the least
\* int64 on amd64 and the nearest one on arm64.
FromFloat(x) == IF x <= Largest THEN {x} ELSE {Least, Largest}

InRange(x) == x \in Nat /\ x <= Largest

\* What makes the parser give up on an element. time.ParseDuration refuses what
\* it cannot represent, strconv.ParseFloat only what no float64 can.
Refuses(e) ==
  \/ e.unit \in {Missing, Unknown}
  \/ e.num = TooLarge
  \/ e.unit \in Exact /\ e.num # TooLarge /\ ~InRange(e.num * Ticks[e.unit])

\* The values an element may add.
Parts(e) == IF e.unit \in Exact THEN {e.num * Ticks[e.unit]}
                                ELSE FromFloat(e.num * Ticks[e.unit])

-----------------------------------------------------------------------------
Init ==
  /\ text \in Texts
  /\ next = 1
  /\ sum = 0
  /\ answer = "none"

\* No element at all, or one that is refused.
Fail ==
  /\ answer = "none"
  /\ \/ text.elements = <<>>
     \/ next <= Len(text.elements) /\ Refuses(text.elements[next])
  /\ answer' = "error"
  /\ UNCHANGED <<text, next, sum>>

\* Mutant: an element replaces the ones before it.
AddLast ==
  /\ answer = "none"
  /\ next <= Len(text.elements)
  /\ LET e == text.elements[next] IN
     /\ ~Refuses(e)
     /\ \E part \in Parts(e) : sum' = part
  /\ next' = next + 1
  /\ UNCHANGED <<text, answer>>

Add ==
  /\ answer = "none"
  /\ next <= Len(text.elements)
  /\ LET e == text.elements[next] IN
     /\ ~Refuses(e)
     /\ \E part \in Parts(e) : sum' = Wrap(sum + part)
  /\ next' = next + 1
  /\ UNCHANGED <<text, answer>>

Finish ==
  /\ answer = "none"
  /\ text.elements # <<>>
  /\ next > Len(text.elements)
  /\ sum' = IF text.neg THEN Wrap(-sum) ELSE sum
  /\ answer' = "value"
  /\ UNCHANGED <<text, next>>

Next == Fail \/ Add \/ Finish

Spec == Init /\ [][Next]_durationVars

-----------------------------------------------------------------------------
(* Properties.                                                              *)

\* What the variables hold; the proofs rest on it.
DurationTypeOK ==
  /\ text \in [neg : BOOLEAN, elements : Seq(Elements)]
  /\ next \in Nat \ {0}
  /\ sum \in Least .. Largest
  /\ answer \in {"none", "value", "error"}

\* What a text says, its sign aside.
Written(t) == MapThenSumSet(LAMBDA k : t.elements[k].num * Ticks[t.elements[k].unit],
                            DOMAIN t.elements)

\* The parser answers with a value if it can read every element of a text that
\* has any, and the value is what the elements add up to, with the sign of the
\* text, if an int64 holds the sum: no element is lost, none counts twice, the
\* sign applies to all, and nothing leaves the range before the sum does.
ReadAsWritten ==
  answer # "none" =>
    LET refused == \/ text.elements = <<>>
                   \/ \E k \in DOMAIN text.elements : Refuses(text.elements[k])
    IN /\ answer = "error" <=> refused
       /\ ~refused /\ InRange(Written(text)) =>
            sum = IF text.neg THEN -Written(text) ELSE Written(text)

-----------------------------------------------------------------------------
(* What the documentation says, and the code does not do.                   *)

\* README, "ttl": the time until the object is deleted. A time without a sign
\* is none that has passed already.
UnsignedIsNotPast == answer = "value" /\ ~text.neg => sum >= 0
=============================================================================
