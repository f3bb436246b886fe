------------------------------ MODULE MCInputs ------------------------------
(* What the program reads once and decides by a function: durations, the     *)
(* start-up settings, the stripped objects of the cache.                     *)
EXTENDS FlexibleDuration, ObjectTransform, Startup, TLC

CONSTANTS h, d, w, mth, y

Standard == {h}
Longer   == {d, w, mth, y}

\* In hours, of which an int64 of nanoseconds holds about 2562047 either way.
Hours == (h :> 1) @@ (d :> 24) @@ (w :> 168) @@ (mth :> 720) @@ (y :> 8760)

\* 292 years are in range, 293 are not, nor are twice 200.
SomeNumbers == {0, 1, 200, 292, 293, TooLarge}

SomeElements == [num : SomeNumbers, unit : {h, d, mth, y, Missing, Unknown}]
               \cup { [num |-> 2562048, unit |-> h] }

AnyTexts == [ neg : BOOLEAN, elements : UNION { [1 .. k -> SomeElements] : k \in 0 .. 3 } ]

\* Nothing set, nothing changed, nothing written.
Plain  == [ leaderElect |-> FALSE, electNamespace |-> "", envElect |-> "",
            envNamespace |-> "", pod |-> "inCluster", version |-> "v",
            optInKey |-> "", optInValue |-> "" ]
Bare   == [ unstructured |-> TRUE, annotations |-> <<>>,
            label |-> Absent, condition |-> Absent ]
NoText == [ neg |-> FALSE, elements |-> <<>> ]

\* The three kinds of input have nothing to do with one another: in each
\* behaviour one of them varies.
InputsInit ==
  /\ Init
  /\ \/ settings = Plain /\ old = Bare /\ new = Bare
     \/ text = NoText /\ StartupInit /\ old = Bare /\ new = Bare
     \/ text = NoText /\ settings = Plain /\ ChangeInit

inputsVars == <<durationVars, settings, changeVars>>

InputsSpec == InputsInit /\ [][Next /\ UNCHANGED <<settings, changeVars>>]_inputsVars
=============================================================================
