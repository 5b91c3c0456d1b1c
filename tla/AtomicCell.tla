----------------------------- MODULE AtomicCell -----------------------------
(***************************************************************************)
(* What an atomic object of a type of AtomicTypes promises: a cell that    *)
(* holds a value of the type and on which every operation takes effect,    *)
(* and is answered, in a single step.                                      *)
(***************************************************************************)
EXTENDS AtomicTypes, Bitwise

CONSTANTS Thread,
          NoCall  \* the call of a thread outside of the header

VARIABLES type,   \* the type of the object
          cell,   \* its value
          call,   \* call[t]: [op, arg, expected] of the call t is in
          ret     \* ret[t]: [value, expected] of the last call of t

cellVars == <<type, cell, call, ret>>

Bits(v) == v % 2^LongBits

\* The value of a op b, before the conversion to the type
Combined(op, a, b) ==
  CASE op \in {"store", "exchange", "="} -> b
    [] op \in {"compare_exchange_weak", "compare_exchange_strong"} -> b
    [] op \in {"fetch_add", "+=", "x++", "++x"} -> a + b
    [] op \in {"fetch_sub", "-=", "x--", "--x"} -> a - b
    [] op \in {"fetch_and", "&="} -> Bits(a) & Bits(b)
    [] op \in {"fetch_or", "|="} -> Bits(a) | Bits(b)
    [] op \in {"fetch_xor", "^="} -> Bits(a) ^^ Bits(b)
    [] op = "load" -> a

IsCas(c) == c.op \in {"compare_exchange_weak", "compare_exchange_strong"}

AnswersNew(c) == \/ c.op \in {"++x", "--x"}
                 \/ c.op \in {"+=", "-=", "&=", "|=", "^="} /\ type.compound = "new"

NoReturn == [value |-> 0, expected |-> 0]

\* Which calls there are is the header's business.
Invoke(t) ==
  /\ call[t] = NoCall /\ call'[t] # NoCall
  /\ call' = [call EXCEPT ![t] = call'[t]]
  /\ ret' = [ret EXCEPT ![t] = NoReturn]
  /\ UNCHANGED <<type, cell>>

Answer(t, value, expected) ==
  /\ call' = [call EXCEPT ![t] = NoCall]
  /\ ret' = [ret EXCEPT ![t] = [value |-> value, expected |-> expected]]
  /\ UNCHANGED type

\* A compare-and-swap on a cell that holds another value than expected
Refuse(t) ==
  /\ call[t] # NoCall /\ IsCas(call[t]) /\ cell # call[t].expected
  /\ Answer(t, 0, cell)
  /\ UNCHANGED cell

Perform(t) ==
  /\ call[t] # NoCall
  /\ LET c == call[t]
         new == Convert(type, Combined(c.op, cell, c.arg))
     IN /\ IsCas(c) => cell = c.expected
        /\ cell' = new
        /\ Answer(t, IF IsCas(c) THEN 1
                     ELSE IF AnswersNew(c) THEN new
                     ELSE IF c.op \in {"store", "="} THEN c.arg ELSE cell,
                  c.expected)

CellInit == /\ type \in AtomicType /\ cell \in Domain(type)
            /\ call = [t \in Thread |-> NoCall]
            /\ ret = [t \in Thread |-> NoReturn]

CellNext == \E t \in Thread : Invoke(t) \/ Refuse(t) \/ Perform(t)

CellSpec == CellInit /\ [][CellNext]_cellVars
=============================================================================
