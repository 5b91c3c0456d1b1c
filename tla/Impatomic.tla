----------------------------- MODULE Impatomic -----------------------------
(***************************************************************************)
(* CDSChecker/include/impatomic.h: how the operations on one atomic object *)
(* become calls of libmodel, the library of the model checker.  libmodel   *)
(* (external) keeps the memory, as 64-bit words, and schedules the threads *)
(* at its calls; between a model_rmwr_action and the model_rmw_action or   *)
(* model_rmwc_action that follows it, it lets no other thread run.         *)
(*                                                                         *)
(* A C++ program reaches a macro through an operator, a member and a       *)
(* function, which convert the operand to the type of the object; a C      *)
(* program calls a macro of the function's name on operands of any type.   *)
(* Memory orders are left out (they only pass through the header, where    *)
(* the order for failure gets lost), memory is sequentially consistent.    *)
(***************************************************************************)
EXTENDS AtomicTypes, Bitwise, TLC

CONSTANTS Thread, NoCall

VARIABLES lang,  \* what the program is compiled as, "C" or "C++"
          type,  \* the type of the object
          mem,   \* the word that libmodel keeps for the object
          rmw,   \* the thread inside of a read-modify-write, or NoCall
          old,   \* its local __old__ or __t__
          call,  \* call[t]: [op, arg, expected] of the call t is in, or NoCall
          ret    \* ret[t]: what the last call returned, and its *expected

vars == <<lang, type, mem, rmw, old, call, ret>>

-----------------------------------------------------------------------------
(* Conversions                                                             *)

\* (uint64_t) v: sign extension
ToWord(v) == v % 2^LongBits

\* (__typeof__((a)->__f__)) w: bool is true of any nonzero word, other types
\* keep the low bits and take the highest of these for the sign.
FromWord(w) ==
  LET low == w % 2^type.bits
  IN IF type = atomic_bool THEN IF w = 0 THEN 0 ELSE 1
     ELSE IF type.signed /\ low >= 2^(type.bits - 1) THEN low - 2^type.bits
     ELSE low

-----------------------------------------------------------------------------
(* The way from an operation to a macro                                    *)

\* The inline operators of the types: the member they call
OperatorMember ==
  "=" :> "store" @@ "x++" :> "fetch_add" @@ "++x" :> "fetch_add"
  @@ "x--" :> "fetch_sub" @@ "--x" :> "fetch_sub" @@ "+=" :> "fetch_add"
  @@ "-=" :> "fetch_sub" @@ "&=" :> "fetch_and" @@ "|=" :> "fetch_or"
  @@ "^=" :> "fetch_xor"

\* The members of atomic_bool and atomic_address call the function of their
\* name, and so do those of atomic_char, ..., atomic_wchar_t.
Members == Base
IntegralMembers == Base

\* The two members of atomic_address that fetch, and those of the integral
\* types
AddressFetchMembers == {"fetch_add", "fetch_sub"}
FetchMembers == Fetch

\* Those of atomic<T*> go through atomic_address, with casts.
PointerMembers == Base

\* Those of atomic<T> expand the macros themselves.
TemplateMembers ==
  "load" :> "load" @@ "store" :> "store" @@ "exchange" :> "="
  @@ "compare_exchange_weak" :> "cmpswp"
  @@ "compare_exchange_strong" :> "cmpswp"

\* The functions atomic_load_explicit(), ...: the macro each expands to,
\* with the operator it hands to _ATOMIC_MODIFY_.
BaseFunction ==
  "load" :> "load" @@ "store" :> "store" @@ "exchange" :> "="
  @@ "compare_exchange_weak" :> "cmpswp"
  @@ "compare_exchange_strong" :> "cmpswp"

\* The functions atomic_fetch_add_explicit(), ...
FetchFunction ==
  "fetch_add" :> "+=" @@ "fetch_sub" :> "-=" @@ "fetch_and" :> "&="
  @@ "fetch_or" :> "|=" @@ "fetch_xor" :> "^="

\* Those of atomic_address are written out, and count in bytes.
AddressFunction == "fetch_add" :> "+=" @@ "fetch_sub" :> "-="

\* In C the same names are macros, for objects of every type.
CMacros == BaseFunction @@ FetchFunction

Member(op) == IF op \in DOMAIN OperatorMember THEN OperatorMember[op] ELSE op

\* What a call of op expands to, on an object of this type
Macro(op) ==
  LET m == Member(op)
  IN IF lang = "C" THEN CMacros[op]
     ELSE IF type = atomic_T THEN TemplateMembers[m]
     ELSE CASE m \in Members \cup IntegralMembers \cup PointerMembers ->
                 BaseFunction[m]
            [] type = atomic_address /\ m \in AddressFetchMembers ->
                 AddressFunction[m]
            [] type # atomic_address /\ m \in FetchMembers -> FetchFunction[m]

Operations == IF lang = "C" THEN DOMAIN CMacros ELSE type.members \cup type.operators

\* old o v, in C's arithmetic (the build wraps around)
Apply(o, a, v) ==
  CASE o = "=" -> v
    [] o = "+=" -> a + v
    [] o = "-=" -> a - v
    [] o = "&=" -> ToWord(a) & ToWord(v)
    [] o = "|=" -> ToWord(a) | ToWord(v)
    [] o = "^=" -> ToWord(a) ^^ ToWord(v)

\* MUTANT of OperatorResult: ++x and --x return what x++ and x-- return.
OperatorReturnsOld(op, arg) == old

\* What an operator makes of the value its member returned
OperatorResult(op, arg) ==
  IF op \in {"++x", "--x"} \/ op \in type.operators \ {"=", "x++", "x--"}
  THEN IF type.compound = "old" THEN old
       ELSE FromWord(ToWord(Apply(FetchFunction[Member(op)], old, arg)))
  ELSE old

-----------------------------------------------------------------------------
(* The operations                                                          *)

NoReturn == [value |-> 0, expected |-> 0]

\* _ATOMIC_INIT_, before the object is shared
Init == /\ lang \in {"C", "C++"}
        /\ type \in AtomicType
        /\ \E v \in Domain(type) : mem = ToWord(v)
        /\ rmw = NoCall /\ old = 0
        /\ call = [t \in Thread |-> NoCall]
        /\ ret = [t \in Thread |-> NoReturn]

\* INPUTS: the extreme values, one between, and in C some of other types.
Operands ==
  IF lang = "C" THEN {-1, 2^CharBits}
  ELSE LET d == Domain(type)
       IN {v \in d : v = 1 \/ v - 1 \notin d \/ v + 1 \notin d}

Call(t) ==
  /\ call[t] = NoCall
  /\ \E op \in Operations :
       \E arg \in IF op \in {"x++", "++x", "x--", "--x"} THEN {1}
                  ELSE IF op = "load" THEN {0} ELSE Operands,
          expected \in IF Macro(op) = "cmpswp" THEN {0, 1} \cap Domain(type)
                       ELSE {0} :
         call' = [call EXCEPT ![t] =
                    [op |-> op, arg |-> arg, expected |-> expected]]
  /\ ret' = [ret EXCEPT ![t] = NoReturn]
  /\ UNCHANGED <<lang, type, mem, rmw, old>>

\* t is at a call of libmodel that the macro m starts with.
At(t, m) == call[t] # NoCall /\ rmw = NoCall /\ Macro(call[t].op) \in m

Returns(t, value, expected) ==
  /\ call' = [call EXCEPT ![t] = NoCall]
  /\ ret' = [ret EXCEPT ![t] = [value |-> value, expected |-> expected]]
  /\ UNCHANGED <<lang, type>>

\* _ATOMIC_LOAD_
Load(t) ==
  /\ At(t, {"load"})
  /\ Returns(t, FromWord(mem), call[t].expected)
  /\ UNCHANGED <<mem, rmw, old>>

\* _ATOMIC_STORE_; the operator = returns its operand.
Store(t) ==
  /\ At(t, {"store"})
  /\ mem' = ToWord(call[t].arg)
  /\ Returns(t, call[t].arg, call[t].expected)
  /\ UNCHANGED <<rmw, old>>

\* _ATOMIC_MODIFY_, _ATOMIC_CMPSWP_: model_rmwr_action
Rmwr(t) ==
  /\ At(t, {"cmpswp", "=", "+=", "-=", "&=", "|=", "^="})
  /\ rmw' = t /\ old' = FromWord(mem)
  /\ UNCHANGED <<lang, type, mem, call, ret>>

Closes(t) == rmw = t /\ rmw' = NoCall /\ old' = 0

\* _ATOMIC_MODIFY_: __copy__ __o__ __v__; model_rmw_action
Modify(t) ==
  /\ Closes(t) /\ Macro(call[t].op) # "cmpswp"
  /\ LET copy == FromWord(ToWord(Apply(Macro(call[t].op), old, call[t].arg)))
     IN mem' = ToWord(copy)
  /\ Returns(t, OperatorResult(call[t].op, call[t].arg), call[t].expected)

\* _ATOMIC_CMPSWP_, weak and strong: "No spurious failure for now"
CmpSwpSucceeds(t) ==
  /\ Closes(t) /\ Macro(call[t].op) = "cmpswp"
  /\ old = call[t].expected
  /\ mem' = ToWord(call[t].arg)
  /\ Returns(t, 1, call[t].expected)

\* MUTANT of CmpSwpFails: returns without model_rmwc_action.
CmpSwpForgets(t) ==
  /\ rmw = t /\ Macro(call[t].op) = "cmpswp"
  /\ old # call[t].expected
  /\ Returns(t, 0, old)
  /\ UNCHANGED <<mem, rmw, old>>

\* model_rmwc_action, and *expected becomes what the object holds
CmpSwpFails(t) ==
  /\ Closes(t) /\ Macro(call[t].op) = "cmpswp"
  /\ old # call[t].expected
  /\ Returns(t, 0, old)
  /\ UNCHANGED mem

Step(t) == \/ Load(t) \/ Store(t) \/ Rmwr(t) \/ Modify(t)
           \/ CmpSwpSucceeds(t) \/ CmpSwpFails(t)

Next == \E t \in Thread : Call(t) \/ Step(t)

Spec == Init /\ [][Next]_vars

-----------------------------------------------------------------------------
(* Properties                                                              *)

\* mem is a word, what a thread has read is a value of the type, and no
\* call returns with its read-modify-write left open.
TypeOK == /\ lang \in {"C", "C++"} /\ type \in AtomicType
          /\ mem \in 0..(2^LongBits - 1)
          /\ rmw \in Thread \cup {NoCall}
          /\ old \in Domain(type)
          /\ \A t \in Thread : rmw = t => call[t] # NoCall

Cell == INSTANCE AtomicCell WITH cell <- FromWord(mem)

\* The header implements an atomic cell of every type, whatever happens to
\* the signs and the high bits of values on their way through the words of
\* libmodel, and although a read-modify-write is two of its calls.
ImplementsCell == Cell!CellSpec
=============================================================================
