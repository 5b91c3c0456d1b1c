---------------------------- MODULE AtomicTypes ----------------------------
(***************************************************************************)
(* The atomic types of CDSChecker/include/impatomic.h: of each, the width  *)
(* and the signedness of its field __f__, and what can be called on it.    *)
(* The header repeats one text for every type; what follows is all in      *)
(* which the copies differ.  Widths are parameters; the ABI of the build   *)
(* has 8, 16, 32 and 64, and uint64_t, which libmodel stores, is a long.   *)
(***************************************************************************)
EXTENDS Integers

CONSTANTS CharBits, ShortBits, IntBits, LongBits

ASSUME WidthAssumption ==
  /\ CharBits \in Nat \ {0, 1} /\ {ShortBits, IntBits, LongBits} \subseteq Nat
  /\ CharBits <= ShortBits /\ ShortBits <= IntBits /\ IntBits <= LongBits

\* The base functions, on every type
Base == {"load", "store", "exchange",
         "compare_exchange_weak", "compare_exchange_strong"}

Fetch == {"fetch_add", "fetch_sub", "fetch_and", "fetch_or", "fetch_xor"}

IntegralOperators == {"=", "x++", "x--", "++x", "--x",
                      "+=", "-=", "&=", "|=", "^="}

Type(bits, signed, members, operators, compound) ==
  [bits |-> bits, signed |-> signed, members |-> members,
   operators |-> operators,
   compound |-> compound] \* what x += v returns: the "new" value or the "old"

Integral(bits, signed) ==
  Type(bits, signed, Base \cup Fetch, IntegralOperators, "new")

\* bool: one bit, but any nonzero word converts to true (Convert).
atomic_bool == Type(1, FALSE, Base, {"="}, "new")

\* += and -= return fetch_add(v) and fetch_sub(v) as they are.
atomic_address == Type(LongBits, FALSE, Base \cup {"fetch_add", "fetch_sub"},
                       {"=", "+=", "-="}, "old")

atomic_char == Integral(CharBits, TRUE)    \* signed, on x86
atomic_schar == Integral(CharBits, TRUE)
atomic_uchar == Integral(CharBits, FALSE)
atomic_short == Integral(ShortBits, TRUE)
atomic_ushort == Integral(ShortBits, FALSE)
atomic_int == Integral(IntBits, TRUE)
atomic_uint == Integral(IntBits, FALSE)
atomic_long == Integral(LongBits, TRUE)
atomic_ulong == Integral(LongBits, FALSE)
atomic_llong == Integral(LongBits, TRUE)
atomic_ullong == Integral(LongBits, FALSE)
atomic_wchar_t == Integral(IntBits, TRUE)

\* atomic<T>, for a T of the width of unsigned int that is none of the
\* specialised ones (an enumeration).
atomic_T == Type(IntBits, FALSE, Base, {"="}, "new")

\* atomic<T*>, the type of head, tail and next in the queues.  Its fetch_add
\* and fetch_sub, and the operators that call them, return a void* as a T*
\* and so do not compile where they are used.
atomic_T_pointer == Type(LongBits, FALSE, Base, {"="}, "old")

\* atomic<bool>, atomic<void*>, atomic<char>, ... only inherit and store.
Specialisations ==
  {atomic_bool, atomic_address, atomic_char, atomic_schar, atomic_uchar,
   atomic_short, atomic_ushort, atomic_int, atomic_uint, atomic_long,
   atomic_ulong, atomic_llong, atomic_ullong, atomic_wchar_t}

AtomicType == Specialisations \cup {atomic_T, atomic_T_pointer}

-----------------------------------------------------------------------------
(* Values.  A type holds the integers of Domain; the language converts an  *)
(* integer to it modulo 2^bits, or to bool by comparing it with 0.         *)

Domain(type) ==
  IF type.signed THEN -(2^(type.bits - 1)) .. (2^(type.bits - 1) - 1)
  ELSE 0 .. (2^type.bits - 1)

Convert(type, n) ==
  IF type.bits = 1 /\ ~type.signed THEN IF n = 0 THEN 0 ELSE 1
  ELSE CHOOSE v \in Domain(type) : (v - n) % 2^type.bits = 0
=============================================================================
