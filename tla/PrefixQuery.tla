----------------------------- MODULE PrefixQuery -----------------------------
(***************************************************************************)
(* The query of the search page (searchFirestore).  It asks for the        *)
(* locations between the text of the search bar and that text followed by  *)
(* U+F8FF, to get those that start with the text.  Firestore compares      *)
(* strings byte by byte in UTF-8, which is the order of their code points; *)
(* a string is a sequence of code points here.                             *)
(***************************************************************************)
EXTENDS Naturals, Sequences, SequencesExt

CONSTANT PrivateEnd  \* U+F8FF, the last of the private use area

ASSUME QueryAssumption == PrivateEnd \in Nat

(* Comparator<string_view>::Compare is Ascending: the first difference     *)
(* decides, and a string comes after its prefixes.                         *)
Precedes(a, b) ==
  \/ \E i \in DOMAIN a \cap DOMAIN b : a[i] < b[i] /\ \A j \in 1 .. i - 1 : a[j] = b[j]
  \/ Len(a) < Len(b) /\ \A j \in DOMAIN a : a[j] = b[j]

(* Faulty: isGreaterThan in place of isGreaterThanOrEqualTo. *)
NotLessStrict(lhs, rhs) == Precedes(rhs, lhs)

(* Filters GreaterThanOrEqual and LessThanOrEqual of the field lhs. *)
NotLess(lhs, rhs) == lhs = rhs \/ Precedes(rhs, lhs)
NotGreater(lhs, rhs) == lhs = rhs \/ Precedes(lhs, rhs)

(* Faulty: one filter is enough. *)
MatchesOneFilter(t, l) == NotLess(l, t) \/ NotGreater(l, Append(t, PrivateEnd))

Matches(t, l) == NotLess(l, t) /\ NotGreater(l, Append(t, PrivateEnd))

StartsWith(l, t) == IsPrefix(t, l)

(* After the text comes U+F8FF itself or a later code point: an emoji, a   *)
(* compatibility ideograph, a full-width letter.                           *)
GoesOnLate(l, t) == Len(l) > Len(t) /\ l[Len(t) + 1] >= PrivateEnd
=============================================================================
