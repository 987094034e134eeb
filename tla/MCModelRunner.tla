--------------------------- MODULE MCModelRunner ---------------------------
EXTENDS ModelRunner

TwoProviders == <<"vertex", "anthropic">>
FourTools == {"quote", "recalc", "create", "unknown"}
KindOf == [t \in FourTools |->
  CASE t = "quote" -> "read" [] t = "recalc" -> "auto"
    [] t = "create" -> "write" [] t = "unknown" -> "refused"]

\* Some of a word, what makes it a local part, and what ends an address.
ThreeDeltas == {<<"word">>, <<"at", "word">>, <<"dot", "word">>}

-----------------------------------------------------------------------------
\* redact by its pattern, \b[\w.+-]+@[\w-]+\.[\w.-]+\b, as re.sub applies it.
IsWord(t, i) == i \in DOMAIN t /\ t[i] = "word"
Boundary(t, i) == IsWord(t, i - 1) # IsWord(t, i)

IsAddress(t, i, j) ==
  /\ Boundary(t, i) /\ Boundary(t, j + 1)
  /\ \E a \in (i + 1)..j : \E d \in (a + 2)..(j - 1) :
       /\ t[a] = "at" /\ t[d] = "dot"
       /\ \A k \in (i..(a - 1)) \cup (d..j) : t[k] \in {"word", "dot"}
       /\ \A k \in (a + 1)..(d - 1) : t[k] = "word"

\* The leftmost match is replaced, as long as it can be, and so on behind it.
RECURSIVE Replaced(_, _)
Replaced(t, i) ==
  LET ends == {j \in i..Len(t) : IsAddress(t, i, j)}
  IN  CASE i > Len(t) -> <<>>
        [] i <= Len(t) /\ ends = {} -> <<t[i]>> \o Replaced(t, i + 1)
        [] i <= Len(t) /\ ends # {} ->
             <<"pii">> \o Replaced(t, (CHOOSE j \in ends : \A k \in ends : k <= j) + 1)

ASSUME ScanIsThePattern ==
  \A n \in 0..6 : \A t \in [1..n -> Char] : Redact(t) = Replaced(t, 1)
=============================================================================
