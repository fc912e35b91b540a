------------------------ MODULE SessionFile_proofs ------------------------
(***************************************************************************)
(* What a session and its file promise, for any number of entries, forks,  *)
(* restarts and writes that go wrong.                                      *)
(*                                                                         *)
(* The invariant speaks of the lines of the file, one by one, rather than  *)
(* of what a reader makes of them: the lines that can be read have ids of  *)
(* their own; an acknowledged entry has a line that no later write can     *)
(* spoil; and as long as no write threw, the file is whole, every parent   *)
(* in it before its children, and what the process holds is what a reader  *)
(* would find.                                                             *)
(***************************************************************************)
EXTENDS SessionFile, SessionContext_proofs

-----------------------------------------------------------------------------
(* The invariant.                                                          *)

\* The entries that name only the first n ids.
EntriesOf(n) ==
  [id : 0..n, parent : 0..n,
   msg : [role : Roles \cup {"none", "summary", "branchSummary", "header", "garbage"}],
   kept : 0..n, covers : SUBSET (1..n), target : 0..n, set : BOOLEAN]

SessionsOf(n) ==
  [up : BOOLEAN, entries : Seq(EntriesOf(n)), leaf : Nat, labels : SUBSET Nat, flushed : BOOLEAN]

FilesOf(n) == [exists : BOOLEAN, lines : Seq(EntriesOf(n)), open : BOOLEAN]

Counts ==
  [issued : Nat, compactions : Nat, labels : Nat, moves : Nat, forks : Nat, troubles : Nat,
   ends : Nat]

Typed ==
  /\ count \in Counts
  /\ session \in SessionsOf(count.issued)
  /\ file \in FilesOf(count.issued)
  /\ failed \in BOOLEAN
  /\ acked \subseteq EntriesOf(count.issued)

\* Entries have ids, and no two the same.
Distinct(E) ==
  /\ \A i \in 1..Len(E) : E[i].id # 0
  /\ \A i, j \in 1..Len(E) : E[i].id = E[j].id => i = j

\* A parent stands before its children.
Rooted(E) ==
  \A i \in 1..Len(E) : E[i].parent = 0 \/ \E k \in 1..(i - 1) : E[k].id = E[i].parent

\* The same of the lines of a file that can be read.
DistinctLines(L) ==
  \A i, j \in 1..Len(L) :
    L[i] # Garbage /\ L[j] # Garbage /\ L[i].id = L[j].id => i = j

RootedLines(L) ==
  \A i \in 1..Len(L) :
    \/ L[i] = Garbage \/ L[i].parent = 0
    \/ \E k \in 1..(i - 1) : L[k] # Garbage /\ L[k].id = L[i].parent

\* A file that is not there is empty, and only a line can be open.
Whole(f) ==
  /\ f.open => f.lines # <<>>
  /\ ~f.exists => f = NoFile
  /\ DistinctLines(f.lines)

\* The entries are in the file, none in the line that the next write would spoil.
Keeps(f, A) ==
  \A a \in A :
    /\ a.id # 0
    /\ \E i \in 1..Len(f.lines) : f.lines[i] = a /\ (f.open => i < Len(f.lines))

\* What the process holds is what the file would be read as.
Synced(s, f) ==
  /\ Rooted(s.entries)
  /\ s.labels = LabelsOf(s.entries)
  /\ s.flushed => Parsed(f) = <<Header>> \o s.entries /\ ~f.open
  /\ ~s.flushed => ~HasAssistant(s.entries) /\ f = NoFile

IInv ==
  /\ Typed
  /\ Distinct(session.entries)
  /\ session.leaf \in Ids(session.entries) \cup {0}
  /\ Whole(file)
  /\ Keeps(file, acked)
  /\ ~failed => RootedLines(file.lines) /\ (session.up => Synced(session, file))

-----------------------------------------------------------------------------
(* Entries, and the file that they are read from.                          *)

LEMMA EntriesGrow ==
  ASSUME NEW m \in Nat, NEW n \in Nat, m <= n
  PROVE  EntriesOf(m) \subseteq EntriesOf(n) /\ Seq(EntriesOf(m)) \subseteq Seq(EntriesOf(n))
<1>1. 0..m \subseteq 0..n /\ SUBSET (1..m) \subseteq SUBSET (1..n)
  OBVIOUS
<1>2. EntriesOf(m) \subseteq EntriesOf(n)
  BY <1>1 DEF EntriesOf
<1> QED
  BY <1>2

LEMMA EntryFields ==
  ASSUME NEW n \in Nat, NEW e \in EntriesOf(n)
  PROVE  /\ e.id \in 0..n /\ e.parent \in 0..n /\ e.kept \in 0..n /\ e.target \in 0..n
         /\ e.covers \subseteq 1..n
BY DEF EntriesOf

LEMMA FrontOf ==
  ASSUME NEW T, NEW s \in Seq(T), s # <<>>
  PROVE  /\ Len(s) \in Nat \ {0} /\ Front(s) \in Seq(T) /\ Len(Front(s)) = Len(s) - 1
         /\ \A i \in 1..(Len(s) - 1) : Front(s)[i] = s[i]
<1>1. Len(s) \in Nat \ {0}
  OBVIOUS
<1> DEFINE m == Len(s) - 1
           F == SubSeq(s, 1, m)
<1>2. m \in Nat /\ 1..m \subseteq 1..Len(s)
  BY <1>1
<1> HIDE DEF m
<1>3. F \in Seq(T) /\ Len(F) = m /\ \A i \in 1..m : F[i] = s[i]
  BY <1>2
<1>4. Front(s) = F
  BY DEF Front, m
<1> HIDE DEF F
<1> QED
  BY <1>1, <1>3, <1>4 DEF m

LEMMA SpecialLines ==
  ASSUME NEW n \in Nat
  PROVE  /\ Header \in EntriesOf(n) /\ Garbage \in EntriesOf(n)
         /\ Header # Garbage /\ Header.id = 0 /\ Header.parent = 0 /\ Garbage.id = 0
BY DEF Header, Garbage, Entry, EntriesOf

\* What is read of a file: its lines in their order, without those that do not parse.
LEMMA ParsedPlaces ==
  ASSUME NEW T, NEW f, f.lines \in Seq(T)
  PROVE  /\ Parsed(f) \in Seq(T)
         /\ \E h : /\ h \in [1..Len(Parsed(f)) -> 1..Len(f.lines)]
                   /\ \A i \in 1..Len(Parsed(f)) :
                        f.lines[h[i]] # Garbage /\ Parsed(f)[i] = f.lines[h[i]]
                   /\ \A i, j \in 1..Len(Parsed(f)) : i < j => h[i] < h[j]
                   /\ \A k \in 1..Len(f.lines) :
                        f.lines[k] # Garbage => \E i \in 1..Len(Parsed(f)) : h[i] = k
<1> DEFINE L == f.lines
           P == {i \in DOMAIN L : L[i] # Garbage}
           p == Selected(L, P)
<1>1. Parsed(f) = p /\ L \in Seq(T)
  BY DEF Parsed
<1>2. \A i : i \in P <=> i \in 1..Len(L) /\ L[i] # Garbage
  BY <1>1
<1> HIDE DEF L, P
<1>3. p \in Seq(T) /\ \E h : Stands(h, L, P, p)
  BY <1>1, SelectedPlaces
<1> HIDE DEF p
<1>4. PICK h : Stands(h, L, P, p)
  BY <1>3
<1>5. /\ h \in [1..Len(p) -> 1..Len(L)]
      /\ \A i \in 1..Len(p) : L[h[i]] # Garbage /\ p[i] = L[h[i]]
      /\ \A i, j \in 1..Len(p) : i < j => h[i] < h[j]
      /\ \A k \in 1..Len(L) : L[k] # Garbage => \E i \in 1..Len(p) : h[i] = k
  BY <1>2, <1>4 DEF Stands
<1> QED
  BY <1>1, <1>3, <1>5 DEF L

LEMMA ReadLines ==
  ASSUME NEW T, NEW f, f.lines \in Seq(T)
  PROVE  /\ Parsed(f) \in Seq(T)
         /\ \A i \in 1..Len(Parsed(f)) :
              \E k \in 1..Len(f.lines) : f.lines[k] # Garbage /\ Parsed(f)[i] = f.lines[k]
         /\ \A k \in 1..Len(f.lines) :
              f.lines[k] # Garbage => \E i \in 1..Len(Parsed(f)) : Parsed(f)[i] = f.lines[k]
<1> DEFINE p == Parsed(f)
           L == f.lines
<1>1. PICK h : /\ h \in [1..Len(p) -> 1..Len(L)]
               /\ \A i \in 1..Len(p) : L[h[i]] # Garbage /\ p[i] = L[h[i]]
               /\ \A i, j \in 1..Len(p) : i < j => h[i] < h[j]
               /\ \A k \in 1..Len(L) : L[k] # Garbage => \E i \in 1..Len(p) : h[i] = k
  BY ParsedPlaces
<1>2. p \in Seq(T)
  BY ParsedPlaces
<1> HIDE DEF p, L
<1>3. \A i \in 1..Len(p) : h[i] \in 1..Len(L)
  BY <1>1
<1>4. \A i \in 1..Len(p) : \E k \in 1..Len(L) : L[k] # Garbage /\ p[i] = L[k]
  BY <1>1, <1>3
<1>5. \A k \in 1..Len(L) : L[k] # Garbage => \E i \in 1..Len(p) : p[i] = L[k]
  BY <1>1
<1> QED
  BY <1>2, <1>4, <1>5 DEF p, L

IsAppended(F, E, e) == F = Append(E, e)

\* A line more, behind lines that are whole, is an entry more.
LEMMA ParsedAppend ==
  ASSUME NEW T, NEW f, f.lines \in Seq(T), NEW g, NEW e \in T, IsAppended(g.lines, f.lines, e),
         e # Garbage
  PROVE  IsAppended(Parsed(g), Parsed(f), e)
<1> DEFINE L == f.lines
           M == g.lines
           P == {i \in DOMAIN L : L[i] # Garbage}
           Q == {i \in DOMAIN M : M[i] # Garbage}
<1>1. Parsed(f) = Selected(L, P) /\ Parsed(g) = Selected(M, Q)
  BY DEF Parsed
<1>2. L \in Seq(T) /\ M = Append(L, e)
  BY DEF IsAppended
<1>3. /\ \A i \in 1..Len(L) : i \in P <=> i \in Q
      /\ Len(L) + 1 \in Q
  BY <1>2
<1> HIDE DEF L, M, P, Q
<1>4. Selected(M, Q) = Append(Selected(L, Q), e)
  BY <1>2, <1>3, SelectedAppend
<1>5. Len(L) \in Nat
  BY <1>2
<1>6. Selected(L, P) = Selected(L, Q)
  BY <1>3, <1>5, SelectedSame
<1> QED
  BY <1>1, <1>4, <1>6 DEF IsAppended

\* Lines that all parse are all read.
LEMMA ParsedAll ==
  ASSUME NEW T, NEW f, f.lines \in Seq(T), \A i \in 1..Len(f.lines) : f.lines[i] # Garbage
  PROVE  Parsed(f) = f.lines
<1> DEFINE L == f.lines
           P == {i \in DOMAIN L : L[i] # Garbage}
<1>1. 1..Len(L) \subseteq P /\ L \in Seq(T) /\ Parsed(f) = Selected(L, P)
  BY DEF Parsed
<1> HIDE DEF L, P
<1>2. Selected(L, P) = L
  BY <1>1, SelectedAll
<1> QED
  BY <1>1, <1>2 DEF L

\* What Open makes of a session file: its entries are behind the header, have ids of their
\* own, and parents before children if the lines have.
LEMMA OpenedEntries ==
  ASSUME NEW T, NEW f, f.lines \in Seq(T), IsSessionFile(f), DistinctLines(f.lines)
  PROVE  /\ Tail(Parsed(f)) \in Seq(T)
         /\ Parsed(f) = <<Header>> \o Tail(Parsed(f))
         /\ Distinct(Tail(Parsed(f)))
         /\ RootedLines(f.lines) => Rooted(Tail(Parsed(f)))
<1> DEFINE L == f.lines
           p == Parsed(f)
           E == Tail(p)
<1>1. PICK h : /\ h \in [1..Len(p) -> 1..Len(L)]
               /\ \A i \in 1..Len(p) : L[h[i]] # Garbage /\ p[i] = L[h[i]]
               /\ \A i, j \in 1..Len(p) : i < j => h[i] < h[j]
               /\ \A k \in 1..Len(L) : L[k] # Garbage => \E i \in 1..Len(p) : h[i] = k
  BY ParsedPlaces
<1>2. p \in Seq(T) /\ p # <<>> /\ Head(p) = Header /\ L \in Seq(T)
  BY ParsedPlaces DEF IsSessionFile
<1>2a. DistinctLines(L)
  OBVIOUS
<1> HIDE DEF p, L
<1>3. /\ E \in Seq(T) /\ Len(E) \in Nat /\ Len(p) = Len(E) + 1 /\ p[1] = Header
      /\ \A i \in 1..Len(E) : E[i] = p[i + 1]
  BY <1>2
<1>4. p = <<Header>> \o E
  BY <1>2, <1>3
<1> HIDE DEF E
<1>5. /\ \A i \in 1..Len(E) : i + 1 \in 1..Len(p)
      /\ 1 \in 1..Len(p)
  BY <1>3
<1>6. ASSUME NEW i \in 1..Len(p), NEW j \in 1..Len(p), p[i].id = p[j].id PROVE i = j
  <2>1. h[i] \in 1..Len(L) /\ h[j] \in 1..Len(L)
    BY <1>1
  <2>2. L[h[i]].id = L[h[j]].id /\ L[h[i]] # Garbage /\ L[h[j]] # Garbage
    BY <1>1, <1>6
  <2>3. h[i] = h[j]
    BY <1>2a, <2>1, <2>2 DEF DistinctLines
  <2>4. i < j => h[i] < h[j]
    BY <1>1
  <2>5. j < i => h[j] < h[i]
    BY <1>1
  <2> QED
    BY <2>1, <2>3, <2>4, <2>5
<1>7. Distinct(E)
  <2>1. ASSUME NEW i \in 1..Len(E), E[i].id = 0 PROVE FALSE
    <3>1. p[i + 1].id = p[1].id
      BY <1>3, <2>1, SpecialLines
    <3>2. i + 1 = 1
      BY <1>5, <1>6, <3>1
    <3> QED
      BY <3>2
  <2>2. ASSUME NEW i \in 1..Len(E), NEW j \in 1..Len(E), E[i].id = E[j].id PROVE i = j
    <3>1. p[i + 1].id = p[j + 1].id
      BY <1>3, <2>2
    <3>2. i + 1 = j + 1
      BY <1>5, <1>6, <3>1
    <3> QED
      BY <3>2
  <2> QED
    BY <2>1, <2>2 DEF Distinct
<1>8. ASSUME RootedLines(L) PROVE Rooted(E)
  <2> SUFFICES ASSUME NEW i \in 1..Len(E), E[i].parent # 0
               PROVE  \E k \in 1..(i - 1) : E[k].id = E[i].parent
    BY DEF Rooted
  <2>1. h[i + 1] \in 1..Len(L) /\ L[h[i + 1]] # Garbage /\ L[h[i + 1]] = E[i]
    BY <1>1, <1>3, <1>5
  <2>2. PICK k \in 1..(h[i + 1] - 1) : L[k] # Garbage /\ L[k].id = E[i].parent
    BY <1>8, <2>1 DEF RootedLines
  <2>3. k \in 1..Len(L) /\ k < h[i + 1]
    BY <2>1
  <2>4. PICK m \in 1..Len(p) : h[m] = k
    BY <1>1, <2>2, <2>3
  <2>5. m < i + 1
    <3>1. i + 1 < m => h[i + 1] < h[m]
      BY <1>1, <1>5
    <3>2. h[i + 1] \in Nat /\ k \in Nat
      BY <2>1
    <3>3. ~(i + 1 < m)
      BY <2>3, <2>4, <3>1, <3>2
    <3>4. m # i + 1
      BY <2>3, <2>4, <3>2
    <3> QED
      BY <1>3, <3>3, <3>4
  <2>6. p[m].id = E[i].parent
    BY <1>1, <2>2, <2>4
  <2>7. m # 1
    BY <1>3, <2>6, SpecialLines
  <2>8. m - 1 \in 1..Len(E) /\ m - 1 \in 1..(i - 1) /\ (m - 1) + 1 = m
    BY <1>3, <2>5, <2>7
  <2>9. E[m - 1] = p[m]
    BY <1>3, <2>8
  <2> QED
    BY <2>6, <2>8, <2>9
<1> QED
  BY <1>3, <1>4, <1>7, <1>8 DEF E, p, L

-----------------------------------------------------------------------------
(* Writing.                                                                *)

\* One entry is appended to a file whose last line is whole, or is open and spoilt.
LEMMA WrittenOne ==
  ASSUME NEW T, NEW f \in [exists : BOOLEAN, lines : Seq(T), open : BOOLEAN], NEW e \in T,
         Garbage \in T, f.open => f.lines # <<>>
  PROVE  /\ Written(f, <<e>>) \in [exists : BOOLEAN, lines : Seq(T), open : BOOLEAN]
         /\ Written(f, <<e>>).exists /\ ~Written(f, <<e>>).open
         /\ ~f.open => Written(f, <<e>>).lines = Append(f.lines, e)
         /\ f.open => Written(f, <<e>>).lines = Append(Front(f.lines), Garbage)
<1>1. <<e>> # <<>> /\ Tail(<<e>>) = <<>> /\ f.lines \in Seq(T)
  OBVIOUS
<1> DEFINE L == IF f.open THEN Append(Front(f.lines), Garbage) \o Tail(<<e>>)
                ELSE f.lines \o <<e>>
<1>2. Written(f, <<e>>) = [exists |-> TRUE, open |-> FALSE, lines |-> L]
  BY <1>1 DEF Written
<1>3. f.open => Front(f.lines) \in Seq(T)
  BY <1>1 DEF Front
<1>4. /\ f.open => L = Append(Front(f.lines), Garbage)
      /\ ~f.open => L = Append(f.lines, e)
      /\ L \in Seq(T)
  <2>1. CASE f.open
    <3> DEFINE x == Append(Front(f.lines), Garbage)
    <3>1. x \in Seq(T) /\ L = x \o Tail(<<e>>)
      BY <1>3, <2>1
    <3> HIDE DEF x, L
    <3>2. L = x
      BY <1>1, <3>1
    <3> QED
      BY <2>1, <3>1, <3>2 DEF x
  <2>2. CASE ~f.open
    <3>1. L = f.lines \o <<e>>
      BY <2>2
    <3> HIDE DEF L
    <3>2. L = Append(f.lines, e)
      BY <1>1, <3>1
    <3>3. L \in Seq(T)
      BY <1>1, <3>2
    <3> QED
      BY <2>2, <3>2, <3>3
  <2> QED
    BY <2>1, <2>2
<1> DEFINE w == Written(f, <<e>>)
<1>5. w = [exists |-> TRUE, open |-> FALSE, lines |-> L]
  BY <1>2
<1> HIDE DEF L, w
<1>6. w.exists /\ ~w.open /\ w.lines = L
  BY <1>5
<1>7. w \in [exists : BOOLEAN, lines : Seq(T), open : BOOLEAN]
  BY <1>4, <1>5
<1> QED
  BY <1>4, <1>6, <1>7 DEF w

\* The first write to a session's file.
LEMMA WrittenNew ==
  ASSUME NEW T, NEW L \in Seq(T)
  PROVE  Written(NoFile, L) = [exists |-> TRUE, open |-> FALSE, lines |-> L]
<1>1. CASE L = <<>>
  <2>1. Written(NoFile, L) = [NoFile EXCEPT !.exists = TRUE]
    BY <1>1 DEF Written
  <2> QED
    BY <1>1, <2>1 DEF NoFile
<1>2. CASE L # <<>>
  <2>1. Written(NoFile, L) = [exists |-> TRUE, open |-> FALSE, lines |-> <<>> \o L]
    BY <1>2 DEF Written, NoFile
  <2> QED
    BY <2>1
<1> QED
  BY <1>1, <1>2

\* A first write that breaks off leaves the first lines, and perhaps half of the next.
BrokenOff(g, L) ==
  /\ Len(g.lines) <= Len(L)
  /\ g.open => g.lines # <<>>
  /\ \A i \in 1..Len(g.lines) :
       g.lines[i] = L[i] \/ (g.lines[i] = Garbage /\ i = Len(g.lines))

LEMMA PartlyNew ==
  ASSUME NEW T, Garbage \in T, NEW L \in Seq(T), NEW g \in Partly(NoFile, L)
  PROVE  /\ g \in [exists : BOOLEAN, lines : Seq(T), open : BOOLEAN]
         /\ g.exists /\ BrokenOff(g, L)
<1>1. PICK k \in 0..(Len(L) - 1) :
        \/ g = Written(NoFile, SubSeq(L, 1, k))
        \/ g \in Torn(Written(NoFile, SubSeq(L, 1, k)), L[k + 1])
  BY DEF Partly
<1> DEFINE M == SubSeq(L, 1, k)
           f == Written(NoFile, M)
<1>2. M \in Seq(T) /\ Len(M) = k /\ (\A i \in 1..k : M[i] = L[i]) /\ k + 1 \in 1..Len(L)
  OBVIOUS
<1>3. g = f \/ g \in Torn(f, L[k + 1])
  BY <1>1
<1> HIDE DEF M
<1>4. f = [exists |-> TRUE, open |-> FALSE, lines |-> M]
  BY <1>2, WrittenNew
<1> HIDE DEF f
<1>5. CASE g = f
  BY <1>2, <1>4, <1>5 DEF BrokenOff
<1>6. CASE g \in Torn(f, L[k + 1])
  <2>1. PICK l \in {L[k + 1], Garbage} : g = [Written(f, <<l>>) EXCEPT !.open = TRUE]
    BY <1>6 DEF Torn
  <2>2. l \in T /\ L[k + 1] \in T
    BY <1>2
  <2> DEFINE w == Written(f, <<l>>)
  <2>3. /\ f \in [exists : BOOLEAN, lines : Seq(T), open : BOOLEAN]
        /\ ~f.open /\ f.lines = M
    BY <1>2, <1>4
  <2>4. /\ w \in [exists : BOOLEAN, lines : Seq(T), open : BOOLEAN]
        /\ w.exists /\ w.lines = Append(M, l)
    BY <2>2, <2>3, WrittenOne
  <2>5. g = [w EXCEPT !.open = TRUE]
    BY <2>1
  <2> HIDE DEF w
  <2>6. /\ g \in [exists : BOOLEAN, lines : Seq(T), open : BOOLEAN]
        /\ g.exists /\ g.lines = Append(M, l)
    BY <2>4, <2>5
  <2>7. Len(g.lines) = k + 1 /\ g.lines # <<>> /\ g.lines[k + 1] = l
        /\ \A i \in 1..k : g.lines[i] = L[i]
    BY <1>2, <2>2, <2>6
  <2>8. \A i \in 1..(k + 1) : i \in 1..k \/ i = k + 1
    OBVIOUS
  <2>9. \A i \in 1..Len(g.lines) :
          g.lines[i] = L[i] \/ (g.lines[i] = Garbage /\ i = Len(g.lines))
    BY <2>1, <2>7, <2>8
  <2> QED
    BY <1>2, <2>6, <2>7, <2>9 DEF BrokenOff
<1> QED
  BY <1>3, <1>5, <1>6

\* An append that breaks off leaves the file as it was, or an open line behind it, or has
\* spoilt the line that was open.
LEMMA PartlyOne ==
  ASSUME NEW T, Garbage \in T, NEW e \in T,
         NEW f \in [exists : BOOLEAN, lines : Seq(T), open : BOOLEAN],
         f.open => f.lines # <<>>, NEW g \in Partly(f, <<e>>)
  PROVE  /\ g \in [exists : BOOLEAN, lines : Seq(T), open : BOOLEAN] /\ g.exists
         /\ \/ g.lines = f.lines /\ g.open = f.open
            \/ ~f.open /\ g.open /\ \E l \in {e, Garbage} : g.lines = Append(f.lines, l)
            \/ f.open /\ g.open /\ g.lines = Append(Front(f.lines), Garbage)
<1>1. PICK k \in 0..(Len(<<e>>) - 1) :
        \/ g = Written(f, SubSeq(<<e>>, 1, k))
        \/ g \in Torn(Written(f, SubSeq(<<e>>, 1, k)), <<e>>[k + 1])
  BY DEF Partly
<1>2. k = 0 /\ SubSeq(<<e>>, 1, k) = <<>> /\ <<e>>[k + 1] = e
  <2>1. k = 0
    BY <1>1
  <2> QED
    BY <2>1
<1> DEFINE c == [f EXCEPT !.exists = TRUE]
<1>3. Written(f, <<>>) = c
  BY DEF Written
<1>4. g = c \/ g \in Torn(c, e)
  BY <1>1, <1>2, <1>3
<1>5. /\ c \in [exists : BOOLEAN, lines : Seq(T), open : BOOLEAN]
      /\ c.exists /\ c.lines = f.lines /\ c.open = f.open
  OBVIOUS
<1> HIDE DEF c
<1>6. CASE g = c
  BY <1>5, <1>6
<1>7. CASE g \in Torn(c, e)
  <2>1. PICK l \in {e, Garbage} : g = [Written(c, <<l>>) EXCEPT !.open = TRUE]
    BY <1>7 DEF Torn
  <2> DEFINE w == Written(c, <<l>>)
  <2>2. l \in T
    OBVIOUS
  <2>3. /\ w \in [exists : BOOLEAN, lines : Seq(T), open : BOOLEAN] /\ w.exists
        /\ ~c.open => w.lines = Append(c.lines, l)
        /\ c.open => w.lines = Append(Front(c.lines), Garbage)
    BY <1>5, <2>2, WrittenOne
  <2>4. g = [w EXCEPT !.open = TRUE]
    BY <2>1
  <2> HIDE DEF w
  <2>5. /\ g \in [exists : BOOLEAN, lines : Seq(T), open : BOOLEAN] /\ g.exists /\ g.open
        /\ g.lines = w.lines
    BY <2>3, <2>4
  <2> QED
    BY <1>5, <2>1, <2>3, <2>5
<1> QED
  BY <1>4, <1>6, <1>7

\* What an append may make of the lines of a file.
Grown(f, g, e) ==
  \/ g.lines = f.lines /\ g.open = f.open
  \/ ~f.open /\ \E l \in {e, Garbage} : g.lines = Append(f.lines, l)
  \/ f.open /\ g.lines = Append(Front(f.lines), Garbage)

\* An append, broken off or not, leaves a whole file whole and spoils no line that counts.
LEMMA GrownFile ==
  ASSUME NEW n \in Nat, NEW f \in FilesOf(n), Whole(f), NEW e \in EntriesOf(n + 1),
         e.id = n + 1, NEW g \in FilesOf(n + 1), g.exists, Grown(f, g, e)
  PROVE  /\ Whole(g)
         /\ \A A : Keeps(f, A) => Keeps(g, A)
         /\ ~f.open /\ RootedLines(f.lines)
              /\ (e.parent = 0 \/ \E k \in 1..Len(f.lines) :
                                   f.lines[k] # Garbage /\ f.lines[k].id = e.parent)
              => RootedLines(g.lines)
<1> DEFINE L == f.lines
           M == g.lines
<1>1. /\ L \in Seq(EntriesOf(n)) /\ M \in Seq(EntriesOf(n + 1)) /\ Len(L) \in Nat
      /\ f.open \in BOOLEAN /\ g.open \in BOOLEAN
      /\ DistinctLines(L) /\ (f.open => L # <<>>)
  BY DEF FilesOf, Whole
<1>2. \A i \in 1..Len(L) : L[i].id \in 0..n
  <2>1. \A i \in 1..Len(L) : L[i] \in EntriesOf(n)
    BY <1>1
  <2> QED
    BY <2>1, EntryFields
<1>3. e # Garbage
  BY SpecialLines
<1>4. \/ M = L /\ g.open = f.open
      \/ ~f.open /\ \E l \in {e, Garbage} : M = Append(L, l)
      \/ f.open /\ M = Append(Front(L), Garbage)
  BY DEF Grown
<1>5. \A A : Keeps(f, A) <=>
        \A a \in A : a.id # 0 /\ \E i \in 1..Len(L) : L[i] = a /\ (f.open => i < Len(L))
  BY DEF Keeps
<1>6. \A A : Keeps(g, A) <=>
        \A a \in A : a.id # 0 /\ \E i \in 1..Len(M) : M[i] = a /\ (g.open => i < Len(M))
  BY DEF Keeps
<1>7. Whole(g) <=> (g.open => M # <<>>) /\ DistinctLines(M)
  BY DEF Whole
<1>8. RootedLines(f.lines) <=> RootedLines(L)
  OBVIOUS
<1> HIDE DEF L, M
<1>9. CASE M = L /\ g.open = f.open
  BY <1>1, <1>5, <1>6, <1>7, <1>9 DEF L, M
<1>10. CASE ~f.open /\ \E l \in {e, Garbage} : M = Append(L, l)
  <2>1. PICK l \in {e, Garbage} : M = Append(L, l)
    BY <1>10
  <2>2. /\ Len(M) = Len(L) + 1 /\ M[Len(L) + 1] = l /\ M # <<>>
        /\ \A i \in 1..Len(L) : M[i] = L[i]
        /\ \A i \in 1..Len(M) : i \in 1..Len(L) \/ i = Len(L) + 1
    BY <1>1, <2>1
  <2>3. DistinctLines(M)
    <3>1. \A i \in 1..Len(L) : L[i].id # e.id
      BY <1>2
    <3>2. ASSUME NEW i \in 1..Len(M), NEW j \in 1..Len(M), M[i] # Garbage, M[j] # Garbage,
                 M[i].id = M[j].id
          PROVE  i = j
      <4>1. CASE i \in 1..Len(L) /\ j \in 1..Len(L)
        BY <1>1, <2>2, <3>2, <4>1 DEF DistinctLines
      <4>2. CASE i \in 1..Len(L) /\ j = Len(L) + 1
        BY <2>1, <2>2, <3>1, <3>2, <4>2
      <4>3. CASE i = Len(L) + 1 /\ j \in 1..Len(L)
        BY <2>1, <2>2, <3>1, <3>2, <4>3
      <4> QED
        BY <2>2, <4>1, <4>2, <4>3
    <3> QED
      BY <3>2 DEF DistinctLines
  <2>4. ASSUME NEW A, Keeps(f, A) PROVE Keeps(g, A)
    <3> SUFFICES ASSUME NEW a \in A
                 PROVE  a.id # 0 /\ \E i \in 1..Len(M) : M[i] = a /\ (g.open => i < Len(M))
      BY <1>6
    <3>1. a.id # 0
      BY <1>5, <2>4
    <3>2. PICK i \in 1..Len(L) : L[i] = a
      BY <1>5, <2>4
    <3>3. i \in 1..Len(M) /\ i < Len(M) /\ M[i] = a
      BY <1>1, <2>2, <3>2
    <3> QED
      BY <3>1, <3>3
  <2>5. ASSUME RootedLines(L),
               e.parent = 0 \/ \E k \in 1..Len(L) : L[k] # Garbage /\ L[k].id = e.parent
        PROVE  RootedLines(M)
    <3> SUFFICES ASSUME NEW i \in 1..Len(M), M[i] # Garbage, M[i].parent # 0
                 PROVE  \E k \in 1..(i - 1) : M[k] # Garbage /\ M[k].id = M[i].parent
      BY DEF RootedLines
    <3>1. CASE i \in 1..Len(L)
      <4>1. PICK k \in 1..(i - 1) : L[k] # Garbage /\ L[k].id = L[i].parent
        BY <2>2, <2>5, <3>1 DEF RootedLines
      <4>2. k \in 1..Len(L)
        BY <1>1, <3>1
      <4> QED
        BY <2>2, <3>1, <4>1, <4>2
    <3>2. CASE i = Len(L) + 1
      <4>1. M[i] = e
        BY <2>1, <2>2, <3>2
      <4>2. PICK k \in 1..Len(L) : L[k] # Garbage /\ L[k].id = e.parent
        BY <2>5, <4>1
      <4>3. k \in 1..(i - 1)
        BY <1>1, <3>2
      <4> QED
        BY <2>2, <4>1, <4>2, <4>3
    <3> QED
      BY <2>2, <3>1, <3>2
  <2> QED
    BY <1>7, <2>2, <2>3, <2>4, <2>5 DEF L, M
<1>11. CASE f.open /\ M = Append(Front(L), Garbage)
  <2> DEFINE F == Front(L)
  <2>2. Len(L) \in Nat \ {0}
    BY <1>1, <1>11
  <2>3. F \in Seq(EntriesOf(n)) /\ Len(F) = Len(L) - 1 /\ \A i \in 1..Len(F) : F[i] = L[i]
    BY <1>1, <1>11, FrontOf
  <2>4. M = Append(F, Garbage)
    BY <1>11
  <2> HIDE DEF F
  <2>5. /\ Len(M) = Len(L) /\ M[Len(L)] = Garbage /\ M # <<>>
        /\ \A i \in 1..(Len(L) - 1) : M[i] = L[i]
        /\ \A i \in 1..Len(M) : i \in 1..(Len(L) - 1) \/ i = Len(L)
    BY <1>1, <2>2, <2>3, <2>4
  <2>6. 1..(Len(L) - 1) \subseteq 1..Len(L)
    BY <2>2
  <2>7. DistinctLines(M)
    BY <1>1, <2>5, <2>6 DEF DistinctLines
  <2>8. ASSUME NEW A, Keeps(f, A) PROVE Keeps(g, A)
    <3> SUFFICES ASSUME NEW a \in A
                 PROVE  a.id # 0 /\ \E i \in 1..Len(M) : M[i] = a /\ (g.open => i < Len(M))
      BY <1>6
    <3>1. a.id # 0
      BY <1>5, <2>8
    <3>2. PICK i \in 1..Len(L) : L[i] = a /\ i < Len(L)
      BY <1>5, <1>11, <2>8
    <3>3. i \in 1..Len(M) /\ i < Len(M) /\ M[i] = a
      BY <2>2, <2>5, <3>2
    <3> QED
      BY <3>1, <3>3
  <2> QED
    BY <1>7, <1>11, <2>5, <2>7, <2>8
<1> QED
  BY <1>4, <1>9, <1>10, <1>11

\* The lines of a new file: the header and the entries.
IsFileOf(L, E) == L = <<Header>> \o E

LEMMA NewLines ==
  ASSUME NEW n \in Nat, NEW E \in Seq(EntriesOf(n)), Distinct(E), NEW L, IsFileOf(L, E)
  PROVE  /\ L \in Seq(EntriesOf(n)) /\ Len(L) = Len(E) + 1 /\ L[1] = Header
         /\ \A i \in 1..Len(E) : L[i + 1] = E[i]
         /\ \A i \in 1..Len(L) : L[i] # Garbage
         /\ \A i, j \in 1..Len(L) : L[i].id = L[j].id => i = j
         /\ Rooted(E) => RootedLines(L)
<1>0. L = <<Header>> \o E
  BY DEF IsFileOf
<1>1. /\ L \in Seq(EntriesOf(n)) /\ Len(L) = Len(E) + 1 /\ L[1] = Header
      /\ \A i \in 1..Len(E) : L[i + 1] = E[i]
      /\ Len(E) \in Nat
  BY <1>0, SpecialLines
<1>2. \A i \in 1..Len(L) : i = 1 \/ (i - 1 \in 1..Len(E) /\ L[i] = E[i - 1])
  <2> SUFFICES ASSUME NEW i \in 1..Len(L), i # 1
               PROVE  i - 1 \in 1..Len(E) /\ L[i] = E[i - 1]
    OBVIOUS
  <2>1. i - 1 \in 1..Len(E) /\ (i - 1) + 1 = i
    BY <1>1
  <2> QED
    BY <1>1, <2>1
<1>3. \A i \in 1..Len(E) : E[i].id # 0
  BY DEF Distinct
<1>3a. Header # Garbage /\ Header.id = 0 /\ Garbage.id = 0
  BY SpecialLines
<1>3b. \A i \in 1..Len(L) : i # 1 => L[i].id # 0
  BY <1>2, <1>3
<1>4. ASSUME NEW i \in 1..Len(L) PROVE L[i] # Garbage
  <2>1. CASE i = 1
    BY <1>1, <1>3a, <2>1
  <2>2. CASE i # 1
    BY <1>3a, <1>3b, <2>2
  <2> QED
    BY <2>1, <2>2
<1>5. ASSUME NEW i \in 1..Len(L), NEW j \in 1..Len(L), L[i].id = L[j].id PROVE i = j
  <2>1. i = 1 <=> j = 1
    BY <1>1, <1>3a, <1>3b, <1>5
  <2>2. CASE i # 1
    <3>1. i - 1 \in 1..Len(E) /\ j - 1 \in 1..Len(E) /\ E[i - 1].id = E[j - 1].id
      BY <1>2, <1>5, <2>1, <2>2
    <3>2. i - 1 = j - 1
      BY <3>1 DEF Distinct
    <3> QED
      BY <3>2
  <2> QED
    BY <2>1, <2>2
<1>6. ASSUME Rooted(E) PROVE RootedLines(L)
  <2> SUFFICES ASSUME NEW i \in 1..Len(L), L[i].parent # 0
               PROVE  \E k \in 1..(i - 1) : L[k] # Garbage /\ L[k].id = L[i].parent
    BY DEF RootedLines
  <2>1. i # 1
    BY <1>1, SpecialLines
  <2>2. PICK k \in 1..((i - 1) - 1) : E[k].id = L[i].parent
    BY <1>2, <1>6, <2>1 DEF Rooted
  <2>3. k \in 1..Len(E) /\ k + 1 \in 1..(i - 1) /\ k + 1 \in 1..Len(L)
    BY <1>1
  <2> QED
    BY <1>1, <1>4, <2>2, <2>3
<1> QED
  BY <1>1, <1>4, <1>5, <1>6

\* A new file, also one that breaks off.
LEMMA NewFile ==
  ASSUME NEW n \in Nat, NEW E \in Seq(EntriesOf(n)), Distinct(E), NEW L, IsFileOf(L, E),
         NEW g, g.exists, BrokenOff(g, L), g.lines \in Seq(EntriesOf(n))
  PROVE  Whole(g) /\ (Rooted(E) => RootedLines(g.lines))
<1> DEFINE M == g.lines
<1>1. /\ \A i \in 1..Len(L) : L[i] # Garbage
      /\ \A i, j \in 1..Len(L) : L[i].id = L[j].id => i = j
      /\ L \in Seq(EntriesOf(n))
      /\ Rooted(E) => RootedLines(L)
  BY NewLines
<1>2. /\ Len(M) <= Len(L) /\ (g.open => M # <<>>)
      /\ \A i \in 1..Len(M) : M[i] = L[i] \/ (M[i] = Garbage /\ i = Len(M))
      /\ Len(M) \in Nat /\ Len(L) \in Nat
  BY <1>1 DEF BrokenOff
<1>2a. Whole(g) <=> DistinctLines(M)
  BY <1>2 DEF Whole
<1> HIDE DEF M
<1>3. 1..Len(M) \subseteq 1..Len(L)
  BY <1>2
<1>4. DistinctLines(M)
  BY <1>1, <1>2, <1>3 DEF DistinctLines
<1>5. ASSUME Rooted(E) PROVE RootedLines(M)
  <2> SUFFICES ASSUME NEW i \in 1..Len(M), M[i] # Garbage, M[i].parent # 0
               PROVE  \E k \in 1..(i - 1) : M[k] # Garbage /\ M[k].id = M[i].parent
    BY DEF RootedLines
  <2>1. M[i] = L[i] /\ i \in 1..Len(L)
    BY <1>2, <1>3
  <2>2. PICK k \in 1..(i - 1) : L[k] # Garbage /\ L[k].id = L[i].parent
    BY <1>1, <1>5, <2>1 DEF RootedLines
  <2>3. k \in 1..Len(M) /\ k # Len(M)
    BY <1>2
  <2> QED
    BY <1>2, <2>1, <2>2, <2>3
<1> QED
  BY <1>2a, <1>4, <1>5 DEF M

-----------------------------------------------------------------------------
(* Labels, paths and forks.                                                *)

\* The labels kept in memory follow the labels that are written.
LEMMA LabelsAppend ==
  ASSUME NEW n \in Nat, NEW E \in Seq(EntriesOf(n)), NEW e \in EntriesOf(n)
  PROVE  LabelsOf(Append(E, e)) = Relabelled(LabelsOf(E), e)
<1> DEFINE F == Append(E, e)
           m == Len(E)
           Sets(G, j) == /\ j \in 1..Len(G) /\ G[j].target # 0 /\ G[j].set
                         /\ \A k \in 1..Len(G) : k > j => G[k].target # G[j].target
<1>1. /\ m \in Nat /\ F \in Seq(EntriesOf(n)) /\ Len(F) = m + 1 /\ F[m + 1] = e
      /\ \A i \in 1..m : F[i] = E[i]
  OBVIOUS
<1>2. ASSUME NEW G \in Seq(EntriesOf(n))
      PROVE  \A x : x \in LabelsOf(G) <=> \E j : Sets(G, j) /\ x = G[j].target
  <2>1. LabelsOf(G) = {G[i].target : i \in {j \in DOMAIN G : Sets(G, j)}}
    BY DEF LabelsOf, IsLabel
  <2>2. \A j : Sets(G, j) => j \in DOMAIN G
    OBVIOUS
  <2> HIDE DEF Sets
  <2> QED
    BY <2>1, <2>2
<1>3. \A i : i \in 1..(m + 1) <=> i \in 1..m \/ i = m + 1
  BY <1>1
<1> HIDE DEF F, m
<1>4. ASSUME NEW j \in 1..m PROVE Sets(F, j) <=> Sets(E, j) /\ e.target # E[j].target
  <2>1. m + 1 > j /\ j \in 1..(m + 1) /\ Len(E) = m
    BY <1>1 DEF m
  <2>2. F[j] = E[j]
    BY <1>1
  <2> QED
    BY <1>1, <1>3, <2>1, <2>2
<1>5. Sets(F, m + 1) <=> e.target # 0 /\ e.set
  <2>1. \A k \in 1..(m + 1) : ~(k > m + 1)
    BY <1>1
  <2>2. m + 1 \in 1..(m + 1)
    BY <1>1
  <2> QED
    BY <1>1, <2>1, <2>2
<1>6. /\ \A j : Sets(F, j) => j \in 1..m \/ j = m + 1
      /\ \A j : Sets(E, j) => j \in 1..m /\ E[j].target # 0
  BY <1>1, <1>3 DEF m
<1>7. \A x : x \in LabelsOf(F) <=> \E j : Sets(F, j) /\ x = F[j].target
  BY <1>1, <1>2
<1>8. \A x : x \in LabelsOf(E) <=> \E j : Sets(E, j) /\ x = E[j].target
  BY <1>2
<1> HIDE DEF Sets
<1> DEFINE R == LabelsOf(F)
           K == LabelsOf(E)
<1>9. ASSUME NEW x
      PROVE  x \in R <=> \/ x \in K /\ x # e.target
                         \/ e.target # 0 /\ e.set /\ x = e.target
  <2>1. ASSUME x \in R
        PROVE  (x \in K /\ x # e.target) \/ (e.target # 0 /\ e.set /\ x = e.target)
    <3>1. PICK j : Sets(F, j) /\ x = F[j].target
      BY <1>7, <2>1
    <3>2. CASE j \in 1..m
      <4>1. Sets(E, j) /\ e.target # E[j].target /\ x = E[j].target
        BY <1>1, <1>4, <3>1, <3>2
      <4> QED
        BY <1>8, <4>1
    <3>3. CASE j = m + 1
      BY <1>1, <1>5, <3>1, <3>3
    <3> QED
      BY <1>6, <3>1, <3>2, <3>3
  <2>2. ASSUME x \in K, x # e.target PROVE x \in R
    <3>1. PICK j : Sets(E, j) /\ x = E[j].target
      BY <1>8, <2>2
    <3>2. j \in 1..m
      BY <1>6, <3>1
    <3>3. Sets(F, j) /\ x = F[j].target
      BY <1>1, <1>4, <2>2, <3>1, <3>2
    <3> QED
      BY <1>7, <3>3
  <2>3. ASSUME e.target # 0, e.set, x = e.target PROVE x \in R
    <3>1. Sets(F, m + 1) /\ x = F[m + 1].target
      BY <1>1, <1>5, <2>3
    <3> QED
      BY <1>7, <3>1
  <2> QED
    BY <2>1, <2>2, <2>3
<1>10. 0 \notin K
  BY <1>6, <1>8
<1> HIDE DEF R, K
<1>11. R = Relabelled(K, e)
  <2>1. CASE e.target = 0
    <3>1. Relabelled(K, e) = K
      BY <2>1 DEF Relabelled, IsLabel
    <3>2. \A x : x \in R <=> x \in K
      BY <1>9, <1>10, <2>1
    <3> QED
      BY <3>1, <3>2
  <2>2. CASE e.target # 0 /\ e.set
    <3>1. Relabelled(K, e) = K \cup {e.target}
      BY <2>2 DEF Relabelled, IsLabel
    <3>2. \A x : x \in R <=> x \in K \cup {e.target}
      BY <1>9, <2>2
    <3> QED
      BY <3>1, <3>2
  <2>3. CASE e.target # 0 /\ ~e.set
    <3>1. Relabelled(K, e) = K \ {e.target}
      BY <2>3 DEF Relabelled, IsLabel
    <3>2. \A x : x \in R <=> x \in K \ {e.target}
      BY <1>9, <2>3
    <3> QED
      BY <3>1, <3>2
  <2> QED
    BY <2>1, <2>2, <2>3
<1> QED
  BY <1>11 DEF F, R, K

\* What is selected of entries are some of them, in their order.
LEMMA SelectedEntries ==
  ASSUME NEW T, NEW s \in Seq(T), NEW P, NEW u, u = Selected(s, P)
  PROVE  /\ u \in Seq(T)
         /\ \A i \in 1..Len(u) : \E k \in 1..Len(s) : u[i] = s[k]
         /\ Distinct(s) => Distinct(u)
<1>1. u \in Seq(T)
  BY SelectedPlaces
<1>2. PICK h : Stands(h, s, P, u)
  BY SelectedPlaces
<1>3. /\ \A i \in 1..Len(u) : h[i] \in 1..Len(s) /\ u[i] = s[h[i]]
      /\ \A i, j \in 1..Len(u) : i < j => h[i] < h[j]
  BY <1>2 DEF Stands
<1>4. ASSUME Distinct(s), NEW i \in 1..Len(u), NEW j \in 1..Len(u), u[i].id = u[j].id
      PROVE  i = j
  <2>1. h[i] = h[j] /\ h[i] \in 1..Len(s)
    BY <1>3, <1>4 DEF Distinct
  <2>2. ~(i < j) /\ ~(j < i)
    BY <1>3, <2>1
  <2> QED
    BY <2>2
<1>5. ASSUME Distinct(s), NEW i \in 1..Len(u) PROVE u[i].id # 0
  BY <1>3, <1>5 DEF Distinct
<1> QED
  BY <1>1, <1>3, <1>4, <1>5 DEF Distinct

LEMMA PathEntries ==
  ASSUME NEW T, NEW E \in Seq(T), NEW id, NEW u, u = PathTo(E, id)
  PROVE  /\ u \in Seq(T)
         /\ \A i \in 1..Len(u) : \E k \in 1..Len(E) : u[i] = E[k]
         /\ Distinct(E) => Distinct(u)
<1>1. PICK P : PathTo(E, id) = Selected(E, P)
  BY DEF PathTo
<1> QED
  BY <1>1, SelectedEntries

\* A chain is a path.
LEMMA RechainedEntries ==
  ASSUME NEW n \in Nat, NEW q \in Seq(EntriesOf(n)), Distinct(q), NEW p, p = Rechained(q)
  PROVE  p \in Seq(EntriesOf(n)) /\ Distinct(p) /\ Rooted(p)
<1> DEFINE k == WithoutLabels(q)
<1>1. PICK P : k = Selected(q, P)
  BY DEF WithoutLabels
<1>2. k \in Seq(EntriesOf(n)) /\ Distinct(k)
  BY <1>1, SelectedEntries
<1>3. p = [i \in DOMAIN k |-> [k[i] EXCEPT !.parent = IF i = 1 THEN 0 ELSE k[i-1].id]]
  BY DEF Rechained
<1> HIDE DEF k
<1>3a. Len(k) \in Nat /\ DOMAIN k = 1..Len(k)
  BY <1>2
<1>4. ASSUME NEW i \in 1..Len(k)
      PROVE  /\ p[i] \in EntriesOf(n) /\ p[i].id = k[i].id
             /\ p[i].parent = 0 \/ (i - 1 \in 1..(i - 1) /\ i - 1 \in 1..Len(k)
                                   /\ p[i].parent = k[i - 1].id)
  <2> DEFINE x == IF i = 1 THEN 0 ELSE k[i-1].id
             e == k[i]
  <2>1. p[i] = [e EXCEPT !.parent = x] /\ e \in EntriesOf(n)
    BY <1>2, <1>3, <1>3a
  <2>2. x = 0 \/ (i - 1 \in 1..(i - 1) /\ i - 1 \in 1..Len(k) /\ x = k[i - 1].id)
    BY <1>2
  <2>3. x \in 0..n
    <3>1. ASSUME NEW j \in 1..Len(k) PROVE k[j].id \in 0..n
      BY <1>2, EntryFields
    <3> QED
      BY <2>2, <3>1
  <2> HIDE DEF x, e
  <2>4. p[i] \in EntriesOf(n) /\ p[i].id = e.id /\ p[i].parent = x
    BY <2>1, <2>3 DEF EntriesOf
  <2> QED
    BY <2>2, <2>4 DEF e
<1>5. p \in Seq(EntriesOf(n)) /\ Len(p) = Len(k)
  <2>1. p \in [1..Len(k) -> EntriesOf(n)]
    BY <1>3, <1>3a, <1>4
  <2> QED
    BY <1>3a, <2>1
<1>6. Distinct(p)
  BY <1>2, <1>4, <1>5 DEF Distinct
<1>7. Rooted(p)
  BY <1>4, <1>5 DEF Rooted
<1> QED
  BY <1>5, <1>6, <1>7

\* The labels of a fork hang behind its path, under new ids.
LEMMA LabelEntriesAre ==
  ASSUME count.issued \in Nat, NEW p \in Seq(EntriesOf(count.issued)), NEW l, l = LabelEntries(p)
  PROVE  /\ Len(l) \in Nat /\ l \in Seq(EntriesOf(count.issued + Len(l)))
         /\ \A i \in 1..Len(l) : l[i].id = count.issued + i
         /\ l # <<>> => Len(p) \in 1..Len(p) /\ l[1].parent = p[Len(p)].id
         /\ \A i \in 1..Len(l) : i # 1 => l[i].parent = count.issued + (i - 1)
<1> DEFINE n == count.issued
           b == Labelled(p)
<1>0. n \in Nat /\ p \in Seq(EntriesOf(n))
  OBVIOUS
<1>1. PICK P : b = Selected(p, P)
  BY DEF Labelled
<1>2. b \in Seq(EntriesOf(n)) /\ \A i \in 1..Len(b) : \E k \in 1..Len(p) : b[i] = p[k]
  BY <1>1, SelectedEntries
<1>3. l = [i \in DOMAIN b |->
             [Entry(n + i, IF i = 1 THEN Last(p).id ELSE n + i - 1, "none")
                EXCEPT !.target = b[i].id, !.set = TRUE]]
  BY DEF LabelEntries
<1> HIDE DEF b, n
<1> DEFINE m == Len(b)
<1>4. m \in Nat /\ DOMAIN b = 1..m
  BY <1>2
<1>5. ASSUME NEW i \in 1..m
      PROVE  /\ l[i] \in EntriesOf(n + m) /\ l[i].id = n + i
             /\ i = 1 => Len(p) \in 1..Len(p) /\ l[i].parent = p[Len(p)].id
             /\ i # 1 => l[i].parent = n + (i - 1)
  <2> DEFINE x == IF i = 1 THEN Last(p).id ELSE n + i - 1
             t == b[i].id
  <2>1. l[i] = [Entry(n + i, x, "none") EXCEPT !.target = t, !.set = TRUE]
    BY <1>3, <1>4
  <2>2. Len(p) \in 1..Len(p)
    BY <1>0, <1>2
  <2>3. Last(p).id = p[Len(p)].id
    BY DEF Last
  <2>4. Last(p).id \in 0..n
    BY <1>0, <2>2, <2>3, EntryFields
  <2>5. x \in 0..(n + m)
    BY <1>0, <1>4, <2>4
  <2>6. t \in 0..(n + m)
    <3>1. t \in 0..n
      BY <1>0, <1>2, EntryFields
    <3> HIDE DEF t
    <3> QED
      BY <1>0, <1>4, <3>1
  <2>7. n + i \in 0..(n + m)
    BY <1>0, <1>4
  <2>8. (i = 1 => x = p[Len(p)].id) /\ (i # 1 => x = n + (i - 1))
    BY <1>0, <2>3
  <2> HIDE DEF x, t
  <2>9. l[i] = [id |-> n + i, parent |-> x, msg |-> [role |-> "none"], kept |-> 0, covers |-> {},
                target |-> t, set |-> TRUE]
    BY <2>1 DEF Entry
  <2>10. 0 \in 0..(n + m) /\ {} \in SUBSET (1..(n + m))
    BY <1>0, <1>4
  <2>11. l[i] \in EntriesOf(n + m)
    BY <2>5, <2>6, <2>7, <2>9, <2>10 DEF EntriesOf
  <2>12. l[i].id = n + i /\ l[i].parent = x
    BY <2>9
  <2> QED
    BY <2>2, <2>8, <2>11, <2>12
<1>6. l \in [1..m -> EntriesOf(n + m)]
  BY <1>3, <1>4, <1>5
<1>7. l \in Seq(EntriesOf(n + m)) /\ Len(l) = m
  BY <1>4, <1>6
<1>8. l # <<>> => 1 \in 1..m
  BY <1>4, <1>7
<1> HIDE DEF m
<1> QED
  BY <1>4, <1>5, <1>7, <1>8 DEF n

\* A fork: the chain, and its labels behind it.
IsJoined(E, p, l) == E = p \o l

LEMMA ForkedEntries ==
  ASSUME count.issued \in Nat, NEW p \in Seq(EntriesOf(count.issued)), Distinct(p), Rooted(p),
         NEW l, l = LabelEntries(p), NEW E, IsJoined(E, p, l)
  PROVE  /\ Len(l) \in Nat /\ count.issued + Len(E) - Len(p) = count.issued + Len(l)
         /\ E \in Seq(EntriesOf(count.issued + Len(l)))
         /\ Distinct(E) /\ Rooted(E)
<1> DEFINE n == count.issued
           m == Len(l)
           a == Len(p)
<1>1. /\ m \in Nat /\ l \in Seq(EntriesOf(n + m))
      /\ \A i \in 1..m : l[i].id = n + i
      /\ l # <<>> => a \in 1..a /\ l[1].parent = p[a].id
      /\ \A i \in 1..m : i # 1 => l[i].parent = n + (i - 1)
  BY LabelEntriesAre
<1>2. n \in Nat /\ a \in Nat /\ p \in Seq(EntriesOf(n)) /\ E = p \o l
  BY DEF IsJoined
<1> HIDE DEF n, m
<1>3. p \in Seq(EntriesOf(n + m))
  <2>1. n <= n + m /\ n + m \in Nat
    BY <1>1, <1>2
  <2> QED
    BY <1>2, <2>1, EntriesGrow
<1>3a. \A i \in 1..a : p[i].id \in 0..n
  BY <1>2, EntryFields
<1>4. /\ E \in Seq(EntriesOf(n + m)) /\ Len(E) = a + m
      /\ \A i \in 1..a : E[i] = p[i]
      /\ \A i \in 1..m : E[a + i] = l[i]
  BY <1>1, <1>2, <1>3 DEF m
<1> HIDE DEF a
<1>5. ASSUME NEW i \in 1..Len(E)
      PROVE  i \in 1..a \/ (i - a \in 1..m /\ E[i] = l[i - a] /\ E[i].id = n + (i - a))
  <2>1. CASE i \in 1..a
    BY <2>1
  <2>2. CASE i \notin 1..a
    <3>1. i - a \in 1..m /\ a + (i - a) = i
      BY <1>1, <1>2, <1>4, <2>2
    <3>2. E[i] = l[i - a]
      BY <1>4, <3>1
    <3> QED
      BY <1>1, <3>1, <3>2
  <2> QED
    BY <2>1, <2>2
<1>6. /\ \A i \in 1..a : p[i].id # 0
      /\ \A i, j \in 1..a : p[i].id = p[j].id => i = j
  BY DEF Distinct, a
<1>7. Distinct(E)
  <2>1. ASSUME NEW i \in 1..Len(E) PROVE E[i].id # 0
    <3>1. CASE i \in 1..a
      BY <1>4, <1>6, <3>1
    <3>2. CASE i \notin 1..a
      BY <1>2, <1>5, <3>2
    <3> QED
      BY <3>1, <3>2
  <2>2. ASSUME NEW i \in 1..Len(E), NEW j \in 1..Len(E), E[i].id = E[j].id PROVE i = j
    <3>1. CASE i \in 1..a /\ j \in 1..a
      BY <1>4, <1>6, <2>2, <3>1
    <3>2. CASE i \in 1..a /\ j \notin 1..a
      <4>1. E[i].id \in 0..n /\ E[j].id = n + (j - a) /\ j - a \in 1..m
        BY <1>3a, <1>4, <1>5, <3>2
      <4> QED
        BY <1>1, <1>2, <2>2, <4>1
    <3>3. CASE i \notin 1..a /\ j \in 1..a
      <4>1. E[j].id \in 0..n /\ E[i].id = n + (i - a) /\ i - a \in 1..m
        BY <1>3a, <1>4, <1>5, <3>3
      <4> QED
        BY <1>1, <1>2, <2>2, <4>1
    <3>4. CASE i \notin 1..a /\ j \notin 1..a
      <4>1. E[i].id = n + (i - a) /\ E[j].id = n + (j - a)
        BY <1>5, <3>4
      <4>2. i \in Int /\ j \in Int
        OBVIOUS
      <4>3. n + (i - a) = n + (j - a)
        BY <2>2, <4>1
      <4> QED
        BY <1>2, <4>2, <4>3
    <3> QED
      BY <3>1, <3>2, <3>3, <3>4
  <2> QED
    BY <2>1, <2>2 DEF Distinct
<1>8. Rooted(E)
  <2> SUFFICES ASSUME NEW i \in 1..Len(E), E[i].parent # 0
               PROVE  \E k \in 1..(i - 1) : E[k].id = E[i].parent
    BY DEF Rooted
  <2>1. CASE i \in 1..a
    <3>1. PICK k \in 1..(i - 1) : p[k].id = p[i].parent
      BY <1>4, <2>1 DEF Rooted, a
    <3>2. k \in 1..a
      BY <1>2, <2>1
    <3> QED
      BY <1>4, <2>1, <3>1, <3>2
  <2>2. CASE i \notin 1..a /\ i - a = 1
    <3>1. E[i].parent = p[a].id /\ a \in 1..a
      <4>1. 1 \in 1..m /\ E[i] = l[1]
        BY <1>5, <2>2
      <4>2. l # <<>>
        BY <4>1 DEF m
      <4> QED
        BY <1>1, <4>1, <4>2
    <3>2. a \in 1..(i - 1) /\ E[a] = p[a]
      <4>1. i \in Nat /\ i = a + 1
        BY <1>2, <2>2
      <4>2. a \in 1..(i - 1)
        BY <1>2, <3>1, <4>1
      <4> QED
        BY <1>4, <3>1, <4>2
    <3> QED
      BY <3>1, <3>2
  <2>3. CASE i \notin 1..a /\ i - a # 1
    <3>1. i - a \in 1..m /\ E[i] = l[i - a]
      BY <1>5, <2>3
    <3>2. E[i].parent = n + ((i - a) - 1)
      BY <1>1, <2>3, <3>1
    <3>3. /\ i - 1 \in 1..Len(E) /\ i - 1 \notin 1..a /\ (i - 1) - a = (i - a) - 1
          /\ i - 1 \in 1..(i - 1)
      BY <1>1, <1>2, <1>4, <2>3, <3>1
    <3>4. E[i - 1].id = n + ((i - 1) - a)
      BY <1>5, <3>3
    <3> QED
      BY <3>2, <3>3, <3>4
  <2> QED
    BY <2>1, <2>2, <2>3
<1>9. n + Len(E) - a = n + m
  BY <1>1, <1>2, <1>4
<1> QED
  BY <1>1, <1>4, <1>7, <1>8, <1>9 DEF n, m, a

-----------------------------------------------------------------------------
(* Appending an entry.                                                     *)

LEMMA AppendedEntries ==
  ASSUME NEW n \in Nat, NEW E \in Seq(EntriesOf(n)), Distinct(E), NEW e \in EntriesOf(n + 1),
         e.id = n + 1, NEW F, IsAppended(F, E, e)
  PROVE  /\ F \in Seq(EntriesOf(n + 1)) /\ Distinct(F) /\ e.id \in Ids(F) /\ Last(F) = e
         /\ Rooted(E) /\ e.parent \in Ids(E) \cup {0} => Rooted(F)
<1> DEFINE m == Len(E)
<1>1. F = Append(E, e) /\ n + 1 \in Nat /\ n <= n + 1 /\ m \in Nat
  BY DEF IsAppended
<1>2. E \in Seq(EntriesOf(n + 1))
  BY <1>1, EntriesGrow
<1>3. /\ F \in Seq(EntriesOf(n + 1)) /\ Len(F) = m + 1 /\ F[m + 1] = e
      /\ \A i \in 1..m : F[i] = E[i]
  BY <1>1, <1>2
<1> HIDE DEF m
<1>4. /\ \A i : i \in 1..Len(F) <=> i \in 1..m \/ i = m + 1
      /\ \A i \in 1..m : i # m + 1
  BY <1>1, <1>3
<1>5. \A i \in 1..m : E[i].id \in 1..n
  <2>1. \A i \in 1..m : E[i].id \in 0..n /\ E[i].id # 0
    BY EntryFields DEF Distinct, m
  <2> QED
    BY <2>1
<1>6. Distinct(F)
  <2>1. \A i \in 1..Len(F) : F[i].id # 0
    BY <1>3, <1>4, <1>5
  <2>2. ASSUME NEW i \in 1..Len(F), NEW j \in 1..Len(F), F[i].id = F[j].id PROVE i = j
    <3>1. CASE i \in 1..m /\ j \in 1..m
      BY <1>3, <2>2, <3>1 DEF Distinct, m
    <3>2. CASE i = m + 1 /\ j \in 1..m
      BY <1>3, <1>5, <2>2, <3>2
    <3>3. CASE i \in 1..m /\ j = m + 1
      BY <1>3, <1>5, <2>2, <3>3
    <3> QED
      BY <1>4, <3>1, <3>2, <3>3
  <2> QED
    BY <2>1, <2>2 DEF Distinct
<1>7. e.id \in Ids(F) /\ Last(F) = e
  BY <1>3, <1>4 DEF Ids, Last
<1>8. ASSUME Rooted(E), e.parent \in Ids(E) \cup {0} PROVE Rooted(F)
  <2> SUFFICES ASSUME NEW i \in 1..Len(F), F[i].parent # 0
               PROVE  \E k \in 1..(i - 1) : F[k].id = F[i].parent
    BY DEF Rooted
  <2>1. CASE i \in 1..m
    <3>1. PICK k \in 1..(i - 1) : E[k].id = E[i].parent
      BY <1>3, <1>8, <2>1 DEF Rooted, m
    <3>2. k \in 1..m
      BY <1>1, <2>1
    <3> QED
      BY <1>3, <2>1, <3>1, <3>2
  <2>2. CASE i = m + 1
    <3>1. PICK k \in 1..m : E[k].id = e.parent
      BY <1>3, <1>8, <2>2 DEF Ids, m
    <3>2. k \in 1..(i - 1)
      BY <1>1, <2>2
    <3> QED
      BY <1>3, <2>2, <3>1, <3>2
  <2> QED
    BY <1>4, <2>1, <2>2
<1> QED
  BY <1>3, <1>6, <1>7, <1>8

\* An entry that Add is called with: a new id, below an entry that there is.
Fits(e) ==
  /\ e \in EntriesOf(count.issued + 1) /\ e.id = count.issued + 1
  /\ e.parent \in Ids(session.entries) \cup {0}

LEMMA AppendedIs ==
  ASSUME IInv, NEW e, Fits(e), NEW s, s = Appended(e)
  PROVE  /\ count.issued + 1 \in Nat /\ IsAppended(s.entries, session.entries, e)
         /\ s \in SessionsOf(count.issued + 1)
         /\ s.up = session.up /\ s.flushed = session.flushed /\ s.labels = session.labels
         /\ s.leaf \in Ids(s.entries)
         /\ Distinct(s.entries)
         /\ Rooted(session.entries) => Rooted(s.entries)
<1> DEFINE n == count.issued
           E == session.entries
           F == Append(E, e)
<1>1. /\ n \in Nat /\ session \in SessionsOf(n) /\ Distinct(E)
      /\ e \in EntriesOf(n + 1) /\ e.id = n + 1 /\ e.parent \in Ids(E) \cup {0}
  BY DEF IInv, Typed, Counts, Fits
<1>2. E \in Seq(EntriesOf(n))
  BY <1>1 DEF SessionsOf
<1>3. s = [session EXCEPT !.entries = F, !.leaf = e.id]
  BY DEF Appended
<1>3a. IsAppended(F, E, e)
  BY DEF IsAppended
<1> HIDE DEF n, E, F
<1>4. /\ F \in Seq(EntriesOf(n + 1)) /\ Distinct(F) /\ e.id \in Ids(F)
      /\ Rooted(E) => Rooted(F)
  BY <1>1, <1>2, <1>3a, AppendedEntries
<1>5. e.id \in Nat /\ n + 1 \in Nat
  BY <1>1
<1>6. s \in SessionsOf(n + 1)
  BY <1>1, <1>3, <1>4, <1>5 DEF SessionsOf
<1>7. /\ s.entries = F /\ s.leaf = e.id /\ s.up = session.up /\ s.flushed = session.flushed
      /\ s.labels = session.labels
  BY <1>1, <1>3 DEF SessionsOf
<1> QED
  BY <1>3a, <1>4, <1>5, <1>6, <1>7 DEF n, E

LEMMA ToWriteIs ==
  ASSUME NEW T, NEW s, s.entries \in Seq(T), NEW E \in Seq(T), NEW e \in T, IsAppended(s.entries, E, e),
         s.flushed \in BOOLEAN
  PROVE  /\ s.flushed => ToWrite(s) = <<e>>
         /\ ~s.flushed /\ HasAssistant(s.entries) => IsFileOf(ToWrite(s), s.entries)
         /\ ~s.flushed /\ ~HasAssistant(s.entries) => ToWrite(s) = <<>>
<1>1. s.entries = Append(E, e)
  BY DEF IsAppended
<1>2. Last(s.entries) = e
  BY <1>1 DEF Last
<1> QED
  BY <1>2 DEF ToWrite, IsFileOf

\* The file after an append, or after one that broke off.
LEMMA AddedFile ==
  ASSUME IInv, session.up, NEW e, Fits(e), ToWrite(Appended(e)) # <<>>, CanCreate(session), NEW g,
         g = Written(file, ToWrite(Appended(e))) \/ g \in Partly(file, ToWrite(Appended(e)))
  PROVE  /\ g \in FilesOf(count.issued + 1) /\ Whole(g) /\ Keeps(g, acked)
         /\ ~failed => RootedLines(g.lines)
<1> DEFINE n == count.issued
           T == EntriesOf(n + 1)
           s == Appended(e)
           L == ToWrite(s)
<1>1. /\ n \in Nat /\ n + 1 \in Nat /\ session \in SessionsOf(n) /\ file \in FilesOf(n) /\ Whole(file)
      /\ Keeps(file, acked) /\ Distinct(session.entries)
      /\ e \in T /\ e.id = n + 1 /\ e.parent \in Ids(session.entries) \cup {0}
      /\ failed \in BOOLEAN
      /\ ~failed => RootedLines(file.lines) /\ Synced(session, file)
  BY DEF IInv, Typed, Counts, Fits
<1>2. /\ IsAppended(s.entries, session.entries, e) /\ s \in SessionsOf(n + 1)
      /\ s.flushed = session.flushed /\ Distinct(s.entries)
      /\ Rooted(session.entries) => Rooted(s.entries)
  BY AppendedIs
<1>3. L # <<>> /\ (g = Written(file, L) \/ g \in Partly(file, L))
  OBVIOUS
<1> HIDE DEF s, L
<1>4. /\ s.entries \in Seq(T) /\ session.flushed \in BOOLEAN /\ session.entries \in Seq(EntriesOf(n))
      /\ file \in [exists : BOOLEAN, lines : Seq(EntriesOf(n)), open : BOOLEAN]
      /\ file.lines \in Seq(EntriesOf(n)) /\ file.open \in BOOLEAN
  BY <1>1, <1>2 DEF SessionsOf, FilesOf
<1>5. EntriesOf(n) \subseteq T /\ Seq(EntriesOf(n)) \subseteq Seq(T)
  <2>1. n <= n + 1
    BY <1>1
  <2> QED
    BY <1>1, <2>1, EntriesGrow
<1>6. Garbage \in T
  BY <1>1, SpecialLines
<1> HIDE DEF n
<1>7. /\ s.flushed => L = <<e>>
      /\ ~s.flushed /\ HasAssistant(s.entries) => IsFileOf(L, s.entries)
      /\ ~s.flushed /\ ~HasAssistant(s.entries) => L = <<>>
  <2>1. session.entries \in Seq(T)
    BY <1>4, <1>5
  <2> QED
    BY <1>1, <1>2, <1>4, <2>1, ToWriteIs DEF L
<1> HIDE DEF T
<1>8. CASE session.flushed
  <2>1. L = <<e>>
    BY <1>2, <1>7, <1>8
  <2>2. file \in [exists : BOOLEAN, lines : Seq(T), open : BOOLEAN] /\ (file.open => file.lines # <<>>)
    BY <1>1, <1>4, <1>5 DEF Whole
  <2>3. g \in [exists : BOOLEAN, lines : Seq(T), open : BOOLEAN] /\ g.exists /\ Grown(file, g, e)
    <3>1. CASE g = Written(file, <<e>>)
      BY <1>1, <1>4, <1>6, <2>2, <3>1, WrittenOne DEF Grown
    <3>2. CASE g \in Partly(file, <<e>>)
      BY <1>1, <1>6, <2>2, <3>2, PartlyOne DEF Grown
    <3> QED
      BY <1>3, <2>1, <3>1, <3>2
  <2>4. g \in FilesOf(n + 1)
    BY <2>3 DEF FilesOf, T
  <2>5. /\ Whole(g)
        /\ \A A : Keeps(file, A) => Keeps(g, A)
        /\ ~file.open /\ RootedLines(file.lines)
             /\ (e.parent = 0 \/ \E k \in 1..Len(file.lines) :
                                  file.lines[k] # Garbage /\ file.lines[k].id = e.parent)
             => RootedLines(g.lines)
    BY <1>1, <2>3, <2>4, GrownFile DEF T
  <2>6. ASSUME ~failed
        PROVE  /\ ~file.open /\ RootedLines(file.lines)
               /\ e.parent = 0 \/ \E k \in 1..Len(file.lines) :
                                   file.lines[k] # Garbage /\ file.lines[k].id = e.parent
    <3> DEFINE E == session.entries
               p == Parsed(file)
    <3>1. ~file.open /\ p = <<Header>> \o E
      BY <1>1, <1>8, <2>6 DEF Synced
    <3>2. E \in Seq(EntriesOf(n)) /\ e.parent \in Ids(E) \cup {0}
      BY <1>1, <1>4
    <3>3. \A i \in 1..Len(p) :
            \E k \in 1..Len(file.lines) : file.lines[k] # Garbage /\ p[i] = file.lines[k]
      BY <1>4, ReadLines
    <3> HIDE DEF E, p
    <3>4. /\ Len(p) = Len(E) + 1 /\ Len(E) \in Nat
          /\ \A i \in 1..Len(E) : p[i + 1] = E[i]
      BY <3>1, <3>2
    <3>5. ASSUME NEW i \in 1..Len(E), E[i].id = e.parent
          PROVE  \E k \in 1..Len(file.lines) :
                   file.lines[k] # Garbage /\ file.lines[k].id = e.parent
      <4>1. i + 1 \in 1..Len(p) /\ p[i + 1] = E[i]
        BY <3>4
      <4> QED
        BY <3>3, <3>5, <4>1
    <3>6. e.parent = 0 \/ \E i \in 1..Len(E) : E[i].id = e.parent
      BY <3>2 DEF Ids
    <3> QED
      BY <1>1, <2>6, <3>1, <3>5, <3>6
  <2> QED
    BY <1>1, <2>4, <2>5, <2>6 DEF n
<1>9. CASE ~session.flushed
  <2>1. IsFileOf(L, s.entries)
    BY <1>2, <1>3, <1>7, <1>9
  <2>2. file = NoFile
    BY <1>1, <1>9 DEF CanCreate, Whole
  <2>3. L \in Seq(T) /\ Len(L) \in Nat
    BY <1>1, <1>2, <1>4, <2>1, NewLines DEF T
  <2>4. g \in [exists : BOOLEAN, lines : Seq(T), open : BOOLEAN] /\ g.exists /\ BrokenOff(g, L)
    <3>1. CASE g = Written(NoFile, L)
      <4>1. g = [exists |-> TRUE, open |-> FALSE, lines |-> L]
        BY <2>3, <3>1, WrittenNew
      <4> QED
        BY <2>3, <4>1 DEF BrokenOff
    <3>2. CASE g \in Partly(NoFile, L)
      BY <1>6, <2>3, <3>2, PartlyNew
    <3> QED
      BY <1>3, <2>2, <3>1, <3>2
  <2>5. g \in FilesOf(n + 1) /\ g.lines \in Seq(T)
    BY <2>4 DEF FilesOf, T
  <2>6. Whole(g) /\ (Rooted(s.entries) => RootedLines(g.lines))
    BY <1>1, <1>2, <1>4, <2>1, <2>4, <2>5, NewFile DEF T
  <2>7. Keeps(g, acked)
    BY <1>1, <2>2 DEF Keeps, NoFile
  <2> QED
    BY <1>1, <1>2, <2>5, <2>6, <2>7 DEF n, Synced
<1> QED
  BY <1>4, <1>8, <1>9

\* An entry more in the session is a line more in the file.
LEMMA FileOfAppended ==
  ASSUME NEW T, Header \in T, NEW E \in Seq(T), NEW e \in T, NEW F, IsAppended(F, E, e),
         NEW p, IsFileOf(p, E), NEW q, IsAppended(q, p, e)
  PROVE  IsFileOf(q, F)
<1> DEFINE v == <<Header>> \o F
           m == Len(E)
<1>1. F = Append(E, e) /\ p = <<Header>> \o E /\ q = Append(p, e) /\ m \in Nat
  BY DEF IsAppended, IsFileOf
<1>2. /\ F \in Seq(T) /\ Len(F) = m + 1 /\ F[m + 1] = e /\ \A i \in 1..m : F[i] = E[i]
  BY <1>1
<1>3. /\ p \in Seq(T) /\ Len(p) = m + 1 /\ p[1] = Header /\ \A i \in 1..m : p[i + 1] = E[i]
  BY <1>1
<1>4. /\ q \in Seq(T) /\ Len(q) = m + 2 /\ q[m + 2] = e /\ \A i \in 1..(m + 1) : q[i] = p[i]
  BY <1>1, <1>3
<1>5. /\ v \in Seq(T) /\ Len(v) = m + 2 /\ v[1] = Header /\ \A i \in 1..(m + 1) : v[i + 1] = F[i]
  BY <1>1, <1>2
<1> HIDE DEF v, m
<1>6. ASSUME NEW i \in 1..(m + 2) PROVE q[i] = v[i]
  <2>1. CASE i = 1
    <3>1. 1 \in 1..(m + 1)
      BY <1>1
    <3> QED
      BY <1>3, <1>4, <1>5, <2>1, <3>1
  <2>2. CASE i # 1 /\ i # m + 2
    <3>1. i - 1 \in 1..m /\ i - 1 \in 1..(m + 1) /\ i \in 1..(m + 1) /\ (i - 1) + 1 = i
      BY <1>1, <2>2
    <3>2. q[i] = p[i] /\ p[i] = E[i - 1] /\ v[i] = F[i - 1] /\ F[i - 1] = E[i - 1]
      BY <1>2, <1>3, <1>4, <1>5, <3>1
    <3> QED
      BY <3>2
  <2>3. CASE i = m + 2
    <3>1. m + 1 \in 1..(m + 1) /\ (m + 1) + 1 = m + 2
      BY <1>1
    <3> QED
      BY <1>2, <1>4, <1>5, <2>3, <3>1
  <2> QED
    BY <2>1, <2>2, <2>3
<1>7. q = v
  BY <1>4, <1>5, <1>6, SeqEqual
<1> QED
  BY <1>7 DEF IsFileOf, v

\* What is read of a whole file is in it to stay.
LEMMA ReadIsKept ==
  ASSUME NEW T, NEW f, f.lines \in Seq(T), ~f.open, NEW E \in Seq(T), Distinct(E),
         IsFileOf(Parsed(f), E)
  PROVE  Keeps(f, ToSet(E))
<1> DEFINE p == Parsed(f)
           L == f.lines
<1>1. /\ p = <<Header>> \o E
      /\ \A i \in 1..Len(p) : \E k \in 1..Len(L) : L[k] # Garbage /\ p[i] = L[k]
  BY ReadLines DEF IsFileOf
<1> HIDE DEF p, L
<1>2. /\ Len(p) = Len(E) + 1 /\ Len(E) \in Nat
      /\ \A i \in 1..Len(E) : p[i + 1] = E[i]
  BY <1>1
<1>3. SUFFICES ASSUME NEW i \in 1..Len(E)
               PROVE  E[i].id # 0 /\ \E k \in 1..Len(L) : L[k] = E[i]
  BY DEF Keeps, ToSet, L
<1>4. i + 1 \in 1..Len(p)
  BY <1>2
<1> QED
  BY <1>1, <1>2, <1>4 DEF Distinct

\* An append that returns keeps the file and the session alike, and what it wrote is safe.
LEMMA AddedSynced ==
  ASSUME IInv, session.up, ~failed, NEW e, Fits(e),
         ToWrite(Appended(e)) # <<>> => CanCreate(session),
         NEW r, r = [Appended(e) EXCEPT !.flushed = @ \/ ToWrite(Appended(e)) # <<>>,
                                        !.labels = Relabelled(@, e)],
         NEW g, g = IF ToWrite(Appended(e)) = <<>> THEN file ELSE Written(file, ToWrite(Appended(e)))
  PROVE  /\ Synced(r, g)
         /\ ToWrite(Appended(e)) # <<>> => Keeps(g, ToSet(Appended(e).entries))
<1> DEFINE n == count.issued
           T == EntriesOf(n + 1)
           s == Appended(e)
           L == ToWrite(s)
           E == session.entries
           F == s.entries
<1>1. /\ n \in Nat /\ n + 1 \in Nat /\ session \in SessionsOf(n) /\ file \in FilesOf(n) /\ Whole(file)
      /\ Distinct(E)
      /\ e \in T /\ e.id = n + 1 /\ e.parent \in Ids(E) \cup {0}
      /\ RootedLines(file.lines) /\ Synced(session, file)
  BY DEF IInv, Typed, Counts, Fits
<1>2. /\ IsAppended(F, E, e) /\ s \in SessionsOf(n + 1)
      /\ s.flushed = session.flushed /\ s.labels = session.labels /\ Distinct(F)
      /\ Rooted(E) => Rooted(F)
  BY AppendedIs
<1>3. /\ L # <<>> => CanCreate(session)
      /\ r = [s EXCEPT !.flushed = @ \/ L # <<>>, !.labels = Relabelled(@, e)]
      /\ L = <<>> => g = file
      /\ L # <<>> => g = Written(file, L)
  OBVIOUS
<1> HIDE DEF L, s
<1>4. /\ F \in Seq(T) /\ session.flushed \in BOOLEAN /\ E \in Seq(EntriesOf(n))
      /\ file \in [exists : BOOLEAN, lines : Seq(EntriesOf(n)), open : BOOLEAN]
      /\ file.lines \in Seq(EntriesOf(n)) /\ file.open \in BOOLEAN
  BY <1>1, <1>2 DEF SessionsOf, FilesOf
<1>5. EntriesOf(n) \subseteq T /\ Seq(EntriesOf(n)) \subseteq Seq(T)
  <2>1. n <= n + 1
    BY <1>1
  <2> QED
    BY <1>1, <2>1, EntriesGrow
<1>6. Garbage \in T /\ e # Garbage
  BY <1>1, SpecialLines
<1>7. /\ r.entries = F /\ r.flushed = (s.flushed \/ L # <<>>) /\ r.labels = Relabelled(s.labels, e)
  BY <1>2, <1>3 DEF SessionsOf
<1>8. LabelsOf(F) = Relabelled(LabelsOf(E), e)
  <2>1. E \in Seq(T)
    BY <1>4, <1>5
  <2>2. LabelsOf(Append(E, e)) = Relabelled(LabelsOf(E), e)
    BY <1>1, <2>1, LabelsAppend
  <2>3. F = Append(E, e)
    BY <1>2 DEF IsAppended
  <2> QED
    BY <2>2, <2>3
<1>9. /\ s.flushed => L = <<e>>
      /\ ~s.flushed /\ HasAssistant(F) => IsFileOf(L, F)
      /\ ~s.flushed /\ ~HasAssistant(F) => L = <<>>
  <2>1. E \in Seq(T)
    BY <1>4, <1>5
  <2> QED
    BY <1>1, <1>2, <1>4, <2>1, ToWriteIs DEF L
<1>10. Rooted(F) /\ r.labels = LabelsOf(F)
  BY <1>1, <1>2, <1>7, <1>8 DEF Synced
<1>11. CASE session.flushed
  <2>1. L = <<e>> /\ L # <<>> /\ r.flushed
    <3>1. L = <<e>>
      BY <1>2, <1>9, <1>11
    <3>2. r.flushed
      BY <1>2, <1>7, <1>11
    <3> QED
      BY <3>1, <3>2
  <2>2. /\ file \in [exists : BOOLEAN, lines : Seq(T), open : BOOLEAN]
        /\ ~file.open /\ Parsed(file) = <<Header>> \o E
    BY <1>1, <1>4, <1>5, <1>11 DEF Synced
  <2>3. /\ g \in [exists : BOOLEAN, lines : Seq(T), open : BOOLEAN] /\ ~g.open
        /\ g.lines = Append(file.lines, e)
    <3>1. g = Written(file, <<e>>)
      BY <1>3, <2>1
    <3> QED
      BY <1>1, <1>6, <2>2, <3>1, WrittenOne
  <2>4. IsAppended(Parsed(g), Parsed(file), e)
    <3>1. file.lines \in Seq(T) /\ IsAppended(g.lines, file.lines, e)
      BY <2>2, <2>3 DEF IsAppended
    <3> QED
      BY <1>1, <1>6, <3>1, ParsedAppend
  <2>5. Parsed(g) = <<Header>> \o F
    <3>1. Header \in T /\ E \in Seq(T)
      BY <1>1, <1>4, <1>5, SpecialLines
    <3>2. IsFileOf(Parsed(file), E)
      BY <2>2 DEF IsFileOf
    <3>3. IsFileOf(Parsed(g), F)
      BY <1>1, <1>2, <2>4, <3>1, <3>2, FileOfAppended
    <3> QED
      BY <3>3 DEF IsFileOf
  <2>6. Keeps(g, ToSet(F))
    <3>1. g.lines \in Seq(T) /\ IsFileOf(Parsed(g), F)
      BY <2>3, <2>5 DEF IsFileOf
    <3> QED
      BY <1>2, <1>4, <2>3, <3>1, ReadIsKept
  <2>7. Synced(r, g)
    BY <1>7, <1>10, <2>1, <2>3, <2>5 DEF Synced
  <2> QED
    BY <2>6, <2>7 DEF L, s
<1>12. CASE ~session.flushed /\ HasAssistant(F)
  <2>1. IsFileOf(L, F) /\ ~s.flushed
    BY <1>2, <1>9, <1>12
  <2>2. /\ L \in Seq(T) /\ Len(L) = Len(F) + 1
        /\ \A i \in 1..Len(L) : L[i] # Garbage
    BY <1>1, <1>2, <1>4, <2>1, NewLines
  <2>3. L # <<>>
    BY <1>4, <2>2
  <2>4. file = NoFile
    BY <1>1, <1>3, <1>12, <2>3 DEF CanCreate, Whole
  <2>5. g = [exists |-> TRUE, open |-> FALSE, lines |-> L]
    BY <1>3, <2>2, <2>3, <2>4, WrittenNew
  <2>6. g.lines = L /\ ~g.open /\ g.lines \in Seq(T)
    BY <2>2, <2>5
  <2>7. Parsed(g) = L
    BY <2>2, <2>6, ParsedAll
  <2>8. Keeps(g, ToSet(F))
    BY <1>2, <1>4, <2>1, <2>6, <2>7, ReadIsKept
  <2>9. Synced(r, g)
    BY <1>7, <1>10, <2>1, <2>3, <2>6, <2>7 DEF Synced, IsFileOf
  <2> QED
    BY <2>8, <2>9 DEF L, s
<1>13. CASE ~session.flushed /\ ~HasAssistant(F)
  <2>1. L = <<>> /\ g = file /\ ~r.flushed
    BY <1>2, <1>3, <1>7, <1>9, <1>13
  <2>2. file = NoFile
    BY <1>1, <1>13 DEF Synced
  <2>3. Synced(r, g)
    BY <1>7, <1>10, <1>13, <2>1, <2>2 DEF Synced
  <2> QED
    BY <2>1, <2>3 DEF L, s
<1> QED
  BY <1>4, <1>11, <1>12, <1>13

LEMMA NoSessionFits ==
  ASSUME NEW n \in Nat
  PROVE  /\ NoSession \in SessionsOf(n) /\ NewSession \in SessionsOf(n)
         /\ ~NoSession.up /\ NoSession.entries = <<>> /\ NoSession.leaf = 0
         /\ NewSession.up /\ NewSession.entries = <<>> /\ NewSession.leaf = 0
         /\ ~NewSession.flushed /\ NewSession.labels = {}
         /\ Distinct(<<>>) /\ Rooted(<<>>) /\ LabelsOf(<<>>) = {} /\ ~HasAssistant(<<>>)
<1>1. <<>> \in Seq(EntriesOf(n)) /\ Len(<<>>) = 0 /\ DOMAIN <<>> = {}
  OBVIOUS
<1>2. LabelsOf(<<>>) = {}
  BY <1>1 DEF LabelsOf
<1>3. Distinct(<<>>) /\ Rooted(<<>>) /\ ~HasAssistant(<<>>)
  BY <1>1 DEF Distinct, Rooted, HasAssistant
<1>4. NoSession \in SessionsOf(n)
  <2>1. {} \in SUBSET Nat /\ 0 \in Nat
    OBVIOUS
  <2> QED
    BY <1>1, <2>1 DEF NoSession, SessionsOf
<1>5. /\ ~NoSession.up /\ NoSession.entries = <<>> /\ NoSession.leaf = 0
      /\ ~NoSession.flushed /\ NoSession.labels = {}
  BY DEF NoSession
<1>6. /\ NewSession \in SessionsOf(n) /\ NewSession.up
      /\ NewSession.entries = NoSession.entries /\ NewSession.leaf = NoSession.leaf
      /\ NewSession.flushed = NoSession.flushed /\ NewSession.labels = NoSession.labels
  BY <1>4 DEF NewSession, SessionsOf
<1> QED
  BY <1>2, <1>3, <1>4, <1>5, <1>6

LEMMA AddKeeps ==
  ASSUME IInv, NEW e, Fits(e), NEW counted \in Counts, counted.issued = count.issued + 1,
         Add(e, counted)
  PROVE  IInv'
<1> DEFINE n == count.issued
           s == Appended(e)
           L == ToWrite(s)
<1>1. /\ n \in Nat /\ n + 1 \in Nat /\ n <= n + 1 /\ file \in FilesOf(n) /\ Whole(file)
      /\ Keeps(file, acked) /\ acked \subseteq EntriesOf(n) /\ failed \in BOOLEAN
      /\ e \in EntriesOf(n + 1)
      /\ ~failed => RootedLines(file.lines)
  BY DEF IInv, Typed, Counts, Fits
<1>2. /\ s \in SessionsOf(n + 1) /\ s.up = session.up
      /\ s.leaf \in Ids(s.entries) /\ Distinct(s.entries)
  BY AppendedIs
<1>3. /\ file \in FilesOf(n + 1) /\ acked \subseteq EntriesOf(n + 1)
  BY <1>1, EntriesGrow DEF FilesOf
<1>4. session.up
  BY DEF Add
<1>5. ASSUME L # <<>>, CanCreate(session), NEW g, g = Written(file, L) \/ g \in Partly(file, L)
      PROVE  /\ g \in FilesOf(n + 1) /\ Whole(g) /\ Keeps(g, acked)
             /\ ~failed => RootedLines(g.lines)
  BY <1>4, <1>5, AddedFile
<1>6. [counted EXCEPT !.troubles = @ + 1] \in Counts
      /\ [counted EXCEPT !.troubles = @ + 1].issued = n + 1
  BY DEF Counts
<1> DEFINE r == [s EXCEPT !.flushed = @ \/ L # <<>>, !.labels = Relabelled(@, e)]
           g1 == IF L = <<>> THEN file ELSE Written(file, L)
<1>7. ASSUME ~failed, L # <<>> => CanCreate(session)
      PROVE  Synced(r, g1) /\ (L # <<>> => Keeps(g1, ToSet(s.entries)))
  BY <1>4, <1>7, AddedSynced
<1>8. ASSUME AppendEntry(e, counted) PROVE IInv'
  <2>1. /\ L # <<>> => CanCreate(session)
        /\ session' = r /\ file' = g1 /\ count' = counted /\ failed' = failed
        /\ acked' = IF failed \/ L = <<>> THEN acked ELSE ToSet(s.entries)
    BY <1>8 DEF AppendEntry
  <2>2. /\ r \in SessionsOf(n + 1) /\ r.leaf = s.leaf /\ r.entries = s.entries
    <3>1. e.target \in Nat
      BY <1>1, EntryFields
    <3>2. s.labels \in SUBSET Nat
      BY <1>2 DEF SessionsOf
    <3> DEFINE k == Relabelled(s.labels, e)
               b == (s.flushed \/ L # <<>>)
    <3>3. k \in SUBSET Nat
      BY <3>1, <3>2 DEF Relabelled
    <3>4. r = [s EXCEPT !.flushed = b, !.labels = k] /\ b \in BOOLEAN
      BY <1>2 DEF SessionsOf
    <3> HIDE DEF k, b, r, s
    <3> QED
      BY <1>2, <3>3, <3>4 DEF SessionsOf
  <2>3. /\ g1 \in FilesOf(n + 1) /\ Whole(g1) /\ Keeps(g1, acked)
        /\ ~failed => RootedLines(g1.lines)
    <3>1. CASE L = <<>>
      BY <1>1, <1>3, <3>1
    <3>2. CASE L # <<>>
      BY <1>5, <2>1, <3>2
    <3> QED
      BY <3>1, <3>2
  <2>4. ~failed => Synced(r, g1) /\ (L # <<>> => Keeps(g1, ToSet(s.entries)))
    BY <1>7, <2>1
  <2>5. ToSet(s.entries) \subseteq EntriesOf(n + 1)
    BY <1>2 DEF SessionsOf, ToSet
  <2> HIDE DEF r, g1, L, s, n
  <2>6. acked' \subseteq EntriesOf(n + 1) /\ Keeps(g1, acked')
    <3>1. CASE failed \/ L = <<>>
      BY <1>3, <2>1, <2>3, <3>1
    <3>2. CASE ~(failed \/ L = <<>>)
      BY <2>1, <2>4, <2>5, <3>2
    <3> QED
      BY <3>1, <3>2
  <2>7. count'.issued = n + 1 /\ count' \in Counts
    BY <2>1 DEF n
  <2>8. Typed'
    BY <1>1, <2>1, <2>2, <2>3, <2>6, <2>7 DEF Typed
  <2> QED
    BY <1>2, <2>1, <2>2, <2>3, <2>4, <2>6, <2>8 DEF IInv
<1>9. ASSUME AppendEntryFails(e, counted) PROVE IInv'
  <2>1. /\ L # <<>>
        /\ (file' \in Partly(file, L) /\ CanCreate(session)) \/ file' = file
        /\ session' = s /\ failed' = TRUE /\ acked' = acked
        /\ count' = [counted EXCEPT !.troubles = @ + 1]
    BY <1>9 DEF AppendEntryFails
  <2>2. file' \in FilesOf(n + 1) /\ Whole(file') /\ Keeps(file', acked)
    BY <1>1, <1>3, <1>5, <2>1
  <2> HIDE DEF L, s, n
  <2>3. count'.issued = n + 1 /\ count' \in Counts
    BY <1>6, <2>1
  <2>4. Typed'
    BY <1>2, <1>3, <2>1, <2>2, <2>3 DEF Typed
  <2> QED
    BY <1>2, <2>1, <2>2, <2>4 DEF IInv
<1>10. ASSUME DieAppending(e, counted) PROVE IInv'
  <2>1. /\ L # <<>> /\ CanCreate(session) /\ file' \in Partly(file, L)
        /\ session' = NoSession /\ failed' = failed /\ acked' = acked
        /\ count' = [counted EXCEPT !.troubles = @ + 1]
    BY <1>10 DEF DieAppending
  <2>2. /\ file' \in FilesOf(n + 1) /\ Whole(file') /\ Keeps(file', acked)
        /\ ~failed => RootedLines(file'.lines)
    BY <1>5, <2>1
  <2> HIDE DEF L, s, n
  <2>3. count'.issued = n + 1 /\ count' \in Counts
    BY <1>6, <2>1
  <2>4. /\ session' \in SessionsOf(n + 1) /\ ~session'.up /\ Distinct(session'.entries)
        /\ session'.leaf = 0
    BY <1>1, <2>1, NoSessionFits
  <2>5. Typed'
    BY <1>1, <1>3, <2>1, <2>2, <2>3, <2>4 DEF Typed
  <2> QED
    BY <2>1, <2>2, <2>4, <2>5 DEF IInv
<1> QED
  BY <1>8, <1>9, <1>10 DEF Add

-----------------------------------------------------------------------------
(* The steps.                                                              *)

\* What a session with these entries has in memory.
LEMMA IndexedIs ==
  ASSUME NEW n \in Nat, NEW E \in Seq(EntriesOf(n)), NEW s,
         NEW m \in Nat, s \in SessionsOf(m), NEW r, r = Indexed(s, E)
  PROVE  /\ r \in SessionsOf(n) /\ r.up = s.up /\ r.flushed = s.flushed /\ r.entries = E
         /\ r.labels = LabelsOf(E) /\ r.leaf \in Ids(E) \cup {0}
<1> DEFINE x == IF E = <<>> THEN 0 ELSE Last(E).id
           k == LabelsOf(E)
<1>1. r = [s EXCEPT !.entries = E, !.labels = k, !.leaf = x]
  BY DEF Indexed
<1>2. \A i \in 1..Len(E) : E[i].id \in Nat /\ E[i].target \in Nat
  <2>1. \A i \in 1..Len(E) : E[i].id \in 0..n /\ E[i].target \in 0..n
    BY EntryFields
  <2> QED
    BY <2>1
<1>3. x \in Ids(E) \cup {0} /\ x \in Nat
  <2>1. E # <<>> => Len(E) \in 1..Len(E)
    OBVIOUS
  <2>2. E # <<>> => Last(E).id \in Ids(E) /\ Last(E).id \in Nat
    BY <1>2, <2>1 DEF Last, Ids
  <2> QED
    BY <2>2
<1>4. k \in SUBSET Nat
  BY <1>2 DEF LabelsOf
<1> HIDE DEF x, k
<1>5. r \in SessionsOf(n)
  BY <1>1, <1>3, <1>4 DEF SessionsOf
<1>6. r.entries = E /\ r.labels = k /\ r.leaf = x /\ r.up = s.up /\ r.flushed = s.flushed
  BY <1>1 DEF SessionsOf
<1> QED
  BY <1>3, <1>5, <1>6 DEF k

LEMMA CountIs ==
  ASSUME count \in Counts, NEW n \in Nat,
         NEW what \in {"labels", "compactions", "moves", "forks", "ends"}
  PROVE  /\ Issued(n) \in Counts /\ Issued(n).issued = n
         /\ Count(what, n) \in Counts /\ Count(what, n).issued = n
<1> DEFINE c == Issued(n)
<1>1. c \in Counts /\ c.issued = n
  BY DEF Issued, Counts
<1>2. Count(what, n) = [c EXCEPT ![what] = @ + 1]
  BY DEF Count
<1> HIDE DEF c
<1>3. [c EXCEPT ![what] = @ + 1] \in Counts /\ [c EXCEPT ![what] = @ + 1].issued = n
  BY <1>1 DEF Counts
<1> QED
  BY <1>1, <1>2, <1>3 DEF c

LEMMA InitKeeps == Init => IInv
<1> SUFFICES ASSUME Init PROVE IInv
  OBVIOUS
<1>1. /\ session = NewSession /\ file = NoFile /\ failed = FALSE /\ acked = {}
      /\ count \in Counts /\ count.issued = 0
  BY DEF Init, Counts
<1>2. /\ session \in SessionsOf(0) /\ session.up /\ session.entries = <<>> /\ session.leaf = 0
      /\ ~session.flushed /\ session.labels = LabelsOf(session.entries)
      /\ Distinct(session.entries) /\ Rooted(session.entries) /\ ~HasAssistant(session.entries)
  <2>1. 0 \in Nat
    OBVIOUS
  <2>2. /\ NewSession \in SessionsOf(0) /\ NewSession.up /\ NewSession.entries = <<>>
        /\ NewSession.leaf = 0 /\ ~NewSession.flushed /\ NewSession.labels = {}
        /\ Distinct(<<>>) /\ Rooted(<<>>) /\ LabelsOf(<<>>) = {} /\ ~HasAssistant(<<>>)
    BY <2>1, NoSessionFits
  <2> QED
    BY <1>1, <2>2
<1>3. <<>> \in Seq(EntriesOf(0)) /\ Len(<<>>) = 0
  OBVIOUS
<1>4. file \in FilesOf(0) /\ ~file.exists /\ ~file.open /\ file.lines = <<>>
  BY <1>1, <1>3 DEF NoFile, FilesOf
<1>5. Whole(file) /\ Keeps(file, acked) /\ RootedLines(file.lines)
  BY <1>1, <1>3, <1>4 DEF Whole, Keeps, RootedLines, DistinctLines
<1>6. Typed
  BY <1>1, <1>2, <1>4 DEF Typed
<1> QED
  BY <1>1, <1>2, <1>5, <1>6 DEF IInv, Synced

LEMMA MoveLeafKeeps ==
  ASSUME IInv, NEW id, MoveLeaf(id)
  PROVE  IInv'
<1> DEFINE n == count.issued
           r == [session EXCEPT !.leaf = id]
<1>1. /\ n \in Nat /\ session \in SessionsOf(n) /\ count \in Counts
  BY DEF IInv, Typed, Counts
<1>2. /\ session' = r /\ id \in Ids(session.entries) \cup {0} /\ session.up
      /\ count' = Count("moves", n)
      /\ file' = file /\ failed' = failed /\ acked' = acked
  BY DEF MoveLeaf
<1>3. id \in Nat
  <2>1. session.entries \in Seq(EntriesOf(n))
    BY <1>1 DEF SessionsOf
  <2>2. \A i \in 1..Len(session.entries) : session.entries[i].id \in 0..n
    BY <1>1, <2>1, EntryFields
  <2>3. id = 0 \/ \E i \in 1..Len(session.entries) : id = session.entries[i].id
    BY <1>2, <2>1 DEF Ids
  <2> QED
    BY <1>1, <2>2, <2>3
<1>4. count' \in Counts /\ count'.issued = n
  BY <1>1, <1>2, CountIs
<1> HIDE DEF n, r
<1>5. /\ r \in SessionsOf(n) /\ r.entries = session.entries /\ r.leaf = id /\ r.up = session.up
      /\ r.flushed = session.flushed /\ r.labels = session.labels
  BY <1>1, <1>3 DEF SessionsOf, r
<1>6. Typed'
  BY <1>2, <1>4, <1>5 DEF IInv, Typed, n
<1>7. \A f : Synced(r, f) <=> Synced(session, f)
  BY <1>5 DEF Synced
<1> QED
  BY <1>2, <1>5, <1>6, <1>7 DEF IInv

LEMMA EndKeeps ==
  ASSUME IInv, End
  PROVE  IInv'
<1>1. /\ session' = NoSession /\ file' = file /\ failed' = failed /\ acked' = acked
      /\ count' = Count("ends", count.issued)
      /\ count \in Counts /\ count.issued \in Nat
  BY DEF End, IInv, Typed, Counts
<1>2. count' \in Counts /\ count'.issued = count.issued
  BY <1>1, CountIs
<1>3. /\ session' \in SessionsOf(count.issued) /\ ~session'.up /\ Distinct(session'.entries)
      /\ session'.leaf = 0
  BY <1>1, NoSessionFits
<1>4. Typed'
  BY <1>1, <1>2, <1>3 DEF IInv, Typed
<1> QED
  BY <1>1, <1>3, <1>4 DEF IInv

LEMMA OpenKeeps ==
  ASSUME IInv, Open
  PROVE  IInv'
<1> DEFINE n == count.issued
           E == Tail(Parsed(file))
           flushed == [NewSession EXCEPT !.flushed = TRUE]
<1>1. /\ n \in Nat /\ file \in FilesOf(n) /\ Whole(file) /\ Keeps(file, acked)
      /\ acked \subseteq EntriesOf(n) /\ failed \in BOOLEAN /\ count \in Counts
      /\ ~failed => RootedLines(file.lines)
      /\ failed' = failed /\ acked' = acked /\ count' = count
  BY DEF IInv, Typed, Counts, Open
<1>2. /\ NewSession \in SessionsOf(n) /\ NewSession.up
      /\ NewSession.entries = <<>> /\ NewSession.leaf = 0
      /\ ~NewSession.flushed /\ NewSession.labels = {}
      /\ Distinct(<<>>) /\ Rooted(<<>>) /\ LabelsOf(<<>>) = {} /\ ~HasAssistant(<<>>)
  BY <1>1, NoSessionFits
<1>3. /\ flushed \in SessionsOf(n) /\ flushed.up /\ flushed.flushed
      /\ flushed.entries = <<>> /\ flushed.leaf = 0 /\ flushed.labels = {}
  BY <1>2 DEF SessionsOf
<1>4. /\ file.lines \in Seq(EntriesOf(n)) /\ file.open \in BOOLEAN
      /\ file \in [exists : BOOLEAN, lines : Seq(EntriesOf(n)), open : BOOLEAN]
      /\ Header \in EntriesOf(n) /\ Garbage \in EntriesOf(n) /\ Header # Garbage
  BY <1>1, SpecialLines DEF FilesOf
<1>5. SUFFICES /\ session' \in SessionsOf(n) /\ Distinct(session'.entries)
               /\ session'.leaf \in Ids(session'.entries) \cup {0}
               /\ file' \in FilesOf(n) /\ Whole(file') /\ Keeps(file', acked)
               /\ ~failed => RootedLines(file'.lines) /\ Synced(session', file')
  <2>1. Typed'
    BY <1>1, <1>5 DEF Typed
  <2> QED
    BY <1>1, <1>5, <2>1 DEF IInv
<1> HIDE DEF n, flushed
<1>6. CASE ~file.exists /\ session' = NewSession /\ file' = file
  <2>1. file = NoFile
    BY <1>1, <1>6 DEF Whole
  <2>2. Synced(session', file')
    BY <1>2, <1>6, <2>1 DEF Synced
  <2> QED
    BY <1>1, <1>2, <1>6, <2>2
<1>7. CASE file.lines = <<>> /\ session' = flushed /\ file' = Written(file, <<Header>>)
  <2>1. ~file.open
    BY <1>1, <1>4, <1>7 DEF Whole
  <2>2. /\ file' \in [exists : BOOLEAN, lines : Seq(EntriesOf(n)), open : BOOLEAN]
        /\ file'.exists /\ ~file'.open /\ file'.lines = Append(file.lines, Header)
    BY <1>4, <1>7, <2>1, WrittenOne
  <2>3. file'.lines = <<Header>>
    BY <1>7, <2>2
  <2>4. Len(file'.lines) = 1 /\ file'.lines[1] = Header /\ \A i \in 1..1 : i = 1
    BY <2>3
  <2>5. Whole(file') /\ RootedLines(file'.lines)
    BY <2>2, <2>4, SpecialLines DEF Whole, DistinctLines, RootedLines
  <2>6. Keeps(file', acked)
    <3>1. Len(file.lines) = 0
      BY <1>7
    <3> QED
      BY <1>1, <3>1 DEF Keeps
  <2>7. Parsed(file') = <<Header>>
    <3>1. /\ file'.lines \in Seq(EntriesOf(n))
          /\ \A i \in 1..Len(file'.lines) : file'.lines[i] # Garbage
      BY <1>4, <2>2, <2>4
    <3> QED
      BY <2>3, <3>1, ParsedAll
  <2>8. <<Header>> = <<Header>> \o session'.entries
    BY <1>3, <1>7
  <2>9. Synced(session', file')
    BY <1>2, <1>3, <1>7, <2>2, <2>7, <2>8 DEF Synced
  <2> QED
    BY <1>2, <1>3, <1>7, <2>2, <2>5, <2>6, <2>9 DEF FilesOf
<1>8. CASE IsSessionFile(file) /\ session' = Indexed(flushed, E) /\ file' = [file EXCEPT !.open = FALSE]
  <2>1. /\ E \in Seq(EntriesOf(n)) /\ Parsed(file) = <<Header>> \o E /\ Distinct(E)
        /\ RootedLines(file.lines) => Rooted(E)
    BY <1>1, <1>4, <1>8, OpenedEntries DEF Whole
  <2> HIDE DEF E
  <2>2. /\ session' \in SessionsOf(n) /\ session'.up /\ session'.flushed
        /\ session'.entries = E /\ session'.labels = LabelsOf(E)
        /\ session'.leaf \in Ids(E) \cup {0}
    BY <1>1, <1>3, <1>8, <2>1, IndexedIs DEF n
  <2>3. /\ file' \in FilesOf(n) /\ file'.lines = file.lines /\ ~file'.open
        /\ file'.exists = file.exists
    BY <1>4, <1>8 DEF FilesOf
  <2>4. Parsed(file') = Parsed(file)
    BY <2>3 DEF Parsed
  <2>5. Whole(file')
    <3>1. file.exists
      <4>1. ASSUME ~file.exists PROVE FALSE
        <5>1. file.lines = <<>>
          BY <1>1, <4>1 DEF Whole, NoFile
        <5>2. Parsed(file) = file.lines
          <6>1. \A i \in 1..Len(file.lines) : file.lines[i] # Garbage
            BY <5>1
          <6> QED
            BY <1>4, <6>1, ParsedAll
        <5> QED
          BY <1>8, <5>1, <5>2 DEF IsSessionFile
      <4> QED
        BY <4>1
    <3> QED
      BY <1>1, <2>3, <3>1 DEF Whole
  <2>6. Keeps(file', acked)
    BY <1>1, <2>3 DEF Keeps
  <2>7. ~failed => RootedLines(file'.lines) /\ Synced(session', file')
    BY <1>1, <2>1, <2>2, <2>3, <2>4 DEF Synced
  <2> QED
    BY <2>1, <2>2, <2>3, <2>5, <2>6, <2>7
<1> QED
  BY <1>6, <1>7, <1>8 DEF Open, flushed

LEMMA ForkKeeps ==
  ASSUME IInv, NEW leaf, CreateBranchedSession(leaf)
  PROVE  IInv'
<1> DEFINE n == count.issued
           q == PathTo(session.entries, leaf)
           p == Rechained(q)
           l == LabelEntries(p)
           E == p \o l
           s == Indexed(session, E)
           L == <<Header>> \o E
           counted == Count("forks", n + Len(E) - Len(p))
           m == n + Len(l)
<1>1. /\ n \in Nat /\ session \in SessionsOf(n) /\ Distinct(session.entries) /\ count \in Counts
      /\ session.entries \in Seq(EntriesOf(n))
  BY DEF IInv, Typed, Counts, SessionsOf
<1>2. session.up
  BY DEF CreateBranchedSession
<1>3. \/ /\ file' = IF HasAssistant(E) THEN Written(NoFile, L) ELSE NoFile
         /\ session' = [s EXCEPT !.flushed = HasAssistant(E)]
         /\ failed' = FALSE
         /\ acked' = IF HasAssistant(E) THEN ToSet(E) ELSE {}
         /\ count' = counted
      \/ /\ file' \in Partly(NoFile, L)
         /\ acked' = {}
         /\ \/ session' = s /\ failed' = TRUE
            \/ session' = NoSession /\ failed' = FALSE
         /\ count' = [counted EXCEPT !.troubles = @ + 1]
  BY DEF CreateBranchedSession
<1>4. q \in Seq(EntriesOf(n)) /\ Distinct(q)
  BY <1>1, PathEntries
<1> HIDE DEF q
<1>5. p \in Seq(EntriesOf(n)) /\ Distinct(p) /\ Rooted(p)
  BY <1>1, <1>4, RechainedEntries
<1>6. IsJoined(E, p, l)
  BY DEF IsJoined
<1>7. IsFileOf(L, E)
  BY DEF IsFileOf
<1> HIDE DEF p, l, E, L
<1>8. /\ Len(l) \in Nat /\ n + Len(E) - Len(p) = m /\ E \in Seq(EntriesOf(m))
      /\ Distinct(E) /\ Rooted(E)
  BY <1>1, <1>5, <1>6, ForkedEntries DEF l
<1>9. m \in Nat
  BY <1>1, <1>8
<1>10. counted \in Counts /\ counted.issued = m
  BY <1>1, <1>8, <1>9, CountIs
<1>11. [counted EXCEPT !.troubles = @ + 1] \in Counts /\ [counted EXCEPT !.troubles = @ + 1].issued = m
  <2> HIDE DEF counted, m
  <2> QED
    BY <1>10 DEF Counts
<1> HIDE DEF n, m, counted
<1>12. /\ s \in SessionsOf(m) /\ s.up = session.up /\ s.entries = E
       /\ s.labels = LabelsOf(E) /\ s.leaf \in Ids(E) \cup {0}
  BY <1>1, <1>8, <1>9, IndexedIs
<1> HIDE DEF s
<1>13. /\ L \in Seq(EntriesOf(m)) /\ \A i \in 1..Len(L) : L[i] # Garbage
  BY <1>7, <1>8, <1>9, NewLines
<1>14. Garbage \in EntriesOf(m) /\ EntriesOf(m) # {} /\ <<>> \in Seq(EntriesOf(m))
  BY <1>9, SpecialLines
<1>15. CASE /\ HasAssistant(E) /\ file' = Written(NoFile, L)
            /\ session' = [s EXCEPT !.flushed = TRUE]
            /\ failed' = FALSE /\ acked' = ToSet(E) /\ count' = counted
  <2>1. file' = [exists |-> TRUE, open |-> FALSE, lines |-> L]
    BY <1>13, <1>15, WrittenNew
  <2>2. /\ file' \in FilesOf(m) /\ file'.exists /\ ~file'.open /\ file'.lines = L
    BY <1>13, <2>1 DEF FilesOf
  <2>3. BrokenOff(file', L)
    <3>1. Len(L) \in Nat
      BY <1>13
    <3> QED
      BY <2>2, <3>1 DEF BrokenOff
  <2>4. Whole(file') /\ RootedLines(file'.lines)
    BY <1>7, <1>8, <1>9, <1>13, <2>2, <2>3, NewFile
  <2>5. Parsed(file') = L
    BY <1>13, <2>2, ParsedAll
  <2>6. Keeps(file', ToSet(E))
    BY <1>7, <1>8, <1>13, <2>2, <2>5, ReadIsKept
  <2>7. /\ session' \in SessionsOf(m) /\ session'.entries = E /\ session'.labels = LabelsOf(E)
        /\ session'.leaf \in Ids(E) \cup {0} /\ session'.flushed
    BY <1>12, <1>15 DEF SessionsOf
  <2>8. Synced(session', file')
    BY <1>7, <1>8, <2>2, <2>5, <2>7 DEF Synced, IsFileOf
  <2>9. ToSet(E) \subseteq EntriesOf(m)
    BY <1>8 DEF ToSet
  <2>10. Typed'
    BY <1>10, <1>15, <2>2, <2>7, <2>9 DEF Typed
  <2> QED
    BY <1>8, <1>15, <2>4, <2>6, <2>7, <2>8, <2>10 DEF IInv
<1>16. CASE /\ ~HasAssistant(E) /\ file' = NoFile /\ session' = [s EXCEPT !.flushed = FALSE]
            /\ failed' = FALSE /\ acked' = {} /\ count' = counted
  <2>1. file' \in FilesOf(m) /\ Whole(file') /\ Keeps(file', {}) /\ RootedLines(file'.lines)
    <3>1. file' = NoFile /\ file' \in FilesOf(m)
      BY <1>14, <1>16 DEF NoFile, FilesOf
    <3>2. ~file'.open /\ file'.lines = <<>>
      BY <1>16 DEF NoFile
    <3>3. Len(file'.lines) = 0
      BY <3>2
    <3> QED
      BY <3>1, <3>2, <3>3 DEF Whole, Keeps, DistinctLines, RootedLines
  <2>2. /\ session' \in SessionsOf(m) /\ session'.entries = E /\ session'.labels = LabelsOf(E)
        /\ session'.leaf \in Ids(E) \cup {0} /\ ~session'.flushed
    BY <1>12, <1>16 DEF SessionsOf
  <2>3. Synced(session', file')
    BY <1>8, <1>16, <2>2 DEF Synced
  <2>4. Typed'
    BY <1>10, <1>16, <2>1, <2>2 DEF Typed
  <2> QED
    BY <1>8, <1>16, <2>1, <2>2, <2>3, <2>4 DEF IInv
<1>17. CASE /\ file' \in Partly(NoFile, L) /\ acked' = {}
            /\ \/ session' = s /\ failed' = TRUE
               \/ session' = NoSession /\ failed' = FALSE
            /\ count' = [counted EXCEPT !.troubles = @ + 1]
  <2>1. /\ file' \in [exists : BOOLEAN, lines : Seq(EntriesOf(m)), open : BOOLEAN]
        /\ file'.exists /\ BrokenOff(file', L)
    BY <1>13, <1>14, <1>17, PartlyNew
  <2>2. file' \in FilesOf(m) /\ file'.lines \in Seq(EntriesOf(m))
    BY <2>1 DEF FilesOf
  <2>3. Whole(file') /\ RootedLines(file'.lines)
    BY <1>7, <1>8, <1>9, <2>1, <2>2, NewFile
  <2>4. Keeps(file', {})
    BY DEF Keeps
  <2>5. /\ NoSession \in SessionsOf(m) /\ ~NoSession.up /\ Distinct(NoSession.entries)
        /\ NoSession.leaf = 0
    BY <1>9, NoSessionFits
  <2>6. /\ session' \in SessionsOf(m) /\ Distinct(session'.entries)
        /\ session'.leaf \in Ids(session'.entries) \cup {0}
        /\ failed' \in BOOLEAN /\ (~failed' => ~session'.up)
    BY <1>8, <1>12, <1>17, <2>5
  <2>7. Typed'
    BY <1>11, <1>17, <2>2, <2>6 DEF Typed
  <2> QED
    BY <1>17, <2>3, <2>4, <2>6, <2>7 DEF IInv
<1>18. CASE /\ file' = IF HasAssistant(E) THEN Written(NoFile, L) ELSE NoFile
            /\ session' = [s EXCEPT !.flushed = HasAssistant(E)]
            /\ failed' = FALSE
            /\ acked' = IF HasAssistant(E) THEN ToSet(E) ELSE {}
            /\ count' = counted
  <2>1. HasAssistant(E) \in BOOLEAN
    BY DEF HasAssistant
  <2>2. CASE HasAssistant(E) = TRUE
    BY <1>15, <1>18, <2>2
  <2>3. CASE HasAssistant(E) = FALSE
    BY <1>16, <1>18, <2>3
  <2> QED
    BY <2>1, <2>2, <2>3
<1> QED
  BY <1>3, <1>17, <1>18

\* What entries are added with: a new id, and a place in the tree.
LEMMA EntryFits ==
  ASSUME IInv, NEW parent \in Ids(session.entries) \cup {0},
         NEW role \in Roles \cup {"none", "summary", "branchSummary"}
  PROVE  /\ Fits(Entry(NextId, parent, role))
         /\ \A target \in Ids(session.entries), set \in BOOLEAN :
              Fits([Entry(NextId, parent, role) EXCEPT !.target = target, !.set = set])
         /\ \A kept \in 0..count.issued, covers \in SUBSET (1..count.issued) :
              Fits([Entry(NextId, parent, role) EXCEPT !.kept = kept, !.covers = covers])
<1> DEFINE n == count.issued
           e == Entry(NextId, parent, role)
<1>1. n \in Nat /\ session.entries \in Seq(EntriesOf(n)) /\ NextId = n + 1
  BY DEF IInv, Typed, Counts, SessionsOf, NextId
<1>2. \A id \in Ids(session.entries) : id \in 0..n
  BY <1>1, EntryFields DEF Ids
<1>3. e = [id |-> n + 1, parent |-> parent, msg |-> [role |-> role], kept |-> 0, covers |-> {},
           target |-> 0, set |-> FALSE]
  BY <1>1 DEF Entry
<1> HIDE DEF n, e
<1>4. /\ 0..n \subseteq 0..(n + 1) /\ n + 1 \in 0..(n + 1) /\ 0 \in 0..(n + 1)
      /\ SUBSET (1..n) \subseteq SUBSET (1..(n + 1)) /\ {} \in SUBSET (1..(n + 1))
  BY <1>1
<1>5. parent \in 0..(n + 1)
  BY <1>2, <1>4
<1>6. e \in EntriesOf(n + 1)
  BY <1>3, <1>4, <1>5 DEF EntriesOf
<1>7. e.id = n + 1 /\ e.parent = parent
  BY <1>3
<1>8. ASSUME NEW target \in Ids(session.entries), NEW set \in BOOLEAN
      PROVE  Fits([e EXCEPT !.target = target, !.set = set])
  <2>1. target \in 0..(n + 1)
    BY <1>2, <1>4
  <2> DEFINE f == [e EXCEPT !.target = target, !.set = set]
  <2>2. f \in EntriesOf(n + 1) /\ f.id = e.id /\ f.parent = e.parent
    BY <1>6, <2>1 DEF EntriesOf
  <2> QED
    BY <1>7, <2>2 DEF Fits, n
<1>9. ASSUME NEW kept \in 0..n, NEW covers \in SUBSET (1..n)
      PROVE  Fits([e EXCEPT !.kept = kept, !.covers = covers])
  <2>1. kept \in 0..(n + 1) /\ covers \in SUBSET (1..(n + 1))
    BY <1>4
  <2> DEFINE f == [e EXCEPT !.kept = kept, !.covers = covers]
  <2>2. f \in EntriesOf(n + 1) /\ f.id = e.id /\ f.parent = e.parent
    BY <1>6, <2>1 DEF EntriesOf
  <2> QED
    BY <1>7, <2>2 DEF Fits, n
<1>10. Fits(e)
  BY <1>6, <1>7 DEF Fits, n
<1> QED
  BY <1>8, <1>9, <1>10 DEF e, n

LEMMA AppendingKeeps ==
  ASSUME IInv
  PROVE  /\ \A role \in Roles : AppendMessage(role) => IInv'
         /\ \A target \in Ids(session.entries), set \in BOOLEAN :
              AppendLabelChange(target, set) => IInv'
         /\ \A prep \in Preparations(Branch(session)) : AppendCompaction(prep) => IInv'
         /\ \A id \in Ids(session.entries) \cup {0} : BranchWithSummary(id) => IInv'
<1> DEFINE n == count.issued
           E == session.entries
<1>1. /\ n \in Nat /\ n + 1 \in Nat /\ count \in Counts /\ E \in Seq(EntriesOf(n)) /\ Distinct(E)
      /\ session.leaf \in Ids(E) \cup {0} /\ NextId = n + 1
  BY DEF IInv, Typed, Counts, SessionsOf, NextId
<1>2. /\ Issued(NextId) \in Counts /\ Issued(NextId).issued = n + 1
      /\ \A what \in {"labels", "compactions", "moves"} :
           Count(what, NextId) \in Counts /\ Count(what, NextId).issued = n + 1
  BY <1>1, CountIs
<1>3. ASSUME NEW role \in Roles, AppendMessage(role) PROVE IInv'
  <2>1. Fits(Entry(NextId, session.leaf, role))
    BY <1>1, EntryFits
  <2>2. Add(Entry(NextId, session.leaf, role), Issued(NextId))
    BY <1>3 DEF AppendMessage
  <2> QED
    BY <1>2, <2>1, <2>2, AddKeeps
<1>4. ASSUME NEW target \in Ids(E), NEW set \in BOOLEAN, AppendLabelChange(target, set)
      PROVE  IInv'
  <2> DEFINE e == [Entry(NextId, session.leaf, "none") EXCEPT !.target = target, !.set = set]
             c == Count("labels", NextId)
  <2>1. Fits(e)
    BY <1>1, EntryFits
  <2>2. Add(e, c)
    BY <1>4 DEF AppendLabelChange
  <2>3. c \in Counts /\ c.issued = n + 1
    BY <1>2
  <2> HIDE DEF e, c
  <2> QED
    BY <2>1, <2>2, <2>3, AddKeeps
<1>5. ASSUME NEW prep \in Preparations(Branch(session)), AppendCompaction(prep)
      PROVE  IInv'
  <2> DEFINE q == Branch(session)
             k == prep.kept
             v == prep.covers
             e == [Entry(NextId, session.leaf, "summary") EXCEPT !.kept = k, !.covers = v]
             c == Count("compactions", NextId)
  <2>1. q \in Seq(EntriesOf(n)) /\ Distinct(q)
    BY <1>1, PathEntries DEF Branch
  <2>2. /\ \E i \in 1..Len(q) : k = q[i].id
        /\ \A x \in v : \E i \in 1..Len(q) : x = q[i].id \/ x \in q[i].covers
    BY <2>1, PreparationsName
  <2>2a. Add(e, c)
    BY <1>5 DEF AppendCompaction
  <2>3. c \in Counts /\ c.issued = n + 1
    BY <1>2
  <2> HIDE DEF q, k, v
  <2>4. \A i \in 1..Len(q) : q[i].id \in 0..n /\ q[i].covers \subseteq 1..n
    BY <1>1, <2>1, EntryFields
  <2>4a. \A i \in 1..Len(q) : q[i].id \in 1..n
    <3>1. \A i \in 1..Len(q) : q[i].id # 0
      BY <2>1 DEF Distinct
    <3> QED
      BY <1>1, <2>4, <3>1
  <2>5. k \in 0..n /\ v \in SUBSET (1..n)
    BY <2>2, <2>4, <2>4a
  <2>6. Fits(e)
    BY <1>1, <2>5, EntryFits
  <2> HIDE DEF e, c
  <2> QED
    BY <2>2a, <2>3, <2>6, AddKeeps
<1>6. ASSUME NEW id \in Ids(E) \cup {0}, BranchWithSummary(id) PROVE IInv'
  <2>1. Fits(Entry(NextId, id, "branchSummary"))
    BY EntryFits
  <2>2. Add(Entry(NextId, id, "branchSummary"), Count("moves", NextId))
    BY <1>6 DEF BranchWithSummary
  <2> QED
    BY <1>2, <2>1, <2>2, AddKeeps
<1> QED
  BY <1>3, <1>4, <1>5, <1>6

LEMMA NextKeeps == IInv /\ [Next]_vars => IInv'
<1> SUFFICES ASSUME IInv, [Next]_vars PROVE IInv'
  OBVIOUS
<1>1. ASSUME NEW role \in Roles, AppendMessage(role) PROVE IInv'
  BY <1>1, AppendingKeeps
<1>2. ASSUME NEW target \in Ids(session.entries), NEW set \in BOOLEAN,
             AppendLabelChange(target, set)
      PROVE  IInv'
  BY <1>2, AppendingKeeps
<1>3. ASSUME NEW prep \in Preparations(Branch(session)), AppendCompaction(prep) PROVE IInv'
  BY <1>3, AppendingKeeps
<1>4. ASSUME NEW id \in Ids(session.entries) \cup {0}, MoveLeaf(id) PROVE IInv'
  BY <1>4, MoveLeafKeeps
<1>5. ASSUME NEW id \in Ids(session.entries) \cup {0}, BranchWithSummary(id) PROVE IInv'
  BY <1>5, AppendingKeeps
<1>6. ASSUME NEW id \in Ids(session.entries) \cup {0}, CreateBranchedSession(id) PROVE IInv'
  BY <1>6, ForkKeeps
<1>7. ASSUME End PROVE IInv'
  BY <1>7, EndKeeps
<1>8. ASSUME Open PROVE IInv'
  BY <1>8, OpenKeeps
<1>9. ASSUME UNCHANGED vars PROVE IInv'
  BY <1>9 DEF vars, IInv, Typed
<1> QED
  BY <1>1, <1>2, <1>3, <1>4, <1>5, <1>6, <1>7, <1>8, <1>9 DEF Next

-----------------------------------------------------------------------------
(* The theorems.                                                           *)

LEMMA Invariance == Spec => []IInv
BY InitKeeps, NextKeeps, PTL DEF Spec

\* Entries in memory and in the file name only entries that there were, and no two entries of
\* a session have the same id, which byId and the walk to the root depend on.
THEOREM SessionFileTypeOK == Spec => []TypeOK
<1>1. IInv => TypeOK
  <2> SUFFICES ASSUME IInv PROVE TypeOK
    OBVIOUS
  <2> DEFINE n == count.issued
  <2>1. /\ n \in Nat /\ session.entries \in Seq(EntriesOf(n)) /\ file.lines \in Seq(EntriesOf(n))
        /\ session.leaf \in Ids(session.entries) \cup {0} /\ Distinct(session.entries)
    BY DEF IInv, Typed, Counts, SessionsOf, FilesOf
  <2>2. IdsIssued \cup {0} = 0..n /\ IdsIssued = 1..n
    BY <2>1 DEF IdsIssued
  <2>3. EntriesOf(n) = AnyEntry
    BY <2>2 DEF EntriesOf, AnyEntry
  <2> HIDE DEF n
  <2>4. /\ \A i \in DOMAIN session.entries : session.entries[i] \in AnyEntry
        /\ \A i \in DOMAIN file.lines : file.lines[i] \in AnyEntry
    BY <2>1, <2>3
  <2>5. \A i, j \in DOMAIN session.entries : session.entries[i].id = session.entries[j].id => i = j
    BY <2>1 DEF Distinct
  <2> QED
    BY <2>1, <2>4, <2>5 DEF TypeOK
<1> QED
  BY <1>1, Invariance, PTL

\* As long as no write threw, a reader of the file finds the session that the process works
\* with, and the labels in memory are those a restart would find.
THEOREM SessionFileIsTheSession == Spec => []FileIsTheSession
<1>1. IInv => FileIsTheSession
  BY DEF IInv, Synced, FileIsTheSession
<1> QED
  BY <1>1, Invariance, PTL

\* An entry whose append has returned is read at every later start, whatever is written, fails
\* or dies after it.
THEOREM SessionFileKeepsWhatItAcknowledged == Spec => []AcknowledgedSurvives
<1>1. IInv => AcknowledgedSurvives
  <2> SUFFICES ASSUME IInv, NEW a \in acked PROVE a \in ToSet(Parsed(file))
    BY DEF AcknowledgedSurvives
  <2>1. file.lines \in Seq(EntriesOf(count.issued)) /\ Keeps(file, acked)
    BY DEF IInv, Typed, FilesOf
  <2>2. PICK k \in 1..Len(file.lines) : file.lines[k] = a /\ a.id # 0
    BY <2>1 DEF Keeps
  <2>3. a # Garbage
    BY <2>2 DEF Garbage, Entry
  <2> DEFINE p == Parsed(file)
  <2>4. p \in Seq(EntriesOf(count.issued)) /\ \E i \in 1..Len(p) : p[i] = a
    BY <2>1, <2>2, <2>3, ReadLines
  <2> HIDE DEF p
  <2>5. a \in ToSet(p)
    BY <2>4 DEF ToSet
  <2> QED
    BY <2>5 DEF p
<1> QED
  BY <1>1, Invariance, PTL

\* Every entry of a session hangs on the tree, also after a restart from a file that a dying
\* process has left.
THEOREM SessionFileHasNoOrphans == Spec => []NoOrphans
<1>1. IInv => NoOrphans
  <2> SUFFICES ASSUME IInv, session.up, ~failed, NEW i \in DOMAIN session.entries
               PROVE  session.entries[i].parent \in {0} \cup Ids(SubSeq(session.entries, 1, i - 1))
    BY DEF NoOrphans
  <2> DEFINE E == session.entries
             F == SubSeq(E, 1, i - 1)
  <2>1. E \in Seq(EntriesOf(count.issued)) /\ Rooted(E) /\ i \in 1..Len(E)
    BY DEF IInv, Typed, SessionsOf, Synced
  <2> HIDE DEF E
  <2>2. Len(F) = i - 1 /\ \A k \in 1..(i - 1) : F[k] = E[k]
    BY <2>1
  <2>3. DOMAIN F = 1..(i - 1)
    BY <2>1
  <2> HIDE DEF F
  <2>4. E[i].parent = 0 \/ \E k \in 1..(i - 1) : E[k].id = E[i].parent
    BY <2>1 DEF Rooted
  <2>5. E[i].parent \in {0} \cup Ids(F)
    BY <2>2, <2>3, <2>4 DEF Ids
  <2> QED
    BY <2>5 DEF E, F
<1> QED
  BY <1>1, Invariance, PTL

=============================================================================
