---------------------------- MODULE ListLemmas ----------------------------
(***************************************************************************)
(* What the operations on the scheduler's linked lists (append, unlink,    *)
(* take the first, splice) do to the set of the list's elements, for lists *)
(* without duplicates.                                                     *)
(***************************************************************************)
EXTENDS Lists, SequenceTheorems, TLAPS

\* The members of a list are of the type of the list.
LEMMA MembersType ==
    ASSUME NEW S, NEW s \in Seq(S)
    PROVE  /\ ToSet(s) \subseteq S
           /\ \A i \in 1..Len(s) : s[i] \in ToSet(s)
           /\ \A e \in ToSet(s) : \E i \in 1..Len(s) : s[i] = e
    BY DEF ToSet

\* The empty list has no members and no duplicates.
LEMMA EmptyList ==
    /\ ToSet(<<>>) = {}
    /\ IsInjective(<<>>)
    /\ \A S : <<>> \in Seq(S)
    /\ Len(<<>>) = 0
    BY DEF ToSet, IsInjective

\* A list of one.
LEMMA OneMember ==
    ASSUME NEW S, NEW e \in S
    PROVE  /\ <<e>> \in Seq(S)
           /\ Len(<<e>>) = 1
           /\ ToSet(<<e>>) = {e}
           /\ IsInjective(<<e>>)
    <1>1. <<e>> \in Seq(S) /\ Len(<<e>>) = 1 /\ DOMAIN <<e>> = {1} /\ <<e>>[1] = e
        OBVIOUS
    <1>. QED BY <1>1 DEF ToSet, IsInjective

\* A list without members is empty.
LEMMA NoMembers ==
    ASSUME NEW S, NEW s \in Seq(S)
    PROVE  s = <<>> <=> ToSet(s) = {}
    <1>1. ASSUME s # <<>> PROVE s[1] \in ToSet(s)
        BY <1>1 DEF ToSet
    <1>. QED BY <1>1, EmptyList

\* add_to_list: a new last element.
LEMMA AppendMember ==
    ASSUME NEW S, NEW s \in Seq(S), NEW e \in S
    PROVE  /\ Append(s, e) \in Seq(S)
           /\ Append(s, e) # <<>>
           /\ ToSet(Append(s, e)) = ToSet(s) \cup {e}
           /\ IsInjective(s) /\ e \notin ToSet(s) => IsInjective(Append(s, e))
    <1>1. /\ Append(s, e) \in Seq(S)
          /\ Append(s, e) # <<>>
          /\ Len(Append(s, e)) = Len(s) + 1
          /\ \A i \in 1..Len(s) : Append(s, e)[i] = s[i]
          /\ Append(s, e)[Len(s) + 1] = e
        BY AppendProperties
    <1>2. Len(s) \in Nat /\ DOMAIN s = 1..Len(s) /\ DOMAIN Append(s, e) = 1..(Len(s) + 1)
        BY <1>1
    <1>3. ToSet(Append(s, e)) \subseteq ToSet(s) \cup {e}
        BY <1>1, <1>2 DEF ToSet
    <1>4. ToSet(s) \cup {e} \subseteq ToSet(Append(s, e))
        <2>1. ToSet(s) \subseteq ToSet(Append(s, e))
            BY <1>1, <1>2 DEF ToSet
        <2>2. e \in ToSet(Append(s, e))
            <3>1. Len(s) + 1 \in DOMAIN Append(s, e) BY <1>2
            <3>. QED BY <3>1, <1>1 DEF ToSet
        <2>. QED BY <2>1, <2>2
    <1>5. ASSUME IsInjective(s), e \notin ToSet(s) PROVE IsInjective(Append(s, e))
        BY <1>1, <1>2, <1>5 DEF ToSet, IsInjective
    <1>. QED BY <1>1, <1>3, <1>4, <1>5

\* The first element taken off.
LEMMA HeadMember ==
    ASSUME NEW S, NEW s \in Seq(S), s # <<>>
    PROVE  /\ Head(s) \in S
           /\ Head(s) \in ToSet(s)
           /\ Tail(s) \in Seq(S)
           /\ ToSet(s) = ToSet(Tail(s)) \cup {Head(s)}
           /\ IsInjective(s) => IsInjective(Tail(s)) /\ Head(s) \notin ToSet(Tail(s))
    <1>1. /\ Head(s) = s[1]
          /\ Tail(s) \in Seq(S)
          /\ Len(Tail(s)) = Len(s) - 1
          /\ \A i \in 1..Len(Tail(s)) : Tail(s)[i] = s[i + 1]
        BY HeadTailProperties
    <1>2. Len(s) \in Nat \ {0} /\ DOMAIN s = 1..Len(s) /\ DOMAIN Tail(s) = 1..(Len(s) - 1)
        BY <1>1
    <1>3. Head(s) \in S /\ Head(s) \in ToSet(s)
        BY <1>1, <1>2 DEF ToSet
    <1>4. ToSet(Tail(s)) \subseteq ToSet(s)
        BY <1>1, <1>2 DEF ToSet
    <1>5. ToSet(s) \subseteq ToSet(Tail(s)) \cup {Head(s)}
        <2>1. SUFFICES ASSUME NEW i \in 1..Len(s), i # 1 PROVE s[i] \in ToSet(Tail(s))
            BY <1>1, <1>2 DEF ToSet
        <2>2. i - 1 \in 1..Len(Tail(s)) /\ Tail(s)[i - 1] = s[i]
            BY <1>1, <1>2, <2>1
        <2>. QED BY <2>2, <1>1, MembersType
    <1>6. ASSUME IsInjective(s)
          PROVE  IsInjective(Tail(s)) /\ Head(s) \notin ToSet(Tail(s))
        BY <1>1, <1>2, <1>6 DEF ToSet, IsInjective
    <1>. QED BY <1>1, <1>3, <1>4, <1>5, <1>6

\* The last element taken off.
LEMMA LastMember ==
    ASSUME NEW S, NEW s \in Seq(S), s # <<>>
    PROVE  /\ Last(s) \in S
           /\ Last(s) \in ToSet(s)
           /\ Front(s) \in Seq(S)
           /\ ToSet(s) = ToSet(Front(s)) \cup {Last(s)}
           /\ Len(Front(s)) = Len(s) - 1
    <1>0. Len(s) \in Nat \ {0}
        OBVIOUS
    <1>1. DOMAIN s = 1..Len(s)
        OBVIOUS
    <1>2. /\ Front(s) \in Seq(S)
          /\ Len(Front(s)) = Len(s) - 1
          /\ \A i \in 1..(Len(s) - 1) : Front(s)[i] = s[i]
        <2>1. 1 \in Int /\ Len(s) - 1 \in Int /\ \A i \in 1..(Len(s) - 1) : s[i] \in S
            BY <1>0
        <2>2. /\ SubSeq(s, 1, Len(s) - 1) \in Seq(S)
              /\ Len(SubSeq(s, 1, Len(s) - 1)) = IF 1 <= Len(s) - 1 THEN Len(s) - 1 - 1 + 1 ELSE 0
              /\ \A i \in 1..(Len(s) - 1 - 1 + 1) : SubSeq(s, 1, Len(s) - 1)[i] = s[1 + i - 1]
            BY <2>1, SubSeqProperties
        <2>3. Len(s) - 1 - 1 + 1 = Len(s) - 1 /\ \A i \in Int : 1 + i - 1 = i
            BY <1>0
        <2>4. ~ (1 <= Len(s) - 1) => Len(s) - 1 = 0
            <3>1. \A n \in Nat \ {0} : ~ (1 <= n - 1) => n - 1 = 0 OBVIOUS
            <3>. QED BY <3>1, <1>0
        <2>5. ASSUME NEW i \in 1..(Len(s) - 1) PROVE Front(s)[i] = s[i]
            BY <2>2, <2>3, <2>5 DEF Front
        <2>. QED BY <2>2, <2>3, <2>4, <2>5 DEF Front
    <1>3. Last(s) \in S /\ Last(s) \in ToSet(s)
        BY <1>0, <1>1 DEF Last, ToSet
    <1>4. ToSet(Front(s)) \subseteq ToSet(s)
        BY <1>0, <1>1, <1>2 DEF ToSet
    <1>5. ToSet(s) \subseteq ToSet(Front(s)) \cup {Last(s)}
        <2>1. SUFFICES ASSUME NEW i \in 1..Len(s), i # Len(s) PROVE s[i] \in ToSet(Front(s))
            BY <1>0, <1>1 DEF ToSet, Last
        <2>2. i \in 1..Len(Front(s)) /\ Front(s)[i] = s[i]
            BY <1>0, <1>2, <2>1
        <2>. QED BY <2>2, <1>2, MembersType
    <1>. QED BY <1>2, <1>3, <1>4, <1>5

\* remove_from_list: the links around the element e are joined.
LEMMA UnlinkMember ==
    ASSUME NEW S, NEW s \in Seq(S), IsInjective(s), NEW i \in 1..Len(s)
    PROVE  /\ RemoveAt(s, i) \in Seq(S)
           /\ IsInjective(RemoveAt(s, i))
           /\ ToSet(RemoveAt(s, i)) = ToSet(s) \ {s[i]}
           /\ Len(RemoveAt(s, i)) = Len(s) - 1
    <1>. DEFINE r == RemoveAt(s, i)
    <1>0. Len(s) \in Nat
        OBVIOUS
    <1>1. DOMAIN s = 1..Len(s) /\ \A j \in 1..Len(s) : s[j] \in S
        OBVIOUS
    <1>2. /\ SubSeq(s, 1, i - 1) \in Seq(S)
          /\ Len(SubSeq(s, 1, i - 1)) = i - 1
          /\ \A j \in 1..(i - 1) : SubSeq(s, 1, i - 1)[j] = s[j]
        <2>1. \A j \in 1..(i - 1) : s[j] \in S BY <1>0, <1>1
        <2>2. 1 \in Int /\ i - 1 \in Int /\ (1 > i - 1 => i = 1) BY <1>0
        <2>. QED BY <2>1, <2>2, SubSeqProperties
    <1>3. /\ SubSeq(s, i + 1, Len(s)) \in Seq(S)
          /\ Len(SubSeq(s, i + 1, Len(s))) = Len(s) - i
          /\ \A j \in 1..(Len(s) - i) : SubSeq(s, i + 1, Len(s))[j] = s[j + i]
        <2>1. \A j \in (i + 1)..Len(s) : s[j] \in S BY <1>0, <1>1
        <2>2. i + 1 \in Int /\ Len(s) \in Int BY <1>0
        <2>3. /\ SubSeq(s, i + 1, Len(s)) \in Seq(S)
              /\ Len(SubSeq(s, i + 1, Len(s))) = IF i + 1 <= Len(s) THEN Len(s) - (i + 1) + 1 ELSE 0
              /\ \A j \in 1..(Len(s) - (i + 1) + 1) :
                    SubSeq(s, i + 1, Len(s))[j] = s[i + 1 + j - 1]
            BY <2>1, <2>2, SubSeqProperties
        <2>4. /\ Len(s) - (i + 1) + 1 = Len(s) - i
              /\ (~ (i + 1 <= Len(s)) => Len(s) - i = 0)
              /\ \A j \in Int : i + 1 + j - 1 = j + i
            BY <1>0
        <2>. DEFINE q == SubSeq(s, i + 1, Len(s))
        <2>. HIDE DEF q
        <2>5. q \in Seq(S) /\ Len(q) = Len(s) - i
            BY <2>3, <2>4 DEF q
        <2>6. ASSUME NEW j \in 1..(Len(s) - i) PROVE q[j] = s[j + i]
            <3>1. i + 1 + j - 1 = j + i BY <1>0
            <3>. QED BY <3>1, <2>3, <2>4 DEF q
        <2>. QED BY <2>5, <2>6 DEF q
    <1>4. /\ r \in Seq(S)
          /\ Len(r) = Len(s) - 1
          /\ \A j \in 1..(Len(s) - 1) : r[j] = IF j < i THEN s[j] ELSE s[j + 1]
        <2>. DEFINE p == SubSeq(s, 1, i - 1)
                    q == SubSeq(s, i + 1, Len(s))
        <2>1. /\ p \o q \in Seq(S)
              /\ Len(p \o q) = Len(p) + Len(q)
              /\ \A j \in 1..(Len(p) + Len(q)) : (p \o q)[j] = IF j <= Len(p) THEN p[j] ELSE q[j - Len(p)]
            BY <1>2, <1>3, ConcatProperties
        <2>2. r = p \o q BY DEF RemoveAt
        <2>. HIDE DEF p, q, r
        <2>3. Len(p) = i - 1 /\ Len(q) = Len(s) - i BY <1>2, <1>3 DEF p, q
        <2>4. ASSUME NEW j \in 1..(Len(s) - 1)
              PROVE  r[j] = IF j < i THEN s[j] ELSE s[j + 1]
            <3>1. CASE j < i
                BY <3>1, <2>1, <2>2, <2>3, <1>0, <1>2 DEF p
            <3>2. CASE ~ (j < i)
                <4>1. j - (i - 1) \in 1..(Len(s) - i) /\ (j - (i - 1)) + i = j + 1
                    BY <3>2, <1>0
                <4>2. q[j - (i - 1)] = s[j + 1] BY <4>1, <1>3 DEF q
                <4>. QED BY <4>2, <3>2, <2>1, <2>2, <2>3, <1>0
            <3>. QED BY <3>1, <3>2
        <2>. QED BY <2>1, <2>2, <2>3, <2>4, <1>0
    <1>5. DOMAIN r = 1..(Len(s) - 1)
        BY <1>0, <1>4
    <1>. HIDE DEF r
    <1>5a. ASSUME NEW j \in 1..Len(s), NEW k \in 1..Len(s), s[j] = s[k]
          PROVE  j = k
        <2>1. j \in DOMAIN s /\ k \in DOMAIN s BY <1>1
        <2>. QED BY <2>1, <1>5a, Zenon DEF IsInjective
    <1>. DEFINE old(j) == IF j < i THEN j ELSE j + 1
    <1>5b. ASSUME NEW j \in 1..(Len(s) - 1)
           PROVE  old(j) \in 1..Len(s) /\ old(j) # i /\ r[j] = s[old(j)]
        <2>1. CASE j < i
            <3>1. old(j) = j BY <2>1
            <3>2. j \in 1..Len(s) /\ j # i BY <2>1, <1>0
            <3>3. r[j] = s[j] BY <2>1, <1>4
            <3>. QED BY <3>1, <3>2, <3>3
        <2>2. CASE ~ (j < i)
            <3>1. old(j) = j + 1 BY <2>2
            <3>2. j + 1 \in 1..Len(s) /\ j + 1 # i BY <2>2, <1>0
            <3>3. r[j] = s[j + 1] BY <2>2, <1>4
            <3>. QED BY <3>1, <3>2, <3>3
        <2>. QED BY <2>1, <2>2
    <1>5c. ASSUME NEW j \in 1..(Len(s) - 1), NEW k \in 1..(Len(s) - 1), old(j) = old(k)
           PROVE  j = k
        BY <1>5c, <1>0
    <1>6. IsInjective(r)
        <2>1. SUFFICES ASSUME NEW j \in 1..(Len(s) - 1), NEW k \in 1..(Len(s) - 1), r[j] = r[k]
                       PROVE  j = k
            BY <1>5, Zenon DEF IsInjective
        <2>. HIDE DEF old
        <2>2. s[old(j)] = s[old(k)] BY <2>1, <1>5b, Zenon
        <2>3. old(j) = old(k) BY <2>2, <1>5a, <1>5b, Zenon
        <2>. QED BY <2>3, <1>5c, Zenon
    <1>7. ToSet(r) \subseteq ToSet(s) \ {s[i]}
        <2>1. SUFFICES ASSUME NEW j \in 1..(Len(s) - 1) PROVE r[j] \in ToSet(s) \ {s[i]}
            BY <1>5 DEF ToSet
        <2>. HIDE DEF old
        <2>2. old(j) \in 1..Len(s) /\ old(j) # i /\ r[j] = s[old(j)] BY <1>5b, Zenon
        <2>3. s[old(j)] # s[i] BY <2>2, <1>5a, Zenon
        <2>4. s[old(j)] \in ToSet(s) BY <2>2, <1>1, Zenon DEF ToSet
        <2>. QED BY <2>2, <2>3, <2>4
    <1>8. ToSet(s) \ {s[i]} \subseteq ToSet(r)
        <2>1. SUFFICES ASSUME NEW j \in 1..Len(s), j # i PROVE s[j] \in ToSet(r)
            BY <1>1 DEF ToSet
        <2>2. CASE j < i
            <3>1. j \in 1..(Len(s) - 1) /\ r[j] = s[j] BY <2>1, <2>2, <1>0, <1>4
            <3>. QED BY <3>1, <1>5 DEF ToSet
        <2>3. CASE j > i
            <3>1. j - 1 \in 1..(Len(s) - 1) /\ ~ (j - 1 < i) /\ j - 1 + 1 = j BY <2>1, <2>3, <1>0
            <3>2. r[j - 1] = s[j] BY <3>1, <1>4
            <3>. QED BY <3>1, <3>2, <1>5 DEF ToSet
        <2>. QED BY <2>1, <2>2, <2>3, <1>0
    <1>. QED BY <1>4, <1>6, <1>7, <1>8 DEF r

\* remove_waiting_thread unlinks one thread and leaves the others in place.
LEMMA UnlinkOne ==
    ASSUME NEW S, NEW s \in Seq(S), IsInjective(s), NEW e \in ToSet(s)
    PROVE  /\ Unlink(s, e) \in Seq(S)
           /\ IsInjective(Unlink(s, e))
           /\ ToSet(Unlink(s, e)) = ToSet(s) \ {e}
           /\ Unlink(s, e) = <<>> <=> Len(s) = 1
    <1>. DEFINE i == CHOOSE j \in DOMAIN s : s[j] = e
    <1>1. i \in DOMAIN s /\ s[i] = e
        BY DEF ToSet
    <1>2. i \in 1..Len(s)
        BY <1>1
    <1>. HIDE DEF i
    <1>3. /\ RemoveAt(s, i) \in Seq(S)
          /\ IsInjective(RemoveAt(s, i))
          /\ ToSet(RemoveAt(s, i)) = ToSet(s) \ {s[i]}
          /\ Len(RemoveAt(s, i)) = Len(s) - 1
        BY <1>2, UnlinkMember
    <1>4. Unlink(s, e) = RemoveAt(s, i)
        BY DEF Unlink, i
    <1>5. Len(RemoveAt(s, i)) = 0 <=> RemoveAt(s, i) = <<>>
        BY <1>3
    <1>6. Len(s) \in Nat
        OBVIOUS
    <1>7. Len(s) - 1 = 0 <=> Len(s) = 1
        BY <1>6
    <1>. QED BY <1>1, <1>3, <1>4, <1>5, <1>7

\* Two lists spliced.
LEMMA SplicedMembers ==
    ASSUME NEW S, NEW s \in Seq(S), NEW u \in Seq(S)
    PROVE  /\ s \o u \in Seq(S)
           /\ ToSet(s \o u) = ToSet(s) \cup ToSet(u)
           /\ IsInjective(s) /\ IsInjective(u) /\ ToSet(s) \cap ToSet(u) = {} => IsInjective(s \o u)
    <1>1. /\ s \o u \in Seq(S)
          /\ Len(s \o u) = Len(s) + Len(u)
          /\ \A i \in 1..(Len(s) + Len(u)) :
                (s \o u)[i] = IF i <= Len(s) THEN s[i] ELSE u[i - Len(s)]
        BY ConcatProperties
    <1>2. /\ Len(s) \in Nat /\ DOMAIN s = 1..Len(s)
          /\ Len(u) \in Nat /\ DOMAIN u = 1..Len(u)
          /\ DOMAIN (s \o u) = 1..(Len(s) + Len(u))
        BY <1>1
    <1>3. ToSet(s \o u) \subseteq ToSet(s) \cup ToSet(u)
        <2>1. SUFFICES ASSUME NEW i \in 1..(Len(s) + Len(u))
                       PROVE  (s \o u)[i] \in ToSet(s) \cup ToSet(u)
            BY <1>2 DEF ToSet
        <2>2. CASE i <= Len(s)
            BY <2>2, <1>1, <1>2 DEF ToSet
        <2>3. CASE i > Len(s)
            <3>1. i - Len(s) \in 1..Len(u) /\ (s \o u)[i] = u[i - Len(s)] BY <2>3, <1>1, <1>2
            <3>. QED BY <3>1, <1>2 DEF ToSet
        <2>. QED BY <2>2, <2>3, <1>2
    <1>4. ToSet(s) \subseteq ToSet(s \o u)
        <2>1. SUFFICES ASSUME NEW i \in 1..Len(s) PROVE s[i] \in ToSet(s \o u)
            BY <1>2 DEF ToSet
        <2>2. i \in DOMAIN (s \o u) /\ (s \o u)[i] = s[i] BY <1>1, <1>2
        <2>. QED BY <2>2 DEF ToSet
    <1>5. ToSet(u) \subseteq ToSet(s \o u)
        <2>1. SUFFICES ASSUME NEW i \in 1..Len(u) PROVE u[i] \in ToSet(s \o u)
            BY <1>2 DEF ToSet
        <2>2. i + Len(s) \in 1..(Len(s) + Len(u)) /\ ~ (i + Len(s) <= Len(s))
              /\ (i + Len(s)) - Len(s) = i
            BY <1>2
        <2>3. i + Len(s) \in DOMAIN (s \o u) /\ (s \o u)[i + Len(s)] = u[i] BY <2>2, <1>1, <1>2
        <2>. QED BY <2>3 DEF ToSet
    <1>6. ASSUME IsInjective(s), IsInjective(u), ToSet(s) \cap ToSet(u) = {}
          PROVE  IsInjective(s \o u)
        <2>1. SUFFICES ASSUME NEW i \in DOMAIN (s \o u), NEW j \in DOMAIN (s \o u),
                              (s \o u)[i] = (s \o u)[j], i < j
                       PROVE  FALSE
            BY <1>2 DEF IsInjective
        <2>2. CASE j <= Len(s)
            BY <2>1, <2>2, <1>1, <1>2, <1>6 DEF IsInjective
        <2>3. CASE i > Len(s)
            <3>1. /\ i - Len(s) \in 1..Len(u) /\ j - Len(s) \in 1..Len(u)
                  /\ i - Len(s) # j - Len(s)
                BY <2>1, <2>3, <1>2
            <3>2. u[i - Len(s)] = u[j - Len(s)] BY <2>1, <2>3, <1>1, <1>2
            <3>. QED BY <3>1, <3>2, <1>2, <1>6 DEF IsInjective
        <2>4. CASE i <= Len(s) /\ j > Len(s)
            <3>1. i \in 1..Len(s) /\ j - Len(s) \in 1..Len(u) BY <2>1, <2>4, <1>2
            <3>2. s[i] = u[j - Len(s)] BY <2>1, <2>4, <1>1, <1>2
            <3>3. s[i] \in ToSet(s) /\ u[j - Len(s)] \in ToSet(u) BY <3>1, <1>2 DEF ToSet
            <3>. QED BY <3>2, <3>3, <1>6
        <2>. QED BY <2>2, <2>3, <2>4, <1>2
    <1>. QED BY <1>1, <1>3, <1>4, <1>5, <1>6
=============================================================================
