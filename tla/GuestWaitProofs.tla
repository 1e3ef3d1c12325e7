--------------------------- MODULE GuestWaitProofs ---------------------------
(***************************************************************************)
(* Theorems of GuestWait, for any work directories, addresses, timeouts    *)
(* and size of the lease file: what find_lease returns, whose address a    *)
(* command waits on, and that a guest that answers in time is found.       *)
(*                                                                         *)
(* They rest on the shape of the file: whatever is added and removed, it   *)
(* is a sequence of records of four lines.                                 *)
(***************************************************************************)
EXTENDS GuestWait, TLAPS, SequenceTheorems, WellFoundedInduction

(* A set of numbers that is not empty has a least one.                     *)
LEMMA Least ==
    ASSUME NEW S, S \subseteq Nat, S # {}
    PROVE  \E m \in S : \A n \in S : m <= n
<1>1. IsWellFoundedOn(OpToRel(<, Nat), Nat)
  BY NatLessThanWellFounded
<1>2. PICK m \in S : \A n \in S : <<n, m>> \notin OpToRel(<, Nat)
  BY <1>1, WFMin, Zenon
<1>3. \A n \in S : ~(n < m)
  BY <1>2 DEF OpToRel
<1> QED
  BY <1>3

-----------------------------------------------------------------------------
(* A lease file of n whole records.                                        *)
IsFile(lines, n) ==
    /\ lines \in Seq(Lines)
    /\ Len(lines) = 4 * n
    /\ \A i \in 1..n :
          /\ lines[4 * i - 3] = Line("{", None)
          /\ lines[4 * i - 2].tag = "ip"
          /\ lines[4 * i - 1].tag = "mac"
          /\ lines[4 * i] = Line("}", None)

(* Every line is one of the four of its record.                            *)
LEMMA LineOfRecord ==
    ASSUME NEW n \in Nat, NEW m \in 1..(4 * n)
    PROVE  \E i \in 1..n : m \in {4 * i - 3, 4 * i - 2, 4 * i - 1, 4 * i}
<1> DEFINE i == (m + 3) \div 4
<1>1. i \in Int /\ 4 * i <= m + 3 /\ m + 3 < 4 * i + 4
  OBVIOUS
<1>2. i \in 1..n /\ m \in {4 * i - 3, 4 * i - 2, 4 * i - 1, 4 * i}
  BY <1>1
<1> QED
  BY <1>2

LEMMA Quarter ==
    ASSUME NEW n \in Nat
    PROVE  (4 * n) \div 4 = n
OBVIOUS

LEMMA RecordLines ==
    ASSUME NEW mac \in Macs, NEW ip \in Ips \cup {None}
    PROVE  /\ Record(mac, ip) \in Seq(Lines)
           /\ Len(Record(mac, ip)) = 4
           /\ Record(mac, ip)[1] = Line("{", None)
           /\ Record(mac, ip)[2] = Line("ip", ip)
           /\ Record(mac, ip)[3] = Line("mac", mac)
           /\ Record(mac, ip)[4] = Line("}", None)
BY DEF Record, Lines, Line

IsJoin(u, s, t) ==
    /\ u \in Seq(Lines)
    /\ Len(u) = Len(s) + Len(t)
    /\ \A i \in 1..Len(s) : u[i] = s[i]
    /\ \A i \in 1..Len(t) : u[Len(s) + i] = t[i]

LEMMA Joined ==
    ASSUME NEW s \in Seq(Lines), NEW t \in Seq(Lines)
    PROVE  IsJoin(s \o t, s, t)
<1> DEFINE u == s \o t
<1>1. /\ u \in Seq(Lines)
      /\ Len(u) = Len(s) + Len(t)
      /\ \A i \in 1..(Len(s) + Len(t)) : u[i] = IF i <= Len(s) THEN s[i] ELSE t[i - Len(s)]
  BY ConcatProperties
<1>2. Len(s) \in Nat /\ Len(t) \in Nat
  OBVIOUS
<1> HIDE DEF u
<1>3. ASSUME NEW i \in 1..Len(t)
      PROVE  u[Len(s) + i] = t[i]
  <2> DEFINE j == Len(s) + i
  <2>1. j \in 1..(Len(s) + Len(t)) /\ ~(j <= Len(s)) /\ j - Len(s) = i
    BY <1>2
  <2> HIDE DEF j
  <2>2. u[j] = t[j - Len(s)]
    BY <1>1, <2>1
  <2> QED
    BY <2>1, <2>2, Zenon DEF j
<1>4. ASSUME NEW i \in 1..Len(s)
      PROVE  u[i] = s[i]
  <2>1. i \in 1..(Len(s) + Len(t)) /\ i <= Len(s)
    BY <1>2
  <2> QED
    BY <1>1, <2>1
<1> QED
  <2>1. IsJoin(u, s, t)
    BY <1>1, <1>3, <1>4, Zenon DEF IsJoin
  <2> QED
    BY <2>1 DEF u

(* The file has one record more, the at-th, and those after it move down.  *)
IsWith(new, lines, n, at, mac, ip) ==
    /\ IsFile(new, n + 1)
    /\ new[4 * at - 2] = Line("ip", ip) /\ new[4 * at - 1] = Line("mac", mac)
    /\ \A i \in 1..(n + 1) \ {at} : \E j \in 1..n :
          /\ j = IF i < at THEN i ELSE i - 1
          /\ new[4 * i - 2] = lines[4 * j - 2]
          /\ new[4 * i - 1] = lines[4 * j - 1]

(* It is without its k-th record: those after that one move up.            *)
IsWithout(new, lines, n, k) ==
    /\ IsFile(new, n - 1)
    /\ \A i \in 1..(n - 1) : \E j \in 1..n \ {k} :
          /\ j = IF i < k THEN i ELSE i + 1
          /\ new[4 * i - 2] = lines[4 * j - 2]
          /\ new[4 * i - 1] = lines[4 * j - 1]

LEMMA AppendedRecord ==
    ASSUME NEW lines, NEW n \in Nat, IsFile(lines, n),
           NEW mac \in Macs, NEW ip \in Ips \cup {None}
    PROVE  IsWith(lines \o Record(mac, ip), lines, n, n + 1, mac, ip)
<1> DEFINE rec == Record(mac, ip)
           new == lines \o rec
<1>0. /\ rec \in Seq(Lines) /\ Len(rec) = 4
      /\ rec[1] = Line("{", None) /\ rec[2] = Line("ip", ip)
      /\ rec[3] = Line("mac", mac) /\ rec[4] = Line("}", None)
  BY RecordLines
<1> HIDE DEF rec
<1>1. /\ new \in Seq(Lines)
      /\ Len(new) = 4 * n + 4
      /\ \A i \in 1..(4 * n) : new[i] = lines[i]
      /\ \A i \in 1..4 : new[4 * n + i] = rec[i]
  <2>1. lines \in Seq(Lines) /\ Len(lines) = 4 * n
    BY DEF IsFile
  <2>0. new = lines \o rec
    OBVIOUS
  <2> HIDE DEF new
  <2>2. /\ new \in Seq(Lines)
        /\ Len(new) = Len(lines) + Len(rec)
        /\ \A i \in 1..Len(lines) : new[i] = lines[i]
        /\ \A i \in 1..Len(rec) : new[Len(lines) + i] = rec[i]
    <3>1. IsJoin(new, lines, rec)
      BY <2>0, <2>1, <1>0, Joined, Zenon
    <3> QED
      BY <3>1 DEF IsJoin
  <2> QED
    BY <2>1, <2>2, <1>0
<1> HIDE DEF new
<1>2. /\ new[4 * (n + 1) - 3] = Line("{", None)
      /\ new[4 * (n + 1) - 2] = Line("ip", ip)
      /\ new[4 * (n + 1) - 1] = Line("mac", mac)
      /\ new[4 * (n + 1)] = Line("}", None)
  <2>1. /\ 4 * (n + 1) - 3 = 4 * n + 1 /\ 4 * (n + 1) - 2 = 4 * n + 2
        /\ 4 * (n + 1) - 1 = 4 * n + 3 /\ 4 * (n + 1) = 4 * n + 4
    OBVIOUS
  <2>2. /\ new[4 * n + 1] = rec[1] /\ new[4 * n + 2] = rec[2]
        /\ new[4 * n + 3] = rec[3] /\ new[4 * n + 4] = rec[4]
    BY <1>1
  <2> QED
    BY <2>1, <2>2, <1>0
<1>3. ASSUME NEW i \in 1..n
      PROVE  /\ new[4 * i - 3] = lines[4 * i - 3]
             /\ new[4 * i - 2] = lines[4 * i - 2]
             /\ new[4 * i - 1] = lines[4 * i - 1]
             /\ new[4 * i] = lines[4 * i]
  BY <1>1
<1>4. Line("ip", ip).tag = "ip" /\ Line("mac", mac).tag = "mac"
  BY DEF Line
<1>6. ASSUME NEW i \in 1..(n + 1)
      PROVE  /\ new[4 * i - 3] = Line("{", None)
             /\ new[4 * i - 2].tag = "ip"
             /\ new[4 * i - 1].tag = "mac"
             /\ new[4 * i] = Line("}", None)
  <2>1. CASE i \in 1..n
    BY <2>1, <1>3 DEF IsFile
  <2>2. CASE i = n + 1
    BY <2>2, <1>2, <1>4
  <2>3. i \in 1..n \/ i = n + 1
    OBVIOUS
  <2> QED
    BY <2>1, <2>2, <2>3
<1>7. Len(new) = 4 * (n + 1)
  BY <1>1
<1>8. IsFile(new, n + 1)
  BY <1>1, <1>6, <1>7, Zenon DEF IsFile
<1>9. ASSUME NEW i \in 1..(n + 1) \ {n + 1}
      PROVE  i \in 1..n /\ i < n + 1
  OBVIOUS
<1>10. IsWith(new, lines, n, n + 1, mac, ip)
  BY <1>2, <1>3, <1>8, <1>9 DEF IsWith
<1> QED
  BY <1>10 DEF new, rec

LEMMA PrependedRecord ==
    ASSUME NEW lines, NEW n \in Nat, IsFile(lines, n),
           NEW mac \in Macs, NEW ip \in Ips \cup {None}
    PROVE  IsWith(Record(mac, ip) \o lines, lines, n, 1, mac, ip)
<1> DEFINE rec == Record(mac, ip)
           new == rec \o lines
<1>0. /\ rec \in Seq(Lines) /\ Len(rec) = 4
      /\ rec[1] = Line("{", None) /\ rec[2] = Line("ip", ip)
      /\ rec[3] = Line("mac", mac) /\ rec[4] = Line("}", None)
  BY RecordLines
<1> HIDE DEF rec
<1>1. /\ new \in Seq(Lines)
      /\ Len(new) = 4 * n + 4
      /\ \A i \in 1..4 : new[i] = rec[i]
      /\ \A i \in 1..(4 * n) : new[4 + i] = lines[i]
  <2>1. lines \in Seq(Lines) /\ Len(lines) = 4 * n
    BY DEF IsFile
  <2>0. new = rec \o lines
    OBVIOUS
  <2> HIDE DEF new
  <2>2. /\ new \in Seq(Lines)
        /\ Len(new) = Len(rec) + Len(lines)
        /\ \A i \in 1..Len(rec) : new[i] = rec[i]
        /\ \A i \in 1..Len(lines) : new[Len(rec) + i] = lines[i]
    <3>1. IsJoin(new, rec, lines)
      BY <2>0, <2>1, <1>0, Joined, Zenon
    <3> QED
      BY <3>1 DEF IsJoin
  <2>3. 4 + 4 * n = 4 * n + 4
    OBVIOUS
  <2> QED
    BY <2>1, <2>2, <2>3, <1>0, Zenon
<1> HIDE DEF new
<1>2. /\ new[1] = Line("{", None)
      /\ new[2] = Line("ip", ip)
      /\ new[3] = Line("mac", mac)
      /\ new[4] = Line("}", None)
  <2>1. 1 \in 1..4 /\ 2 \in 1..4 /\ 3 \in 1..4 /\ 4 \in 1..4
    OBVIOUS
  <2> QED
    BY <2>1, <1>0, <1>1, Zenon
<1>3. ASSUME NEW i \in 1..n
      PROVE  /\ new[4 * (i + 1) - 3] = lines[4 * i - 3]
             /\ new[4 * (i + 1) - 2] = lines[4 * i - 2]
             /\ new[4 * (i + 1) - 1] = lines[4 * i - 1]
             /\ new[4 * (i + 1)] = lines[4 * i]
  <2>1. /\ 4 * (i + 1) - 3 = 4 + (4 * i - 3) /\ 4 * (i + 1) - 2 = 4 + (4 * i - 2)
        /\ 4 * (i + 1) - 1 = 4 + (4 * i - 1) /\ 4 * (i + 1) = 4 + 4 * i
        /\ 4 * i - 3 \in 1..(4 * n) /\ 4 * i - 2 \in 1..(4 * n)
        /\ 4 * i - 1 \in 1..(4 * n) /\ 4 * i \in 1..(4 * n)
    OBVIOUS
  <2> QED
    BY <2>1, <1>1
<1>4. Line("ip", ip).tag = "ip" /\ Line("mac", mac).tag = "mac"
  BY DEF Line
<1>5. ASSUME NEW i \in 1..(n + 1)
      PROVE  /\ new[4 * i - 3] = Line("{", None)
             /\ new[4 * i - 2].tag = "ip"
             /\ new[4 * i - 1].tag = "mac"
             /\ new[4 * i] = Line("}", None)
  <2>1. CASE i = 1
    <3>1. 4 * i - 3 = 1 /\ 4 * i - 2 = 2 /\ 4 * i - 1 = 3 /\ 4 * i = 4
      BY <2>1
    <3> QED
      BY <3>1, <1>2, <1>4
  <2>2. CASE i # 1
    <3> DEFINE j == i - 1
    <3>1. j \in 1..n /\ j + 1 = i
      BY <2>2
    <3>2. /\ lines[4 * j - 3] = Line("{", None)
          /\ lines[4 * j - 2].tag = "ip"
          /\ lines[4 * j - 1].tag = "mac"
          /\ lines[4 * j] = Line("}", None)
      BY <3>1 DEF IsFile
    <3> HIDE DEF j
    <3>3. /\ new[4 * (j + 1) - 3] = lines[4 * j - 3]
          /\ new[4 * (j + 1) - 2] = lines[4 * j - 2]
          /\ new[4 * (j + 1) - 1] = lines[4 * j - 1]
          /\ new[4 * (j + 1)] = lines[4 * j]
      BY <3>1, <1>3
    <3> QED
      BY <3>1, <3>2, <3>3
  <2> QED
    BY <2>1, <2>2
<1>6. Len(new) = 4 * (n + 1)
  BY <1>1
<1>7. IsFile(new, n + 1)
  BY <1>1, <1>5, <1>6, Zenon DEF IsFile
<1>8. ASSUME NEW i \in 1..(n + 1) \ {1}
      PROVE  \E j \in 1..n :
                /\ j = IF i < 1 THEN i ELSE i - 1
                /\ new[4 * i - 2] = lines[4 * j - 2]
                /\ new[4 * i - 1] = lines[4 * j - 1]
  <2> DEFINE j == i - 1
  <2>1. j \in 1..n /\ j + 1 = i /\ ~(i < 1)
    OBVIOUS
  <2>2. /\ new[4 * (j + 1) - 2] = lines[4 * j - 2]
        /\ new[4 * (j + 1) - 1] = lines[4 * j - 1]
    BY <2>1, <1>3
  <2> QED
    BY <2>1, <2>2
<1>9. 4 * 1 - 2 = 2 /\ 4 * 1 - 1 = 3
  OBVIOUS
<1>10. IsWith(new, lines, n, 1, mac, ip)
  BY <1>2, <1>7, <1>8, <1>9 DEF IsWith
<1> QED
  BY <1>10 DEF new, rec

(* The file without its k-th record: those after it move up by one.        *)
LEMMA RemovedRecord ==
    ASSUME NEW lines, NEW n \in Nat, IsFile(lines, n), NEW k \in 1..n
    PROVE  IsWithout(SubSeq(lines, 1, 4 * k - 4) \o SubSeq(lines, 4 * k + 1, Len(lines)), lines, n, k)
<1> DEFINE new == SubSeq(lines, 1, 4 * k - 4) \o SubSeq(lines, 4 * k + 1, Len(lines))
           front == SubSeq(lines, 1, 4 * k - 4)
           back == SubSeq(lines, 4 * k + 1, 4 * n)
<1>0. Len(lines) = 4 * n /\ \A i \in 1..(4 * n) : lines[i] \in Lines
  BY ElementOfSeq DEF IsFile
<1>1. /\ front \in Seq(Lines)
      /\ Len(front) = 4 * k - 4
      /\ \A i \in 1..(4 * k - 4) : front[i] = lines[i]
  <2>1. \A i \in 1..(4 * k - 4) : lines[i] \in Lines
    BY <1>0
  <2>2. /\ front \in Seq(Lines)
        /\ Len(front) = IF 1 <= 4 * k - 4 THEN (4 * k - 4) - 1 + 1 ELSE 0
        /\ \A i \in 1..((4 * k - 4) - 1 + 1) : front[i] = lines[1 + i - 1]
    BY <2>1, SubSeqProperties
  <2> QED
    BY <2>2
<1>2. /\ back \in Seq(Lines)
      /\ Len(back) = 4 * n - 4 * k
      /\ \A i \in 1..(4 * n - 4 * k) : back[i] = lines[4 * k + i]
  <2>1. \A i \in (4 * k + 1)..(4 * n) : lines[i] \in Lines
    BY <1>0
  <2>2. /\ back \in Seq(Lines)
        /\ Len(back) = IF 4 * k + 1 <= 4 * n THEN 4 * n - (4 * k + 1) + 1 ELSE 0
        /\ \A i \in 1..(4 * n - (4 * k + 1) + 1) : back[i] = lines[4 * k + 1 + i - 1]
    BY <2>1, SubSeqProperties
  <2> HIDE DEF back
  <2> QED
    BY <2>2
<1>3. new = front \o back
  BY <1>0
<1> HIDE DEF new, front, back
<1>4. /\ new \in Seq(Lines)
      /\ Len(new) = 4 * n - 4
      /\ \A i \in 1..(4 * k - 4) : new[i] = front[i]
      /\ \A i \in 1..(4 * n - 4 * k) : new[(4 * k - 4) + i] = back[i]
  <2>1. /\ new \in Seq(Lines)
        /\ Len(new) = Len(front) + Len(back)
        /\ \A i \in 1..Len(front) : new[i] = front[i]
        /\ \A i \in 1..Len(back) : new[Len(front) + i] = back[i]
    <3>1. IsJoin(new, front, back)
      BY <1>1, <1>2, <1>3, Joined, Zenon
    <3> QED
      BY <3>1 DEF IsJoin
  <2>2. (4 * k - 4) + (4 * n - 4 * k) = 4 * n - 4
    OBVIOUS
  <2> QED
    BY <2>1, <2>2, <1>1, <1>2
<1>5. /\ \A i \in 1..(4 * k - 4) : new[i] = lines[i]
      /\ \A i \in (4 * k - 3)..(4 * n - 4) : new[i] = lines[i + 4]
  <2>1. ASSUME NEW i \in (4 * k - 3)..(4 * n - 4)
        PROVE  new[i] = lines[i + 4]
    <3> DEFINE m == i - (4 * k - 4)
    <3>1. m \in 1..(4 * n - 4 * k) /\ (4 * k - 4) + m = i /\ 4 * k + m = i + 4
      OBVIOUS
    <3> HIDE DEF m
    <3> QED
      BY <3>1, <1>2, <1>4
  <2> QED
    BY <2>1, <1>1, <1>4
<1>6. ASSUME NEW i \in 1..(n - 1), NEW j, j = IF i < k THEN i ELSE i + 1
      PROVE  /\ j \in 1..n \ {k}
             /\ new[4 * i - 3] = lines[4 * j - 3]
             /\ new[4 * i - 2] = lines[4 * j - 2]
             /\ new[4 * i - 1] = lines[4 * j - 1]
             /\ new[4 * i] = lines[4 * j]
  <2>1. CASE i < k
    <3>1. /\ j = i /\ j \in 1..n /\ j # k
          /\ 4 * i - 3 \in 1..(4 * k - 4) /\ 4 * i - 2 \in 1..(4 * k - 4)
          /\ 4 * i - 1 \in 1..(4 * k - 4) /\ 4 * i \in 1..(4 * k - 4)
      BY <2>1, <1>6
    <3> QED
      BY <3>1, <1>5
  <2>2. CASE ~(i < k)
    <3>1. /\ j \in 1..n /\ j # k
          /\ 4 * i - 3 \in (4 * k - 3)..(4 * n - 4) /\ 4 * i - 2 \in (4 * k - 3)..(4 * n - 4)
          /\ 4 * i - 1 \in (4 * k - 3)..(4 * n - 4) /\ 4 * i \in (4 * k - 3)..(4 * n - 4)
          /\ (4 * i - 3) + 4 = 4 * j - 3 /\ (4 * i - 2) + 4 = 4 * j - 2
          /\ (4 * i - 1) + 4 = 4 * j - 1 /\ (4 * i) + 4 = 4 * j
      BY <2>2, <1>6
    <3> QED
      BY <3>1, <1>5
  <2> QED
    BY <2>1, <2>2
<1>7. IsFile(new, n - 1)
  <2>1. Len(new) = 4 * (n - 1)
    BY <1>4
  <2>2. ASSUME NEW i \in 1..(n - 1)
        PROVE  /\ new[4 * i - 3] = Line("{", None)
               /\ new[4 * i - 2].tag = "ip"
               /\ new[4 * i - 1].tag = "mac"
               /\ new[4 * i] = Line("}", None)
    <3> DEFINE j == IF i < k THEN i ELSE i + 1
    <3>1. j \in 1..n
      OBVIOUS
    <3>2. /\ lines[4 * j - 3] = Line("{", None)
          /\ lines[4 * j - 2].tag = "ip"
          /\ lines[4 * j - 1].tag = "mac"
          /\ lines[4 * j] = Line("}", None)
      BY <3>1 DEF IsFile
    <3>3. /\ new[4 * i - 3] = lines[4 * j - 3]
          /\ new[4 * i - 2] = lines[4 * j - 2]
          /\ new[4 * i - 1] = lines[4 * j - 1]
          /\ new[4 * i] = lines[4 * j]
      BY <1>6
    <3> HIDE DEF j
    <3> QED
      BY <3>2, <3>3
  <2> QED
    BY <1>4, <2>1, <2>2, Zenon DEF IsFile
<1>8. IsWithout(new, lines, n, k)
  BY <1>6, <1>7 DEF IsWithout
<1> QED
  BY <1>8 DEF new

-----------------------------------------------------------------------------
(* find_lease on the first lines of a file of whole records.               *)
IsFront(lines, len, file, n) ==
    /\ IsFile(file, n)
    /\ Len(lines) = len /\ len <= 4 * n
    /\ \A m \in 1..len : lines[m] = file[m]

(* The i-th record is of d and has an address.                             *)
IsOf(file, i, d) == file[4 * i - 1].value.of = d /\ file[4 * i - 2].value # None

LEMMA RecordValues ==
    ASSUME NEW file, NEW n \in Nat, IsFile(file, n), NEW i \in 1..n
    PROVE  /\ file[4 * i - 3].tag = "{" /\ file[4 * i].tag = "}"
           /\ file[4 * i - 2].tag = "ip" /\ file[4 * i - 2].value \in Ips \cup {None}
           /\ file[4 * i - 1].tag = "mac" /\ file[4 * i - 1].value \in Macs
<1>1. /\ file[4 * i - 3] = Line("{", None) /\ file[4 * i] = Line("}", None)
      /\ file[4 * i - 2].tag = "ip" /\ file[4 * i - 1].tag = "mac"
  BY DEF IsFile
<1>2. 4 * i - 2 \in 1..(4 * n) /\ 4 * i - 1 \in 1..(4 * n)
  OBVIOUS
<1>3. file \in Seq(Lines) /\ Len(file) = 4 * n
  BY DEF IsFile
<1>4. file[4 * i - 2] \in Lines /\ file[4 * i - 1] \in Lines
  BY <1>2, <1>3, ElementOfSeq
<1>5. Line("{", None).tag = "{" /\ Line("}", None).tag = "}"
  BY DEF Line
<1>6. ASSUME NEW line \in Lines
      PROVE  /\ line.tag = "ip" => line.value \in Ips \cup {None}
             /\ line.tag = "mac" => line.value \in Macs
  BY DEF Lines
<1> QED
  BY <1>1, <1>4, <1>5, <1>6

(* What a record's lines are when its "}" is read.                         *)
OwnLinesInForce(lines, i) ==
    /\ InForce(lines, 4 * i, "ip") = {4 * i - 2}
    /\ InForce(lines, 4 * i, "mac") = {4 * i - 1}

LEMMA InForceAtClose ==
    ASSUME NEW file, NEW n \in Nat, NEW lines, NEW len \in Nat, IsFront(lines, len, file, n),
           NEW i \in 1..n, 4 * i <= len
    PROVE  OwnLinesInForce(lines, i)
<1>1. /\ lines[4 * i - 3].tag = "{" /\ lines[4 * i - 2].tag = "ip"
      /\ lines[4 * i - 1].tag = "mac"
  <2>1. 4 * i - 3 \in 1..len /\ 4 * i - 2 \in 1..len /\ 4 * i - 1 \in 1..len
    OBVIOUS
  <2>2. IsFile(file, n) /\ \A m \in 1..len : lines[m] = file[m]
    BY DEF IsFront
  <2>3. /\ file[4 * i - 3].tag = "{" /\ file[4 * i - 2].tag = "ip"
        /\ file[4 * i - 1].tag = "mac"
    BY <2>2, RecordValues
  <2> QED
    BY <2>1, <2>2, <2>3
<1>2. ASSUME NEW tag \in {"ip", "mac"}, NEW m \in InForce(lines, 4 * i, tag)
      PROVE  m = IF tag = "ip" THEN 4 * i - 2 ELSE 4 * i - 1
  <2>0. m \in 1..(4 * i - 1)
    BY DEF InForce
  <2>1. /\ lines[m].tag = tag
        /\ \A k \in (m + 1)..(4 * i - 1) : lines[k].tag \notin {"{", "}", tag}
    BY DEF InForce
  <2>2. ~(m < 4 * i - 3)
    <3>1. m < 4 * i - 3 => 4 * i - 3 \in (m + 1)..(4 * i - 1)
      BY <2>0
    <3> QED
      BY <3>1, <2>1, <1>1
  <2>3. m \in {4 * i - 3, 4 * i - 2, 4 * i - 1}
    BY <2>0, <2>2
  <2> QED
    BY <2>1, <2>3, <1>1
<1>3. 4 * i - 2 \in InForce(lines, 4 * i, "ip")
  <2>1. 4 * i - 2 \in 1..(4 * i - 1)
    OBVIOUS
  <2>2. ASSUME NEW k \in (4 * i - 2 + 1)..(4 * i - 1)
        PROVE  lines[k].tag \notin {"{", "}", "ip"}
    <3>1. k = 4 * i - 1
      OBVIOUS
    <3> QED
      BY <3>1, <1>1
  <2> QED
    BY <2>1, <2>2, <1>1 DEF InForce
<1>4. 4 * i - 1 \in InForce(lines, 4 * i, "mac")
  <2>1. 4 * i - 1 \in 1..(4 * i - 1)
    OBVIOUS
  <2>2. ~\E k \in (4 * i - 1 + 1)..(4 * i - 1) : TRUE
    OBVIOUS
  <2> QED
    BY <2>1, <2>2, <1>1 DEF InForce
<1> QED
  BY <1>2, <1>3, <1>4 DEF OwnLinesInForce

LEMMA SameMac ==
    ASSUME NEW d \in Dirs, NEW mac \in Macs
    PROVE  Normalize(mac) = Normalize(Mac(d)) <=> mac.of = d
<1>1. ASSUME NEW m \in Macs
      PROVE  /\ Normalize(m) \in Macs
             /\ Normalize(m).of = m.of /\ Normalize(m).padded = TRUE
  BY DEF Normalize, Macs
<1>2. Mac(d) \in Macs /\ Mac(d).of = d
  BY DEF Mac, Macs
<1>3. ASSUME NEW m \in Macs, NEW k \in Macs, m.of = k.of, m.padded = k.padded
      PROVE  m = k
  BY <1>3 DEF Macs
<1>4. /\ Normalize(mac) \in Macs
      /\ Normalize(mac).of = mac.of /\ Normalize(mac).padded = TRUE
  BY <1>1
<1>5. /\ Normalize(Mac(d)) \in Macs
      /\ Normalize(Mac(d)).of = d /\ Normalize(Mac(d)).padded = TRUE
  BY <1>1, <1>2
<1> QED
  BY <1>3, <1>4, <1>5

(* The closing braces that find_lease may return at.                       *)
Closes(lines, d) ==
    {n \in 1..Len(lines) :
        /\ lines[n].tag = "}"
        /\ \E m \in InForce(lines, n, "mac") : Normalize(lines[m].value) = Normalize(Mac(d))
        /\ \E m \in InForce(lines, n, "ip") : lines[m].value # None}

LEMMA ClosesOfRecords ==
    ASSUME NEW file, NEW n \in Nat, NEW lines, NEW len \in Nat, IsFront(lines, len, file, n), NEW d \in Dirs
    PROVE  \A m : m \in Closes(lines, d) <=>
              \E i \in 1..n : m = 4 * i /\ 4 * i <= len /\ IsOf(file, i, d)
<1>1. ASSUME NEW i \in 1..n, 4 * i <= len
      PROVE  4 * i \in Closes(lines, d) <=> IsOf(file, i, d)
  <2>0. 4 * i \in 1..len /\ 4 * i - 2 \in 1..len /\ 4 * i - 1 \in 1..len
    BY <1>1
  <2>1. IsFile(file, n) /\ Len(lines) = len /\ \A m \in 1..len : lines[m] = file[m]
    BY DEF IsFront
  <2>2. /\ lines[4 * i].tag = "}"
        /\ lines[4 * i - 1].value = file[4 * i - 1].value
        /\ lines[4 * i - 2].value = file[4 * i - 2].value
        /\ file[4 * i - 1].value \in Macs
    <3>1. file[4 * i].tag = "}" /\ file[4 * i - 1].value \in Macs
      BY <2>1, RecordValues
    <3> QED
      BY <2>0, <2>1, <3>1
  <2>3. /\ InForce(lines, 4 * i, "ip") = {4 * i - 2}
        /\ InForce(lines, 4 * i, "mac") = {4 * i - 1}
    <3>1. OwnLinesInForce(lines, i)
      BY <1>1, InForceAtClose
    <3> QED
      BY <3>1 DEF OwnLinesInForce
  <2>4. Normalize(lines[4 * i - 1].value) = Normalize(Mac(d)) <=> file[4 * i - 1].value.of = d
    <3>1. Normalize(file[4 * i - 1].value) = Normalize(Mac(d))
             <=> file[4 * i - 1].value.of = d
      BY <2>2, SameMac
    <3> QED
      BY <2>2, <3>1, Zenon
  <2> QED
    BY <2>0, <2>1, <2>2, <2>3, <2>4 DEF Closes, IsOf
<1>2. ASSUME NEW m \in Closes(lines, d)
      PROVE  \E i \in 1..n : m = 4 * i /\ 4 * i <= len
  <2>0. /\ IsFile(file, n) /\ Len(lines) = len /\ len <= 4 * n
        /\ \A k \in 1..len : lines[k] = file[k]
    BY DEF IsFront
  <2>1. m \in 1..len /\ lines[m].tag = "}"
    BY <2>0 DEF Closes
  <2>2. m \in 1..(4 * n) /\ m <= len /\ file[m].tag = "}"
    <3>1. len <= 4 * n /\ m \in 1..len => m \in 1..(4 * n) /\ m <= len
      OBVIOUS
    <3> QED
      BY <2>0, <2>1, <3>1, Zenon
  <2>3. PICK i \in 1..n : m \in {4 * i - 3, 4 * i - 2, 4 * i - 1, 4 * i}
    BY <2>2, LineOfRecord
  <2>4. /\ file[4 * i - 3].tag = "{" /\ file[4 * i - 2].tag = "ip"
        /\ file[4 * i - 1].tag = "mac"
    <3>1. IsFile(file, n)
      BY <2>0
    <3> QED
      BY <3>1, RecordValues
  <2> QED
    BY <2>2, <2>3, <2>4
<1> QED
  BY <1>1, <1>2

LEMMA FoundLease ==
    ASSUME NEW file, NEW n \in Nat, NEW lines, NEW len \in Nat, IsFront(lines, len, file, n), NEW d \in Dirs,
           NEW i \in 1..n, 4 * i <= len, IsOf(file, i, d),
           \A k \in 1..n : IsOf(file, k, d) => i <= k
    PROVE  FindLease(lines, d) = file[4 * i - 2].value
<1> DEFINE first == CHOOSE m \in Closes(lines, d) : \A k \in Closes(lines, d) : m <= k
<1>1. 4 * i \in Closes(lines, d)
  BY ClosesOfRecords
<1>2. \A k \in Closes(lines, d) : 4 * i <= k
  BY ClosesOfRecords
<1>3. \A m \in Closes(lines, d) : (\A k \in Closes(lines, d) : m <= k) => m = 4 * i
  <2>1. ASSUME NEW m \in Closes(lines, d), m <= 4 * i, 4 * i <= m
        PROVE  m = 4 * i
    <3>1. Len(lines) = len
      BY DEF IsFront
    <3>2. m \in 1..len
      BY <3>1 DEF Closes
    <3> QED
      BY <2>1, <3>2
  <2> QED
    BY <2>1, <1>1, <1>2
<1>4. first = 4 * i
  BY <1>1, <1>2, <1>3
<1>5. InForce(lines, 4 * i, "ip") = {4 * i - 2}
  <2>1. OwnLinesInForce(lines, i)
    BY InForceAtClose
  <2> QED
    BY <2>1 DEF OwnLinesInForce
<1>6. lines[4 * i - 2] = file[4 * i - 2] /\ file[4 * i - 2].value # None
  <2>1. 4 * i - 2 \in 1..len
    OBVIOUS
  <2> QED
    BY <2>1 DEF IsFront, IsOf
<1>7. (CHOOSE m \in {4 * i - 2} : lines[m].value # None) = 4 * i - 2
  BY <1>6
<1>8. FindLease(lines, d) =
         IF Closes(lines, d) = {} THEN None
         ELSE lines[CHOOSE m \in InForce(lines, first, "ip") : lines[m].value # None].value
  BY DEF FindLease, Closes
<1> HIDE DEF first
<1>9. FindLease(lines, d) = lines[CHOOSE m \in {4 * i - 2} : lines[m].value # None].value
  BY <1>1, <1>4, <1>5, <1>8
<1> QED
  BY <1>6, <1>7, <1>9

LEMMA NoLeaseFound ==
    ASSUME NEW file, NEW n \in Nat, NEW lines, NEW len \in Nat, IsFront(lines, len, file, n), NEW d \in Dirs,
           \A k \in 1..n : 4 * k <= len => ~IsOf(file, k, d)
    PROVE  FindLease(lines, d) = None
<1>1. Closes(lines, d) = {}
  BY ClosesOfRecords
<1> QED
  BY <1>1 DEF FindLease, Closes

(* What find_lease returns from a prefix: the address of the first record  *)
(* of d if that one is whole, and nothing otherwise.                       *)
LookupGives(lines, len, file, i, d) ==
    FindLease(lines, d) = IF 4 * i <= len THEN file[4 * i - 2].value ELSE None

LEMMA LookupIs ==
    ASSUME NEW file, NEW n \in Nat, NEW lines, NEW len \in Nat, IsFront(lines, len, file, n), NEW d \in Dirs,
           NEW i \in 1..n, IsOf(file, i, d),
           \A k \in 1..n : IsOf(file, k, d) => i <= k
    PROVE  LookupGives(lines, len, file, i, d)
<1> USE DEF LookupGives
<1>1. CASE 4 * i <= len
  BY <1>1, FoundLease
<1>2. CASE ~(4 * i <= len)
  <2>1. \A k \in 1..n : 4 * k <= len => ~(i <= k)
    BY <1>2 DEF IsFront
  <2>2. \A k \in 1..n : 4 * k <= len => ~IsOf(file, k, d)
    BY <2>1
  <2> QED
    BY <1>2, <2>2, NoLeaseFound
<1> QED
  BY <1>1, <1>2

-----------------------------------------------------------------------------
(* The actions of Next, as the proofs split them.                          *)
LEMMA Actions ==
    ASSUME Next
    PROVE  \/ \E d \in Dirs : Launch(d)
           \/ \E d \in Dirs : LeaseFound(d)
           \/ \E d \in Dirs : LeasePoll(d)
           \/ \E d \in Dirs : NoLease(d)
           \/ \E d \in Dirs : AskGuest(d)
           \/ \E d \in Dirs : SshAnswers(d)
           \/ \E d \in Dirs : \E ticks \in 0..MaxAttempt : SshPause(d, ticks)
           \/ \E d \in Dirs : \E ticks \in 0..MaxAttempt : SshGivesUp(d, ticks)
           \/ \E d \in Dirs : Kill(d)
           \/ \E d \in Dirs : Down(d)
           \/ \E d \in Dirs : \E i \in Ips : Acquire(d, i)
           \/ \E d \in Dirs : Booted(d)
           \/ \E i \in Ips \cup {None} : OtherLease(i)
           \/ \E n \in 1..MaxRecords : Expire(n)
BY DEF Next, Step

WholeFile == IsFile(leases, Size)

LEMMA SizeType ==
    ASSUME TypeOK
    PROVE  /\ leases \in Seq(Lines) /\ Len(leases) \in Nat
           /\ Size \in Nat
BY DEF TypeOK, Size

(* A step of the file: it stays, loses a record, or has one more.          *)
Removes(k) == k \in 1..Size /\ leases' = Without(k)

Adds(mac, ip) ==
    /\ Size < MaxRecords
    /\ leases' \in {Record(mac, ip) \o leases, leases \o Record(mac, ip)}

LEMMA AfterRemoval ==
    ASSUME TypeOK, WholeFile, NEW k, Removes(k)
    PROVE  /\ WholeFile' /\ Size' = Size - 1
           /\ leases' \in Seq(Lines) /\ Len(leases') = 4 * (Size - 1)
           /\ \A i \in 1..(Size - 1) : \E j \in 1..Size \ {k} :
                 /\ j = IF i < k THEN i ELSE i + 1
                 /\ IpAt(i)' = IpAt(j) /\ MacAt(i)' = MacAt(j)
<1> DEFINE n == Size
<1>1. n \in Nat /\ k \in 1..n
  BY SizeType DEF Removes
<1>2. leases' = SubSeq(leases, 1, 4 * k - 4) \o SubSeq(leases, 4 * k + 1, Len(leases))
  BY DEF Removes, Without
<1>3. IsFile(leases, n)
  BY DEF WholeFile
<1> HIDE DEF n
<1>4. IsWithout(leases', leases, n, k)
  BY <1>1, <1>2, <1>3, RemovedRecord
<1>5. leases' \in Seq(Lines) /\ Len(leases') = 4 * (n - 1)
  BY <1>4 DEF IsFile, IsWithout
<1>6. Size' = n - 1
  <2>1. n - 1 \in Nat
    BY <1>1
  <2> QED
    BY <2>1, <1>5, Quarter DEF Size
<1> QED
  BY <1>4, <1>5, <1>6 DEF n, IsWithout, WholeFile, IpAt, MacAt

LEMMA AfterAddition ==
    ASSUME TypeOK, WholeFile, NEW mac \in Macs, NEW ip \in Ips \cup {None}, Adds(mac, ip)
    PROVE  /\ WholeFile' /\ Size' = Size + 1
           /\ leases' \in Seq(Lines) /\ Len(leases') = 4 * (Size + 1)
           /\ \E new \in 1..(Size + 1) :
                 /\ IpAt(new)' = ip /\ MacAt(new)' = mac
                 /\ \A i \in 1..(Size + 1) \ {new} : \E j \in 1..Size :
                       /\ j = IF i < new THEN i ELSE i - 1
                       /\ IpAt(i)' = IpAt(j) /\ MacAt(i)' = MacAt(j)
<1> DEFINE n == Size
<1>1. n \in Nat
  BY SizeType
<1>2. IsFile(leases, n)
  BY DEF WholeFile
<1>3. leases' = Record(mac, ip) \o leases \/ leases' = leases \o Record(mac, ip)
  BY DEF Adds
<1>4. Line("ip", ip).value = ip /\ Line("mac", mac).value = mac
  BY DEF Line
<1> HIDE DEF n
<1>5. PICK new \in 1..(n + 1) : IsWith(leases', leases, n, new, mac, ip)
  <2>1. 1 \in 1..(n + 1) /\ n + 1 \in 1..(n + 1)
    BY <1>1
  <2> QED
    BY <2>1, <1>1, <1>2, <1>3, AppendedRecord, PrependedRecord
<1>6. leases' \in Seq(Lines) /\ Len(leases') = 4 * (n + 1)
  BY <1>5 DEF IsFile, IsWith
<1>7. n + 1 \in Nat
  BY <1>1
<1>8. Size' = n + 1
  BY <1>6, <1>7, Quarter DEF Size
<1> QED
  BY <1>4, <1>5, <1>6, <1>8 DEF n, IsWith, WholeFile, IpAt, MacAt

-----------------------------------------------------------------------------
(* find_lease on the file.                                                 *)
LEMMA WholeFront ==
    ASSUME TypeOK, WholeFile
    PROVE  IsFront(leases, 4 * Size, leases, Size)
<1>1. IsFile(leases, Size) /\ Len(leases) = 4 * Size
  BY DEF WholeFile, IsFile
<1>2. 4 * Size <= 4 * Size
  BY SizeType
<1> QED
  BY <1>1, <1>2 DEF IsFront

Known(d) == {i \in 1..Size : IsOf(leases, i, d)}

LEMMA FirstKnown ==
    ASSUME TypeOK, NEW d \in Dirs, Known(d) # {}
    PROVE  \E i \in Known(d) : \A k \in Known(d) : i <= k
<1>1. Known(d) \subseteq Nat
  BY SizeType DEF Known
<1> QED
  BY <1>1, Least

(* find_lease gives an address of a record of d, or there is none.         *)
LEMMA FoundIsOfRecord ==
    ASSUME TypeOK, WholeFile, NEW d \in Dirs
    PROVE  /\ FindLease(leases, d) \in Ips \cup {None}
           /\ FindLease(leases, d) # None =>
                 \E i \in 1..Size : MacAt(i).of = d /\ IpAt(i) = FindLease(leases, d)
<1> DEFINE n == Size
           file == leases
<1>0. n \in Nat /\ IsFront(file, 4 * n, file, n) /\ IsFile(file, n)
  BY SizeType, WholeFront DEF WholeFile
<1>1. CASE Known(d) = {}
  <2>1. \A k \in 1..n : ~IsOf(file, k, d)
    BY <1>1 DEF Known
  <2> HIDE DEF n, file
  <2>2. FindLease(file, d) = None
    BY <1>0, <2>1, NoLeaseFound
  <2> QED
    BY <2>2 DEF file
<1>2. CASE Known(d) # {}
  <2>1. PICK i \in Known(d) : \A k \in Known(d) : i <= k
    BY <1>2, FirstKnown
  <2>2. i \in 1..n /\ IsOf(file, i, d) /\ \A k \in 1..n : IsOf(file, k, d) => i <= k
    BY <2>1 DEF Known
  <2> HIDE DEF n, file
  <2>3. 4 * n \in Nat /\ 4 * i <= 4 * n
    BY <1>0, <2>2
  <2>4. FindLease(file, d) = file[4 * i - 2].value
    BY <1>0, <2>2, <2>3, FoundLease
  <2>5. file[4 * i - 2].value \in Ips \cup {None}
    BY <1>0, <2>2, RecordValues
  <2> QED
    BY <2>2, <2>4, <2>5 DEF n, file, IsOf, MacAt, IpAt
<1> QED
  BY <1>1, <1>2

LEMMA LookupOfWholeFile ==
    ASSUME TypeOK, WholeFile
    PROVE  LookupMatchesRecords
<1> SUFFICES ASSUME NEW d \in Dirs
             PROVE  LET known == {i \in 1..Size : MacAt(i).of = d /\ IpAt(i) # None}
                        lease == IF known = {} THEN None
                                 ELSE IpAt(CHOOSE i \in known : \A k \in known : i <= k)
                    IN /\ FindLease(leases, d) = lease
                       /\ \A m \in 0..Len(leases) :
                             FindLease(SubSeq(leases, 1, m), d) \in {None, lease}
  BY DEF LookupMatchesRecords
<1> DEFINE lease == IF Known(d) = {} THEN None
                    ELSE IpAt(CHOOSE i \in Known(d) : \A k \in Known(d) : i <= k)
<1>1. Known(d) = {i \in 1..Size : MacAt(i).of = d /\ IpAt(i) # None}
  BY DEF Known, IsOf, MacAt, IpAt
<1>2. ASSUME NEW lines, NEW len \in Nat, IsFront(lines, len, leases, Size)
      PROVE  /\ FindLease(lines, d) \in {None, lease}
             /\ len = 4 * Size => FindLease(lines, d) = lease
  <2>0. Size \in Nat
    BY SizeType
  <2>1. CASE Known(d) = {}
    <3>1. \A k \in 1..Size : ~IsOf(leases, k, d)
      BY <2>1 DEF Known
    <3>2. FindLease(lines, d) = None
      BY <1>2, <2>0, <3>1, NoLeaseFound
    <3> QED
      BY <2>1, <3>2
  <2>2. CASE Known(d) # {}
    <3> DEFINE i == CHOOSE i \in Known(d) : \A k \in Known(d) : i <= k
    <3>1. i \in Known(d) /\ \A k \in Known(d) : i <= k
      BY <2>2, FirstKnown
    <3>2. lease = IpAt(i)
      BY <2>2
    <3> HIDE DEF i, lease
    <3>3. i \in 1..Size /\ IsOf(leases, i, d) /\ \A k \in 1..Size : IsOf(leases, k, d) => i <= k
      BY <3>1 DEF Known
    <3>4. FindLease(lines, d) = IF 4 * i <= len THEN leases[4 * i - 2].value ELSE None
      <4>1. IsFront(lines, len, leases, Size)
        BY <1>2
      <4>2. LookupGives(lines, len, leases, i, d)
        BY <2>0, <3>3, <4>1, LookupIs
      <4> QED
        BY <4>2 DEF LookupGives
    <3>5. len = 4 * Size => 4 * i <= len
      BY <2>0, <3>3
    <3> QED
      BY <3>2, <3>4, <3>5 DEF IpAt
  <2> QED
    BY <2>1, <2>2
<1>3. FindLease(leases, d) = lease
  <2>1. 4 * Size \in Nat
    BY SizeType
  <2> QED
    BY <1>2, <2>1, WholeFront
<1>4. ASSUME NEW m \in 0..Len(leases)
      PROVE  FindLease(SubSeq(leases, 1, m), d) \in {None, lease}
  <2> DEFINE lines == SubSeq(leases, 1, m)
  <2>1. leases \in Seq(Lines) /\ Len(leases) = 4 * Size /\ IsFile(leases, Size)
    BY SizeType DEF WholeFile, IsFile
  <2>2. \A k \in 1..m : leases[k] \in Lines
    BY <2>1, ElementOfSeq
  <2>3. /\ Len(lines) = IF 1 <= m THEN m - 1 + 1 ELSE 0
        /\ \A k \in 1..(m - 1 + 1) : lines[k] = leases[1 + k - 1]
    BY <2>2, SubSeqProperties
  <2> HIDE DEF lines
  <2>4. Len(lines) = m /\ \A k \in 1..m : lines[k] = leases[k]
    BY <2>3
  <2>5. m \in Nat /\ m <= 4 * Size
    BY <2>1, SizeType
  <2>6. IsFront(lines, m, leases, Size)
    BY <2>1, <2>4, <2>5 DEF IsFront
  <2>7. FindLease(lines, d) \in {None, lease}
    BY <1>2, <2>5, <2>6
  <2> QED
    BY <2>7 DEF lines
<1> HIDE DEF lease
<1> QED
  BY <1>1, <1>3, <1>4 DEF lease

-----------------------------------------------------------------------------
LEMMA Init1 ==
    ASSUME Init
    PROVE  TypeOK /\ WholeFile
<1>1. Len(leases) = 0 /\ leases \in Seq(Lines) /\ 0 <= 4 * MaxRecords
  BY ConstantsAssumption DEF Init
<1>2. Size = 0
  BY <1>1, Quarter DEF Size
<1>3. WholeFile
  BY <1>1, <1>2 DEF WholeFile, IsFile
<1>4. guest \in [Dirs -> Guests]
  BY DEF Init, Guests
<1>5. wait \in [Dirs -> Waits]
  BY ConstantsAssumption DEF Init, Waits
<1> QED
  BY <1>1, <1>3, <1>4, <1>5 DEF Init, TypeOK

LEMMA WrittenType ==
    ASSUME NEW d \in Dirs
    PROVE  Written(d) \in Macs /\ Written(d).of = d
BY DEF Written, Mac, Macs

(* Every step of the file is one of the four.                              *)
FileSteps ==
    \/ UNCHANGED leases
    \/ \E k \in 1..Size : Removes(k)
    \/ \E mac \in Macs : \E ip \in Ips \cup {None} : Adds(mac, ip)

LEMMA EndedVm ==
    ASSUME TypeOK, NEW d \in Dirs, VfkitEnds(d)
    PROVE  FileSteps /\ guest' \in [Dirs -> Guests] /\ kept' \subseteq Dirs
<1>1. Off \in Guests
  BY DEF Off, Guests
<1> QED
  BY <1>1 DEF TypeOK, VfkitEnds, VfkitKilled, FileSteps, Removes

LEMMA FileStep ==
    ASSUME TypeOK, WholeFile, FileSteps
    PROVE  WholeFile' /\ leases' \in Seq(Lines) /\ Len(leases') <= 4 * MaxRecords
<1>1. Size \in Nat /\ MaxRecords \in Nat
  BY SizeType, ConstantsAssumption
<1>2. CASE UNCHANGED leases
  BY <1>2 DEF TypeOK, WholeFile, Size
<1>3. ASSUME NEW k \in 1..Size, Removes(k)
      PROVE  WholeFile' /\ leases' \in Seq(Lines) /\ Len(leases') <= 4 * MaxRecords
  <2>1. Len(leases) = 4 * Size /\ Len(leases) <= 4 * MaxRecords
    BY DEF TypeOK, WholeFile, IsFile
  <2>2. 4 * (Size - 1) <= 4 * MaxRecords
    BY <1>1, <2>1
  <2> QED
    BY <1>3, <2>2, AfterRemoval
<1>4. ASSUME NEW mac \in Macs, NEW ip \in Ips \cup {None}, Adds(mac, ip)
      PROVE  WholeFile' /\ leases' \in Seq(Lines) /\ Len(leases') <= 4 * MaxRecords
  <2>1. Size < MaxRecords
    BY <1>4 DEF Adds
  <2>2. 4 * (Size + 1) <= 4 * MaxRecords
    BY <1>1, <2>1
  <2> QED
    BY <1>4, <2>2, AfterAddition
<1> QED
  BY <1>2, <1>3, <1>4 DEF FileSteps

LEMMA WaitTypes ==
    ASSUME NEW ip \in Ips \cup {None}, NEW pc \in {"idle", "lease", "ssh", "asked", "unheard"},
           NEW result \in {"none", "ok", "failed", "killed"}
    PROVE  /\ Waiting(pc, ip) \in Waits
           /\ Ended(result) \in Waits
           /\ [Ended(result) EXCEPT !.ip = ip] \in Waits
<1>1. \A k \in {"idle", "lease", "ssh", "asked", "unheard"} :
         \A a \in Ips \cup {None} : Waiting(k, a) \in Waits
  BY ConstantsAssumption DEF Waiting, Waits
<1>2. Ended(result) \in Waits
  <2>1. Waiting("idle", None) \in Waits
    BY <1>1
  <2> QED
    BY <2>1 DEF Ended, Waits
<1>3. \A w \in Waits : [w EXCEPT !.ip = ip] \in Waits
  BY DEF Waits
<1> QED
  BY <1>1, <1>2, <1>3

LEMMA WaitFields ==
    ASSUME NEW w \in Waits, NEW pc \in {"idle", "lease", "ssh", "asked", "unheard"},
           NEW waited \in Nat, waited <= LeaseTimeout \/ waited <= SshTimeout
    PROVE  /\ [w EXCEPT !.pc = pc] \in Waits
           /\ [w EXCEPT !.waited = waited] \in Waits
           /\ [w EXCEPT !.pc = pc, !.waited = waited] \in Waits
BY DEF Waits

(* TypeOK alone is not inductive: the server adds records of four lines.   *)
LEMMA TypeStep ==
    ASSUME TypeOK, WholeFile, [Next]_vars
    PROVE  TypeOK' /\ WholeFile'
<1> USE DEF TypeOK
<1>0. /\ wait \in [Dirs -> Waits] /\ guest \in [Dirs -> Guests]
      /\ readyAt \in [Dirs -> Nat] /\ kept \subseteq Dirs
  OBVIOUS
<1> SUFFICES /\ FileSteps
             /\ guest' \in [Dirs -> Guests]
             /\ wait' \in [Dirs -> Waits]
             /\ readyAt' \in [Dirs -> Nat]
             /\ kept' \subseteq Dirs
  BY FileStep
<1>1. ASSUME NEW d \in Dirs, Launch(d)
      PROVE  /\ FileSteps /\ guest' \in [Dirs -> Guests] /\ wait' \in [Dirs -> Waits]
             /\ readyAt' \in [Dirs -> Nat] /\ kept' \subseteq Dirs
  <2>1. guest' \in [Dirs -> Guests]
    BY <1>0, <1>1 DEF Launch, Guests
  <2>2. wait' \in [Dirs -> Waits]
    BY <1>0, <1>1, WaitTypes DEF Launch
  <2> QED
    BY <1>0, <1>1, <2>1, <2>2 DEF Launch, FileSteps
<1>2. ASSUME NEW d \in Dirs, LeaseFound(d)
      PROVE  wait' \in [Dirs -> Waits]
  BY <1>0, <1>2, WaitTypes, FoundIsOfRecord DEF LeaseFound
<1>3. ASSUME NEW d \in Dirs, LeasePoll(d)
      PROVE  wait' \in [Dirs -> Waits]
  <2>1. wait[d].waited + 1 \in Nat /\ wait[d].waited + 1 <= LeaseTimeout
    BY <1>0, <1>3, ConstantsAssumption DEF LeasePoll, Waits
  <2>2. [wait[d] EXCEPT !.waited = wait[d].waited + 1] \in Waits
    BY <1>0, <2>1, WaitFields
  <2> QED
    BY <1>0, <1>3, <2>2 DEF LeasePoll
<1>4. ASSUME NEW d \in Dirs, NEW result \in {"failed", "killed"},
             wait' = [wait EXCEPT ![d] = Ended(result)]
      PROVE  wait' \in [Dirs -> Waits]
  <2>1. Ended(result) \in Waits
    BY WaitTypes
  <2> QED
    BY <1>0, <1>4, <2>1
<1>5. ASSUME NEW d \in Dirs, AskGuest(d)
      PROVE  wait' \in [Dirs -> Waits]
  <2> DEFINE pc == IF Answers(wait[d].ip) THEN "asked" ELSE "unheard"
  <2>1. [wait[d] EXCEPT !.pc = pc] \in Waits
    BY <1>0 DEF Waits
  <2> QED
    BY <1>0, <1>5, <2>1 DEF AskGuest
<1>6. ASSUME NEW d \in Dirs, SshAnswers(d)
      PROVE  wait' \in [Dirs -> Waits]
  <2>1. wait[d].ip \in Ips \cup {None}
    BY <1>0 DEF Waits
  <2> QED
    BY <1>0, <1>6, <2>1, WaitTypes DEF SshAnswers
<1>7. ASSUME NEW d \in Dirs, NEW ticks \in 0..MaxAttempt, SshPause(d, ticks)
      PROVE  wait' \in [Dirs -> Waits]
  <2> DEFINE next == wait[d].waited + ticks + Interval
  <2>1. next \in Nat /\ next <= SshTimeout
    BY <1>0, <1>7, ConstantsAssumption DEF SshPause, Waits
  <2>2. wait' = [wait EXCEPT ![d].pc = "ssh", ![d].waited = next]
    BY <1>7 DEF SshPause
  <2> HIDE DEF next
  <2>3. [wait[d] EXCEPT !.pc = "ssh", !.waited = next] \in Waits
    BY <1>0, <2>1, WaitFields
  <2> QED
    BY <1>0, <2>2, <2>3
<1>8. ASSUME NEW d \in Dirs, NEW i \in Ips, Acquire(d, i)
      PROVE  FileSteps /\ guest' \in [Dirs -> Guests]
  <2>1. FileSteps
    BY <1>8, WrittenType DEF Acquire, FileSteps, Adds
  <2>2. guest' \in [Dirs -> Guests]
    BY <1>0, <1>8 DEF Acquire, Guests
  <2> QED
    BY <2>1, <2>2
<1>9. ASSUME NEW d \in Dirs, Booted(d)
      PROVE  guest' \in [Dirs -> Guests] /\ readyAt' \in [Dirs -> Nat]
  <2>1. guest' \in [Dirs -> Guests]
    BY <1>0, <1>9 DEF Booted, Guests
  <2>2. (IF wait[d].pc = "lease" THEN 0 ELSE wait[d].waited) \in Nat
    BY <1>0 DEF Waits
  <2> QED
    BY <1>0, <1>9, <2>1, <2>2 DEF Booted
<1>10. ASSUME NEW i \in Ips \cup {None}, OtherLease(i)
       PROVE  FileSteps
  BY <1>10 DEF OtherLease, FileSteps, Adds, Macs
<1>11. ASSUME NEW n \in 1..MaxRecords, Expire(n)
       PROVE  FileSteps /\ kept' \subseteq Dirs
  BY <1>0, <1>11 DEF Expire, FileSteps, Removes
<1>12. CASE UNCHANGED vars
  BY <1>0, <1>12 DEF vars, FileSteps
<1> HIDE DEF TypeOK
<1>13. CASE \E d \in Dirs : LeaseFound(d) \/ LeasePoll(d) \/ AskGuest(d) \/ SshAnswers(d)
  BY <1>0, <1>2, <1>3, <1>5, <1>6, <1>13
     DEF LeaseFound, LeasePoll, AskGuest, SshAnswers, FileSteps
<1>14. CASE \E d \in Dirs : \E ticks \in 0..MaxAttempt : SshPause(d, ticks)
  BY <1>0, <1>7, <1>14 DEF SshPause, FileSteps
<1>15. CASE \E d \in Dirs : NoLease(d) \/ \E ticks \in 0..MaxAttempt : SshGivesUp(d, ticks)
  <2>1. PICK d \in Dirs : NoLease(d) \/ \E ticks \in 0..MaxAttempt : SshGivesUp(d, ticks)
    BY <1>15
  <2>2. VfkitEnds(d) /\ wait' = [wait EXCEPT ![d] = Ended("failed")] /\ UNCHANGED readyAt
    BY <2>1 DEF NoLease, SshGivesUp, VfkitEnds
  <2>3. "failed" \in {"failed", "killed"}
    OBVIOUS
  <2>4. wait' \in [Dirs -> Waits]
    BY <1>4, <2>2, <2>3
  <2> QED
    BY <1>0, <2>2, <2>4, EndedVm
<1>16. CASE \E d \in Dirs : Kill(d) \/ Down(d)
  <2>1. ASSUME NEW d \in Dirs, Kill(d)
        PROVE  wait' \in [Dirs -> Waits] /\ UNCHANGED <<leases, guest, readyAt, kept>>
    <3>1. "killed" \in {"failed", "killed"}
      OBVIOUS
    <3> QED
      BY <1>4, <2>1, <3>1 DEF Kill
  <2> QED
    BY <1>0, <1>16, <2>1, EndedVm DEF Down, FileSteps
<1>17. CASE \E d \in Dirs : Booted(d) \/ \E i \in Ips : Acquire(d, i)
  BY <1>0, <1>8, <1>9, <1>17 DEF Acquire, Booted, FileSteps
<1>18. CASE \E i \in Ips \cup {None} : OtherLease(i)
  BY <1>0, <1>10, <1>18 DEF OtherLease
<1>19. CASE \E n \in 1..MaxRecords : Expire(n)
  BY <1>0, <1>11, <1>19 DEF Expire
<1> QED
  BY <1>1, <1>12, <1>13, <1>14, <1>15, <1>16, <1>17, <1>18, <1>19, Actions

(* Every reachable state is well typed, and the lease file consists of     *)
(* whole records, however many directories launch, find, give up and end   *)
(* (vfkit.rs launch, ssh.rs wait_ready) while the server writes.           *)
THEOREM TypeCorrect == Spec => [](TypeOK /\ WholeFile)
<1>1. Init => TypeOK /\ WholeFile
  BY Init1
<1>2. TypeOK /\ WholeFile /\ [Next]_vars => (TypeOK /\ WholeFile)'
  BY TypeStep
<1> QED
  BY <1>1, <1>2, PTL DEF Spec

(* find_lease (vfkit.rs) returns the address of the first record of the    *)
(* MAC, and from a file that is being written that address or none.        *)
THEOREM LookupCorrect == Spec => []LookupMatchesRecords
<1>1. TypeOK /\ WholeFile => LookupMatchesRecords
  BY LookupOfWholeFile
<1> QED
  BY <1>1, TypeCorrect, PTL

-----------------------------------------------------------------------------
(* Whose records the file has.  A guest that is off has no address, the    *)
(* server gives each record of a directory's MAC an address, and of a MAC  *)
(* that has left no lease there is at most the record of its guest.        *)
OffHasNoAddress == \A d \in Dirs : guest[d].state = "off" => guest[d].ip = None

RecordsHaveAddresses == \A i \in 1..Size : MacAt(i).of \in Dirs => IpAt(i) # None

NoRecord(d) == \A i \in 1..Size : MacAt(i).of # d

OwnRecord(d) ==
    \A i \in 1..Size :
        MacAt(i).of = d => /\ IpAt(i) = guest[d].ip
                           /\ \A j \in 1..Size : MacAt(j).of = d => j = i

OwnRecords == \A d \in Dirs \ kept : OwnRecord(d)

OwnInv == OffHasNoAddress /\ RecordsHaveAddresses /\ OwnRecords /\ WaitsForOwnGuest

(* One lemma for each kind of step of the file.                            *)
LEMMA OwnAfterNone ==
    ASSUME UNCHANGED leases, NEW d \in Dirs,
           NoRecord(d) \/ (OwnRecord(d) /\ guest'[d].ip = guest[d].ip)
    PROVE  OwnRecord(d)'
<1>1. Size' = Size /\ \A i : MacAt(i)' = MacAt(i) /\ IpAt(i)' = IpAt(i)
  BY DEF Size, MacAt, IpAt
<1> QED
  BY <1>1 DEF NoRecord, OwnRecord

LEMMA OwnAfterRemoval ==
    ASSUME TypeOK, WholeFile, NEW k, Removes(k), NEW d \in Dirs,
           \/ OwnRecord(d) /\ guest'[d].ip = guest[d].ip
           \/ \A j \in 1..Size \ {k} : MacAt(j).of # d
    PROVE  OwnRecord(d)'
<1>1. /\ Size' = Size - 1
      /\ \A i \in 1..(Size - 1) : \E j \in 1..Size \ {k} :
            /\ j = IF i < k THEN i ELSE i + 1
            /\ IpAt(i)' = IpAt(j) /\ MacAt(i)' = MacAt(j)
  BY AfterRemoval
<1>2. Size \in Nat /\ k \in Nat
  BY SizeType DEF Removes
<1>3. ASSUME NEW i \in 1..(Size - 1), MacAt(i)'.of = d
      PROVE  /\ IpAt(i)' = guest'[d].ip
             /\ \A m \in 1..(Size - 1) : MacAt(m)'.of = d => m = i
  <2>1. PICK j \in 1..Size \ {k} :
            /\ j = IF i < k THEN i ELSE i + 1
            /\ IpAt(i)' = IpAt(j) /\ MacAt(i)' = MacAt(j)
    BY <1>1
  <2>2. OwnRecord(d) /\ guest'[d].ip = guest[d].ip
    BY <1>3, <2>1
  <2>3. ASSUME NEW m \in 1..(Size - 1), MacAt(m)'.of = d
        PROVE  m = i
    <3>1. PICK l \in 1..Size \ {k} :
              l = (IF m < k THEN m ELSE m + 1) /\ MacAt(m)' = MacAt(l)
      BY <1>1
    <3>2. l = j
      BY <1>3, <2>1, <2>2, <2>3, <3>1 DEF OwnRecord
    <3> QED
      BY <1>2, <2>1, <3>1, <3>2
  <2>4. IpAt(j) = guest[d].ip
    BY <1>3, <2>1, <2>2 DEF OwnRecord
  <2> QED
    BY <2>1, <2>2, <2>3, <2>4
<1> QED
  BY <1>1, <1>3 DEF OwnRecord

LEMMA OwnAfterAddition ==
    ASSUME TypeOK, WholeFile, NEW mac \in Macs, NEW ip \in Ips \cup {None}, Adds(mac, ip),
           NEW d \in Dirs,
           \/ OwnRecord(d) /\ guest'[d].ip = guest[d].ip /\ mac.of # d
           \/ NoRecord(d) /\ guest'[d].ip = ip
    PROVE  OwnRecord(d)'
<1>1. Size' = Size + 1
  BY AfterAddition
<1>2. PICK new \in 1..(Size + 1) :
          /\ IpAt(new)' = ip /\ MacAt(new)' = mac
          /\ \A i \in 1..(Size + 1) \ {new} : \E j \in 1..Size :
                /\ j = IF i < new THEN i ELSE i - 1
                /\ IpAt(i)' = IpAt(j) /\ MacAt(i)' = MacAt(j)
  BY AfterAddition
<1>3. Size \in Nat
  BY SizeType
<1>4. CASE NoRecord(d) /\ guest'[d].ip = ip
  <2>1. \A i \in 1..(Size + 1) : MacAt(i)'.of = d => i = new
    BY <1>2, <1>4 DEF NoRecord
  <2> QED
    BY <1>1, <1>2, <1>4, <2>1 DEF OwnRecord
<1>5. CASE OwnRecord(d) /\ guest'[d].ip = guest[d].ip /\ mac.of # d
  <2>1. ASSUME NEW i \in 1..(Size + 1), MacAt(i)'.of = d
        PROVE  /\ IpAt(i)' = guest'[d].ip
               /\ \A m \in 1..(Size + 1) : MacAt(m)'.of = d => m = i
    <3>1. PICK j \in 1..Size :
              /\ i # new /\ j = IF i < new THEN i ELSE i - 1
              /\ IpAt(i)' = IpAt(j) /\ MacAt(i)' = MacAt(j)
      BY <1>2, <1>5, <2>1
    <3>2. ASSUME NEW m \in 1..(Size + 1), MacAt(m)'.of = d
          PROVE  m = i
      <4>1. PICK l \in 1..Size :
                /\ m # new /\ l = IF m < new THEN m ELSE m - 1
                /\ MacAt(m)' = MacAt(l)
        BY <1>2, <1>5, <3>2
      <4>2. l = j
        BY <1>5, <2>1, <3>1, <3>2, <4>1 DEF OwnRecord
      <4> QED
        BY <1>3, <3>1, <4>1, <4>2
    <3>3. IpAt(j) = guest[d].ip
      BY <1>5, <2>1, <3>1 DEF OwnRecord
    <3> QED
      BY <1>5, <3>1, <3>2, <3>3
  <2> QED
    BY <1>1, <2>1 DEF OwnRecord
<1> QED
  BY <1>4, <1>5

LEMMA AddressesStep ==
    ASSUME TypeOK, WholeFile, RecordsHaveAddresses,
           \/ UNCHANGED leases
           \/ \E k \in 1..Size : Removes(k)
           \/ \E mac \in Macs : \E ip \in Ips \cup {None} :
                 Adds(mac, ip) /\ (mac.of \in Dirs => ip # None)
    PROVE  RecordsHaveAddresses'
<1>1. CASE UNCHANGED leases
  BY <1>1 DEF RecordsHaveAddresses, Size, MacAt, IpAt
<1>2. ASSUME NEW k \in 1..Size, Removes(k)
      PROVE  RecordsHaveAddresses'
  <2>1. /\ Size' = Size - 1
        /\ \A i \in 1..(Size - 1) : \E j \in 1..Size :
              IpAt(i)' = IpAt(j) /\ MacAt(i)' = MacAt(j)
    BY <1>2, AfterRemoval
  <2> QED
    BY <2>1 DEF RecordsHaveAddresses
<1>3. ASSUME NEW mac \in Macs, NEW ip \in Ips \cup {None}, Adds(mac, ip),
             mac.of \in Dirs => ip # None
      PROVE  RecordsHaveAddresses'
  <2>1. Size' = Size + 1
    BY <1>3, AfterAddition
  <2>2. PICK new \in 1..(Size + 1) :
            /\ IpAt(new)' = ip /\ MacAt(new)' = mac
            /\ \A i \in 1..(Size + 1) \ {new} : \E j \in 1..Size :
                  IpAt(i)' = IpAt(j) /\ MacAt(i)' = MacAt(j)
    BY <1>3, AfterAddition
  <2> QED
    BY <1>3, <2>1, <2>2 DEF RecordsHaveAddresses
<1> QED
  BY <1>1, <1>2, <1>3

(* A VM ends: its own record goes, or the directory's MAC is kept.         *)
LEMMA OwnAfterEnd ==
    ASSUME TypeOK, WholeFile, OwnInv, NEW d \in Dirs, VfkitEnds(d),
           \A e \in Dirs \ {d} : wait'[e] = wait[e]
    PROVE  OwnInv'
<1>0. guest \in [Dirs -> Guests]
  BY DEF TypeOK
<1>1. /\ guest'[d].state = "off" /\ guest'[d].ip = None
      /\ \A e \in Dirs \ {d} : guest'[e] = guest[e]
  BY <1>0 DEF VfkitEnds, VfkitKilled, Off
<1>2. /\ kept \subseteq kept'
      /\ \/ \E i \in 1..Size : Leased(d, i) /\ leases' = Without(i) /\ kept' = kept
         \/ guest[d].ip = None /\ leases' = leases /\ kept' = kept
         \/ d \in kept' /\ leases' = leases
  BY DEF VfkitEnds, VfkitKilled
<1>3. OffHasNoAddress'
  BY <1>1 DEF OwnInv, OffHasNoAddress
<1>4. RecordsHaveAddresses'
  BY <1>2, AddressesStep DEF OwnInv, Removes
<1>5. WaitsForOwnGuest'
  <2> SUFFICES ASSUME NEW e \in Dirs, e \notin kept',
                      wait'[e].ip # None, guest'[e].state # "off"
               PROVE  wait'[e].ip = guest'[e].ip
    BY DEF WaitsForOwnGuest
  <2> QED
    BY <1>1, <1>2 DEF OwnInv, WaitsForOwnGuest
<1>6. ASSUME NEW e \in Dirs, e \notin kept'
      PROVE  OwnRecord(e)'
  <2>1. OwnRecord(e)
    BY <1>2, <1>6 DEF OwnInv, OwnRecords
  <2>2. CASE leases' = leases /\ (guest[d].ip = None \/ d \in kept')
    <3>1. e = d => guest[e].ip = None
      BY <1>6, <2>2
    <3>2. guest'[e].ip = guest[e].ip
      BY <1>1, <3>1
    <3> QED
      BY <2>1, <2>2, <3>2, OwnAfterNone
  <2>3. ASSUME NEW i \in 1..Size, Leased(d, i), leases' = Without(i)
        PROVE  OwnRecord(e)'
    <3>1. e = d => \A j \in 1..Size \ {i} : MacAt(j).of # e
      BY <2>1, <2>3 DEF OwnRecord, Leased
    <3>2. e # d => guest'[e].ip = guest[e].ip
      BY <1>1
    <3>3. Removes(i)
      BY <2>3 DEF Removes
    <3> QED
      BY <2>1, <3>1, <3>2, <3>3, OwnAfterRemoval
  <2> QED
    BY <1>2, <2>2, <2>3
<1>7. OwnRecords'
  BY <1>6 DEF OwnRecords
<1> QED
  BY <1>3, <1>4, <1>5, <1>7 DEF OwnInv

(* A step that leaves the file and every address alone.                    *)
LEMMA OwnAfterWait ==
    ASSUME TypeOK, OwnInv, UNCHANGED leases, kept' \subseteq kept,
           \A e \in kept \ kept' : NoRecord(e),
           \A e \in Dirs : guest'[e].ip = guest[e].ip,
           \A e \in Dirs : guest'[e].state = "off" => guest[e].state = "off",
           \A e \in Dirs \ kept' :
               \/ wait'[e].ip = None
               \/ wait'[e].ip = guest[e].ip
               \/ e \notin kept /\ wait'[e].ip = wait[e].ip
                  /\ (guest[e].state = "off" => guest'[e].state = "off")
    PROVE  OwnInv'
<1>1. OffHasNoAddress'
  BY DEF OwnInv, OffHasNoAddress
<1>2. RecordsHaveAddresses'
  BY DEF OwnInv, RecordsHaveAddresses, Size, MacAt, IpAt
<1>3. WaitsForOwnGuest'
  <2> SUFFICES ASSUME NEW e \in Dirs, e \notin kept',
                      wait'[e].ip # None, guest'[e].state # "off"
               PROVE  wait'[e].ip = guest'[e].ip
    BY DEF WaitsForOwnGuest
  <2> QED
    BY DEF OwnInv, WaitsForOwnGuest
<1>4. ASSUME NEW e \in Dirs, e \notin kept'
      PROVE  OwnRecord(e)'
  <2>1. NoRecord(e) \/ OwnRecord(e)
    BY <1>4 DEF OwnInv, OwnRecords
  <2> QED
    BY <2>1, OwnAfterNone
<1>5. OwnRecords'
  BY <1>4 DEF OwnRecords
<1> QED
  BY <1>1, <1>2, <1>3, <1>5 DEF OwnInv

LEMMA OwnStep ==
    ASSUME TypeOK, WholeFile, OwnInv, [Next]_vars
    PROVE  OwnInv'
<1>0. /\ wait \in [Dirs -> Waits] /\ guest \in [Dirs -> Guests] /\ kept \subseteq Dirs
  BY DEF TypeOK
<1>1. ASSUME NEW d \in Dirs, Launch(d)
      PROVE  OwnInv'
  <2>1. /\ UNCHANGED leases /\ kept' \subseteq kept
        /\ \A e \in kept : e # d => e \in kept'
        /\ d \in kept /\ d \notin kept' => NoRecord(d)
    BY <1>1 DEF Launch, NoRecord
  <2>2. /\ guest'[d].state = "booting" /\ guest'[d].ip = guest[d].ip
        /\ \A e \in Dirs \ {d} : guest'[e] = guest[e]
    BY <1>0, <1>1 DEF Launch, Guests
  <2>3. wait'[d].ip = None /\ \A e \in Dirs \ {d} : wait'[e] = wait[e]
    BY <1>0, <1>1 DEF Launch, Waiting
  <2>4. /\ \A e \in kept \ kept' : NoRecord(e)
        /\ \A e \in Dirs : guest'[e].ip = guest[e].ip
        /\ \A e \in Dirs : guest'[e].state = "off" => guest[e].state = "off"
    BY <1>0, <2>1, <2>2
  <2>5. ASSUME NEW e \in Dirs \ kept'
        PROVE  \/ wait'[e].ip = None
               \/ e \notin kept /\ wait'[e].ip = wait[e].ip
                  /\ (guest[e].state = "off" => guest'[e].state = "off")
    BY <2>1, <2>2, <2>3
  <2> QED
    BY <2>1, <2>4, <2>5, OwnAfterWait
<1>2. ASSUME NEW d \in Dirs, LeaseFound(d)
      PROVE  OwnInv'
  <2>1. UNCHANGED <<leases, guest, kept>>
    BY <1>2 DEF LeaseFound
  <2>2. /\ wait'[d].ip = FindLease(leases, d) /\ FindLease(leases, d) # None
        /\ \A e \in Dirs \ {d} : wait'[e] = wait[e]
    BY <1>0, <1>2 DEF LeaseFound, Waiting
  <2>3. PICK i \in 1..Size : MacAt(i).of = d /\ IpAt(i) = FindLease(leases, d)
    BY <2>2, FoundIsOfRecord
  <2>4. d \notin kept => wait'[d].ip = guest[d].ip
    BY <2>2, <2>3 DEF OwnInv, OwnRecords, OwnRecord
  <2> QED
    BY <2>1, <2>2, <2>4, OwnAfterWait
<1>3. ASSUME NEW d \in Dirs, UNCHANGED <<leases, guest, kept>>,
             wait'[d].ip = wait[d].ip, \A e \in Dirs \ {d} : wait'[e] = wait[e]
      PROVE  OwnInv'
  BY <1>3, OwnAfterWait
<1>4. ASSUME NEW d \in Dirs, LeasePoll(d) \/ AskGuest(d) \/ SshAnswers(d)
      PROVE  OwnInv'
  <2>1. /\ UNCHANGED <<leases, guest, kept>>
        /\ \A e \in Dirs \ {d} : wait'[e] = wait[e]
    BY <1>0, <1>4 DEF LeasePoll, AskGuest, SshAnswers
  <2>2. wait'[d].ip = wait[d].ip
    <3>1. CASE LeasePoll(d)
      BY <1>0, <3>1 DEF LeasePoll, Waits
    <3>2. CASE AskGuest(d)
      BY <1>0, <3>2 DEF AskGuest, Waits
    <3>3. CASE SshAnswers(d)
      BY <1>0, <3>3 DEF SshAnswers, Waits, Ended, Waiting
    <3> QED
      BY <1>4, <3>1, <3>2, <3>3
  <2> QED
    BY <1>3, <2>1, <2>2
<1>5. ASSUME NEW d \in Dirs, NEW ticks \in 0..MaxAttempt, SshPause(d, ticks)
      PROVE  OwnInv'
  <2>1. /\ UNCHANGED <<leases, guest, kept>>
        /\ \A e \in Dirs \ {d} : wait'[e] = wait[e]
        /\ wait'[d].ip = wait[d].ip
    BY <1>0, <1>5 DEF SshPause, Waits
  <2> QED
    BY <1>3, <2>1
<1>6. ASSUME NEW d \in Dirs, NoLease(d) \/ (\E ticks \in 0..MaxAttempt : SshGivesUp(d, ticks))
                             \/ Down(d)
      PROVE  OwnInv'
  <2>1. VfkitEnds(d) /\ \A e \in Dirs \ {d} : wait'[e] = wait[e]
    BY <1>0, <1>6 DEF NoLease, SshGivesUp, Down, VfkitEnds
  <2> QED
    BY <2>1, OwnAfterEnd
<1>7. ASSUME NEW d \in Dirs, NEW i \in Ips, Acquire(d, i)
      PROVE  OwnInv'
  <2>1. /\ guest[d].state = "booting" /\ guest[d].ip = None
        /\ guest'[d].state = "booting" /\ guest'[d].ip = i
        /\ \A e \in Dirs \ {d} : guest'[e] = guest[e]
        /\ UNCHANGED <<wait, kept>>
    BY <1>0, <1>7 DEF Acquire, Guests
  <2>2. \/ (\E n \in 1..Size : MacAt(n).of = d /\ IpAt(n) = i) /\ UNCHANGED leases
        \/ Adds(Written(d), i)
    BY <1>7 DEF Acquire, Adds
  <2>3. i # None
    BY ConstantsAssumption
  <2>4. d \notin kept => NoRecord(d)
    BY <2>1 DEF OwnInv, OwnRecords, OwnRecord, RecordsHaveAddresses, NoRecord
  <2>5. OffHasNoAddress'
    BY <2>1 DEF OwnInv, OffHasNoAddress
  <2>6. RecordsHaveAddresses'
    BY <2>2, <2>3, WrittenType, AddressesStep DEF OwnInv
  <2>7. WaitsForOwnGuest'
    <3> SUFFICES ASSUME NEW e \in Dirs, e \notin kept',
                        wait'[e].ip # None, guest'[e].state # "off"
                 PROVE  wait'[e].ip = guest'[e].ip
      BY DEF WaitsForOwnGuest
    <3> QED
      BY <2>1 DEF OwnInv, WaitsForOwnGuest
  <2>8. ASSUME NEW e \in Dirs, e \notin kept'
        PROVE  OwnRecord(e)'
    <3>1. OwnRecord(e) /\ e \notin kept
      BY <2>1, <2>8 DEF OwnInv, OwnRecords
    <3>2. CASE (\E n \in 1..Size : MacAt(n).of = d /\ IpAt(n) = i) /\ UNCHANGED leases
      <4>1. e # d
        BY <2>4, <3>1, <3>2 DEF NoRecord
      <4> QED
        BY <2>1, <3>1, <3>2, <4>1, OwnAfterNone
    <3>3. CASE Adds(Written(d), i)
      <4>1. \/ OwnRecord(e) /\ guest'[e].ip = guest[e].ip /\ Written(d).of # e
            \/ NoRecord(e) /\ guest'[e].ip = i
        BY <2>1, <2>4, <3>1, WrittenType
      <4> QED
        BY <3>3, <4>1, WrittenType, OwnAfterAddition
    <3> QED
      BY <2>2, <3>2, <3>3
  <2>9. OwnRecords'
    BY <2>8 DEF OwnRecords
  <2> QED
    BY <2>5, <2>6, <2>7, <2>9 DEF OwnInv
<1>8. ASSUME NEW d \in Dirs, Booted(d)
      PROVE  OwnInv'
  <2>1. /\ UNCHANGED <<leases, wait, kept>> /\ guest[d].state = "booting"
        /\ guest'[d].state = "up" /\ guest'[d].ip = guest[d].ip
        /\ \A e \in Dirs \ {d} : guest'[e] = guest[e]
    BY <1>0, <1>8 DEF Booted, Guests
  <2>2. /\ \A e \in Dirs : guest'[e].ip = guest[e].ip
        /\ \A e \in Dirs : guest'[e].state = "off" => guest[e].state = "off"
        /\ \A e \in Dirs : guest[e].state = "off" => guest'[e].state = "off"
    BY <2>1
  <2> QED
    BY <2>1, <2>2, OwnAfterWait
<1>9. ASSUME NEW i \in Ips \cup {None}, OtherLease(i)
      PROVE  OwnInv'
  <2> DEFINE mac == [of |-> Foreign, padded |-> FALSE]
  <2>1. Adds(mac, i) /\ UNCHANGED <<guest, wait, kept>>
    BY <1>9 DEF OtherLease, Adds
  <2>2. mac \in Macs /\ mac.of = Foreign /\ Foreign \notin Dirs
    BY ConstantsAssumption DEF Macs
  <2> HIDE DEF mac
  <2>3. RecordsHaveAddresses'
    BY <2>1, <2>2, AddressesStep DEF OwnInv
  <2>4. ASSUME NEW e \in Dirs, e \notin kept'
        PROVE  OwnRecord(e)'
    <3>1. OwnRecord(e) /\ guest'[e].ip = guest[e].ip /\ mac.of # e
      BY <2>1, <2>2, <2>4 DEF OwnInv, OwnRecords
    <3> QED
      BY <2>1, <2>2, <3>1, OwnAfterAddition
  <2>5. OwnRecords'
    BY <2>4 DEF OwnRecords
  <2> QED
    BY <2>1, <2>3, <2>5 DEF OwnInv, OffHasNoAddress, WaitsForOwnGuest
<1>10. ASSUME NEW n \in 1..MaxRecords, Expire(n)
       PROVE  OwnInv'
  <2>1. /\ Removes(n) /\ UNCHANGED <<guest, wait>> /\ kept' \subseteq kept
        /\ \A e \in kept \ kept' :
              wait[e].ip = None /\ \A j \in 1..Size \ {n} : MacAt(j).of # e
    BY <1>10 DEF Expire, Removes
  <2>2. RecordsHaveAddresses'
    BY <2>1, AddressesStep DEF OwnInv, Removes
  <2>3. ASSUME NEW e \in Dirs, e \notin kept'
        PROVE  OwnRecord(e)'
    <3>1. \/ OwnRecord(e) /\ guest'[e].ip = guest[e].ip
          \/ \A j \in 1..Size \ {n} : MacAt(j).of # e
      BY <2>1, <2>3 DEF OwnInv, OwnRecords
    <3> QED
      BY <2>1, <3>1, OwnAfterRemoval
  <2>4. OwnRecords'
    BY <2>3 DEF OwnRecords
  <2>5. WaitsForOwnGuest'
    <3> SUFFICES ASSUME NEW e \in Dirs, e \notin kept',
                        wait'[e].ip # None, guest'[e].state # "off"
                 PROVE  wait'[e].ip = guest'[e].ip
      BY DEF WaitsForOwnGuest
    <3> QED
      BY <2>1 DEF OwnInv, WaitsForOwnGuest
  <2> QED
    BY <2>1, <2>2, <2>4, <2>5 DEF OwnInv, OffHasNoAddress
<1>11. CASE UNCHANGED vars
  BY <1>11, OwnAfterWait DEF vars
<1>12. ASSUME NEW d \in Dirs, Kill(d)
       PROVE  OwnInv'
  <2>1. UNCHANGED <<leases, guest, kept>>
    BY <1>12 DEF Kill
  <2>2. wait'[d].ip = None /\ \A e \in Dirs \ {d} : wait'[e] = wait[e]
    BY <1>0, <1>12 DEF Kill, Ended, Waiting
  <2> QED
    BY <2>1, <2>2, OwnAfterWait
<1> QED
  BY <1>1, <1>2, <1>4, <1>5, <1>6, <1>7, <1>8, <1>9, <1>10, <1>11, <1>12, Actions

(* The address a command waits on, or has reported, is that of the guest   *)
(* it launched, unless a VM of the same MAC has left its lease (vfkit.rs   *)
(* discover_guest_ip).                                                     *)
THEOREM OwnGuests == Spec => []WaitsForOwnGuest
<1>1. Init => OwnInv
  <2> SUFFICES ASSUME Init PROVE OwnInv
    OBVIOUS
  <2>1. Size = 0
    <3>1. Len(leases) = 0
      BY DEF Init
    <3> QED
      BY <3>1, Quarter DEF Size
  <2>2. \A d \in Dirs : guest[d].ip = None /\ wait[d].ip = None
    BY DEF Init
  <2> QED
    BY <2>1, <2>2
       DEF OwnInv, OffHasNoAddress, RecordsHaveAddresses, OwnRecords, OwnRecord, WaitsForOwnGuest
<1>2. TypeOK /\ WholeFile /\ OwnInv /\ [Next]_vars => OwnInv'
  BY OwnStep
<1>3. OwnInv => WaitsForOwnGuest
  BY DEF OwnInv
<1> QED
  BY <1>1, <1>2, <1>3, TypeCorrect, PTL DEF Spec

-----------------------------------------------------------------------------
(* A command that waits has no result; the guest that began to answer at   *)
(* the address asked since the question went unheard did so in its time.   *)
AskedInTime ==
    \A d \in Dirs :
        /\ wait[d].pc # "idle" => wait[d].result = "none"
        /\ wait[d].pc = "unheard" /\ guest[d].state = "up" /\ guest[d].ip = wait[d].ip
              => readyAt[d] = wait[d].waited

LEMMA AskedInTimeStep ==
    ASSUME TypeOK, AskedInTime, [Next]_vars
    PROVE  AskedInTime'
<1>0. /\ wait \in [Dirs -> Waits] /\ guest \in [Dirs -> Guests] /\ readyAt \in [Dirs -> Nat]
  BY DEF TypeOK
<1> SUFFICES ASSUME NEW e \in Dirs
             PROVE  /\ wait'[e].pc # "idle" => wait'[e].result = "none"
                    /\ wait'[e].pc = "unheard" /\ guest'[e].state = "up"
                       /\ guest'[e].ip = wait'[e].ip => readyAt'[e] = wait'[e].waited
  BY DEF AskedInTime
<1>1. /\ wait[e].pc # "idle" => wait[e].result = "none"
      /\ wait[e].pc = "unheard" /\ guest[e].state = "up" /\ guest[e].ip = wait[e].ip
            => readyAt[e] = wait[e].waited
  BY DEF AskedInTime
<1>2. ASSUME NEW d \in Dirs, d # e,
             wait'[e] = wait[e], guest'[e] = guest[e], readyAt'[e] = readyAt[e]
      PROVE  /\ wait'[e].pc # "idle" => wait'[e].result = "none"
             /\ wait'[e].pc = "unheard" /\ guest'[e].state = "up"
                /\ guest'[e].ip = wait'[e].ip => readyAt'[e] = wait'[e].waited
  BY <1>1, <1>2
<1>3. ASSUME NEW d \in Dirs, Launch(d)
      PROVE  \/ wait'[e] = wait[e] /\ guest'[e] = guest[e] /\ readyAt'[e] = readyAt[e]
             \/ wait'[e].pc = "lease" /\ wait'[e].result = "none"
  <2>1. d # e => wait'[e] = wait[e] /\ guest'[e] = guest[e] /\ readyAt'[e] = readyAt[e]
    BY <1>0, <1>3 DEF Launch
  <2>2. d = e => wait'[e].pc = "lease" /\ wait'[e].result = "none"
    BY <1>0, <1>3 DEF Launch, Waiting
  <2> QED
    BY <2>1, <2>2
<1>4. ASSUME NEW d \in Dirs, LeaseFound(d)
      PROVE  \/ wait'[e] = wait[e] /\ guest'[e] = guest[e] /\ readyAt'[e] = readyAt[e]
             \/ wait'[e].pc = "ssh" /\ wait'[e].result = "none"
  <2>1. d # e => wait'[e] = wait[e] /\ guest'[e] = guest[e] /\ readyAt'[e] = readyAt[e]
    BY <1>0, <1>4 DEF LeaseFound
  <2>2. d = e => wait'[e].pc = "ssh" /\ wait'[e].result = "none"
    BY <1>0, <1>4 DEF LeaseFound, Waiting
  <2> QED
    BY <2>1, <2>2
<1>5. ASSUME NEW d \in Dirs, LeasePoll(d)
      PROVE  \/ wait'[e] = wait[e] /\ guest'[e] = guest[e] /\ readyAt'[e] = readyAt[e]
             \/ wait'[e].pc = "lease" /\ wait'[e].result = "none"
  <2>1. d # e => wait'[e] = wait[e] /\ guest'[e] = guest[e] /\ readyAt'[e] = readyAt[e]
    BY <1>0, <1>5 DEF LeasePoll
  <2>2. d = e => wait'[e].pc = "lease" /\ wait'[e].result = "none"
    BY <1>0, <1>1, <1>5 DEF LeasePoll, Waits
  <2> QED
    BY <2>1, <2>2
<1>6. ASSUME NEW d \in Dirs,
             \/ NoLease(d) \/ (\E ticks \in 0..MaxAttempt : SshGivesUp(d, ticks))
             \/ SshAnswers(d) \/ Kill(d)
      PROVE  \/ wait'[e] = wait[e] /\ guest'[e] = guest[e] /\ readyAt'[e] = readyAt[e]
             \/ wait'[e].pc = "idle"
  <2>1. /\ Ended("failed").pc = "idle" /\ Ended("killed").pc = "idle"
        /\ [Ended("ok") EXCEPT !.ip = wait[d].ip].pc = "idle"
    BY DEF Ended, Waiting
  <2> QED
    BY <1>0, <1>6, <2>1
       DEF NoLease, SshGivesUp, SshAnswers, Kill, VfkitEnds, VfkitKilled
<1>7. ASSUME NEW d \in Dirs, AskGuest(d)
      PROVE  /\ guest' = guest /\ readyAt' = readyAt
             /\ \/ wait'[e] = wait[e]
                \/ /\ wait'[e].pc \in {"asked", "unheard"} /\ wait'[e].result = "none"
                   /\ wait'[e].ip = wait[e].ip
                   /\ wait'[e].pc = "unheard" => ~Answers(wait[e].ip)
  <2>1. CASE d # e
    BY <1>0, <1>7, <2>1 DEF AskGuest
  <2>2. CASE d = e
    <3> DEFINE pc == IF Answers(wait[e].ip) THEN "asked" ELSE "unheard"
    <3>1. /\ wait'[e] = [wait[e] EXCEPT !.pc = pc] /\ wait[e].pc = "ssh"
          /\ guest' = guest /\ readyAt' = readyAt
      BY <1>0, <1>7, <2>2 DEF AskGuest
    <3>2. pc \in {"asked", "unheard"} /\ (pc = "unheard" => ~Answers(wait[e].ip))
      OBVIOUS
    <3> HIDE DEF pc
    <3>3. /\ [wait[e] EXCEPT !.pc = pc].pc = pc
          /\ [wait[e] EXCEPT !.pc = pc].ip = wait[e].ip
          /\ [wait[e] EXCEPT !.pc = pc].result = wait[e].result
      BY <1>0 DEF Waits
    <3> QED
      BY <1>1, <3>1, <3>2, <3>3
  <2> QED
    BY <2>1, <2>2
<1>8. ASSUME NEW d \in Dirs, NEW ticks \in 0..MaxAttempt, SshPause(d, ticks)
      PROVE  \/ wait'[e] = wait[e] /\ guest'[e] = guest[e] /\ readyAt'[e] = readyAt[e]
             \/ wait'[e].pc = "ssh" /\ wait'[e].result = "none"
  <2>1. d # e => wait'[e] = wait[e] /\ guest'[e] = guest[e] /\ readyAt'[e] = readyAt[e]
    BY <1>0, <1>8 DEF SshPause
  <2>2. d = e => wait'[e].pc = "ssh" /\ wait'[e].result = "none"
    BY <1>0, <1>1, <1>8 DEF SshPause, SshFailed, Waits
  <2> QED
    BY <2>1, <2>2
<1>9. ASSUME NEW d \in Dirs, Down(d)
      PROVE  wait'[e] = wait[e] /\ readyAt'[e] = readyAt[e]
             /\ (guest'[e] = guest[e] \/ guest'[e].state = "off")
  BY <1>0, <1>9 DEF Down, VfkitEnds, VfkitKilled, Off
<1>10. ASSUME NEW d \in Dirs, NEW i \in Ips, Acquire(d, i)
       PROVE  wait'[e] = wait[e] /\ readyAt'[e] = readyAt[e]
              /\ (guest'[e] = guest[e] \/ guest'[e].state = "booting")
  BY <1>0, <1>10 DEF Acquire, Guests
<1>11. ASSUME NEW d \in Dirs, Booted(d)
       PROVE  /\ wait'[e] = wait[e]
              /\ \/ guest'[e] = guest[e] /\ readyAt'[e] = readyAt[e]
                 \/ wait[e].pc = "unheard" => readyAt'[e] = wait[e].waited
  BY <1>0, <1>11 DEF Booted
<1>12. ASSUME \/ \E i \in Ips \cup {None} : OtherLease(i)
              \/ \E n \in 1..MaxRecords : Expire(n)
              \/ UNCHANGED vars
       PROVE  wait' = wait /\ guest' = guest /\ readyAt' = readyAt
  BY <1>12 DEF OtherLease, Expire, vars
<1>13. CASE \E d \in Dirs : AskGuest(d)
  BY <1>1, <1>7, <1>13 DEF Answers
<1>14. CASE \E d \in Dirs : Booted(d)
  BY <1>1, <1>11, <1>14
<1> QED
  BY <1>1, <1>3, <1>4, <1>5, <1>6, <1>8, <1>9, <1>10, <1>12, <1>13, <1>14, Actions

LEMMA FailsByGivingUp ==
    ASSUME TypeOK, Next, NEW e \in Dirs, wait[e].pc \in {"asked", "unheard"},
           wait[e].result = "none", wait'[e].result = "failed"
    PROVE  \E ticks \in 0..MaxAttempt : SshGivesUp(e, ticks)
<1>0. wait \in [Dirs -> Waits]
  BY DEF TypeOK
<1>1. wait'[e] # wait[e]
  OBVIOUS
<1>2. ASSUME NEW d \in Dirs, Launch(d) \/ LeaseFound(d) \/ LeasePoll(d) \/ NoLease(d)
      PROVE  FALSE
  <2>1. wait[d].pc \in {"idle", "lease"}
    BY <1>2 DEF Launch, LeaseFound, LeasePoll, NoLease
  <2>2. d # e
    BY <2>1
  <2> QED
    BY <1>0, <1>1, <1>2, <2>2 DEF Launch, LeaseFound, LeasePoll, NoLease
<1>3. ASSUME NEW d \in Dirs, AskGuest(d)
      PROVE  FALSE
  BY <1>0, <1>1, <1>3 DEF AskGuest
<1>4. ASSUME NEW d \in Dirs, SshAnswers(d)
      PROVE  FALSE
  <2>1. [Ended("ok") EXCEPT !.ip = wait[d].ip].result = "ok"
    BY DEF Ended, Waiting
  <2> QED
    BY <1>0, <1>1, <1>4, <2>1 DEF SshAnswers
<1>5. ASSUME NEW d \in Dirs, NEW ticks \in 0..MaxAttempt, SshPause(d, ticks)
      PROVE  FALSE
  <2>1. d = e
    BY <1>0, <1>1, <1>5 DEF SshPause
  <2>2. wait'[e].result = wait[e].result
    BY <1>0, <1>5, <2>1 DEF SshPause, Waits
  <2> QED
    BY <2>2
<1>6. ASSUME NEW d \in Dirs, NEW ticks \in 0..MaxAttempt, SshGivesUp(d, ticks)
      PROVE  d = e
  BY <1>0, <1>1, <1>6 DEF SshGivesUp
<1>7. ASSUME \/ \E d \in Dirs : Down(d) \/ Booted(d) \/ \E i \in Ips : Acquire(d, i)
             \/ \E i \in Ips \cup {None} : OtherLease(i)
             \/ \E n \in 1..MaxRecords : Expire(n)
      PROVE  FALSE
  BY <1>1, <1>7 DEF Down, Booted, Acquire, OtherLease, Expire
<1>8. ASSUME NEW d \in Dirs, Kill(d)
      PROVE  FALSE
  <2>1. Ended("killed").result = "killed"
    BY DEF Ended, Waiting
  <2> QED
    BY <1>0, <1>1, <1>8, <2>1 DEF Kill
<1> QED
  BY <1>2, <1>3, <1>4, <1>5, <1>6, <1>7, <1>8, Actions

(* wait_ready (ssh.rs) gives up on a guest that answers only if it began   *)
(* to within an interval and one ssh of the deadline, or later.            *)
THEOREM InTimeIsFound == Spec => GuestInTimeIsFound
<1> DEFINE InTime ==
       \A d \in Dirs :
          wait[d].pc \in {"asked", "unheard"} /\ wait'[d].result = "failed"
          /\ guest[d].state = "up" /\ guest[d].ip = wait[d].ip
             => readyAt[d] + Interval + MaxAttempt > SshTimeout
<1>1. Init => AskedInTime
  <2>1. ASSUME Init, NEW d \in Dirs
        PROVE  wait[d].pc = "idle"
    BY <2>1 DEF Init
  <2> QED
    BY <2>1 DEF AskedInTime
<1>2. TypeOK /\ AskedInTime /\ [Next]_vars => AskedInTime'
  BY AskedInTimeStep
<1>3. TypeOK /\ AskedInTime /\ [Next]_vars => [InTime]_vars
  <2> SUFFICES ASSUME TypeOK, AskedInTime, Next, NEW e \in Dirs,
                      wait[e].pc \in {"asked", "unheard"}, wait'[e].result = "failed",
                      guest[e].state = "up", guest[e].ip = wait[e].ip
               PROVE  readyAt[e] + Interval + MaxAttempt > SshTimeout
    BY DEF AskedInTime
  <2>0. wait[e].result = "none"
    BY DEF AskedInTime
  <2>1. PICK ticks \in 0..MaxAttempt : SshGivesUp(e, ticks)
    BY <2>0, FailsByGivingUp
  <2>2. wait[e].pc = "unheard" /\ wait[e].waited + ticks + Interval > SshTimeout
    BY <2>1 DEF SshGivesUp, SshFailed, Answers
  <2>3. readyAt[e] = wait[e].waited
    BY <2>2 DEF AskedInTime
  <2>4. wait[e].waited \in Nat
    BY DEF TypeOK, Waits
  <2> QED
    BY <2>2, <2>3, <2>4, ConstantsAssumption
<1> QED
  BY <1>1, <1>2, <1>3, TypeCorrect, PTL DEF Spec, GuestInTimeIsFound

=============================================================================
