------------------------ MODULE SealedSecrets_proofs ------------------------
(***************************************************************************)
(* Proofs about SealedSecrets, for every request and environment and for   *)
(* any number of runs.                                                     *)
(***************************************************************************)
EXTENDS SealedSecrets, SequenceTheorems, TLAPS

-----------------------------------------------------------------------------
(* A plan is a sequence of steps in which linked steps are neighbours.      *)

\* A sequence of steps that does not begin inside a link either.
Closed(s) ==
    /\ s \in Seq(Steps)
    /\ Linked(s)
    /\ s # <<>> => \A l \in Links : s[1] # l[2]

LEMMA ClosedConcat ==
    ASSUME NEW s, NEW t, Closed(s), Closed(t)
    PROVE  Closed(s \o t)
<1>0. s \in Seq(Steps) /\ t \in Seq(Steps)
    BY DEF Closed
<1> DEFINE u == s \o t
<1>1. /\ u \in Seq(Steps) /\ Len(u) = Len(s) + Len(t)
      /\ \A i \in 1..Len(s) + Len(t) :
             u[i] = IF i <= Len(s) THEN s[i] ELSE t[i - Len(s)]
      /\ Len(s) \in Nat /\ Len(t) \in Nat
    BY <1>0, ConcatProperties, LenProperties
<1>2. CASE s = <<>> \/ t = <<>>
    BY <1>0, <1>2, ConcatEmptySeq
<1>3. CASE s # <<>> /\ t # <<>>
    <2>1. Len(s) >= 1 /\ Len(t) >= 1
        BY <1>0, <1>3, EmptySeq
    <2> HIDE DEF u
    <2>2. ASSUME NEW i \in 2..Len(u), NEW l \in Links
          PROVE  u[i] = l[2] <=> u[i - 1] = l[1]
        <3>1. CASE i <= Len(s)
            <4>1. u[i] = s[i] /\ u[i - 1] = s[i - 1] /\ i \in 2..Len(s)
                BY <1>1, <3>1
            <4> QED
                BY <4>1 DEF Closed, Linked
        <3>2. CASE i = Len(s) + 1
            <4>1. u[i] = t[1] /\ u[i - 1] = s[Len(s)]
                BY <1>1, <2>1, <3>2
            <4> QED
                BY <1>3, <4>1 DEF Closed, Linked
        <3>3. CASE i > Len(s) + 1
            <4>1. /\ u[i] = t[i - Len(s)] /\ u[i - 1] = t[(i - Len(s)) - 1]
                  /\ i - Len(s) \in 2..Len(t)
                BY <1>1, <3>3
            <4> QED
                BY <4>1 DEF Closed, Linked
        <3> QED
            BY <1>1, <3>1, <3>2, <3>3
    <2>3. u[1] = s[1] /\ u[Len(u)] = t[Len(t)]
        BY <1>1, <2>1
    <2> QED
        BY <1>1, <1>3, <2>2, <2>3 DEF Closed, Linked, u
<1> QED
    BY <1>2, <1>3

LEMMA EmptyClosed == Closed(<<>>)
BY EmptySeq DEF Closed, Linked

\* What the provers need of an explicit sequence.
LEMMA TwoElements ==
    ASSUME NEW S, NEW a \in S, NEW b \in S
    PROVE  /\ <<a, b>> \in Seq(S) /\ Len(<<a, b>>) = 2
           /\ <<a, b>>[1] = a /\ <<a, b>>[2] = b
OBVIOUS

LEMMA ThreeElements ==
    ASSUME NEW S, NEW a \in S, NEW b \in S, NEW c \in S
    PROVE  /\ <<a, b, c>> \in Seq(S) /\ Len(<<a, b, c>>) = 3
           /\ <<a, b, c>>[1] = a /\ <<a, b, c>>[2] = b /\ <<a, b, c>>[3] = c
OBVIOUS

LEMMA FourElements ==
    ASSUME NEW S, NEW a \in S, NEW b \in S, NEW c \in S, NEW d \in S
    PROVE  /\ <<a, b, c, d>> \in Seq(S) /\ Len(<<a, b, c, d>>) = 4
           /\ <<a, b, c, d>>[1] = a /\ <<a, b, c, d>>[2] = b /\ <<a, b, c, d>>[3] = c /\ <<a, b, c, d>>[4] = d
OBVIOUS

\* The steps of each component, one by one.
LEMMA StepsOneByOne ==
    /\ Closed(StepsOf("minio")) /\ Len(StepsOf("minio")) = 4
    /\ StepsOf("minio")[1] = <<"draw", "minio">>
    /\ StepsOf("minio")[2] = <<"write", "user">>
    /\ StepsOf("minio")[3] = <<"write", "password">>
    /\ StepsOf("minio")[4] = <<"seal", "minio">>
    /\ Closed(StepsOf("grafana")) /\ Len(StepsOf("grafana")) = 2
    /\ StepsOf("grafana")[1] = <<"write", "grafana">>
    /\ StepsOf("grafana")[2] = <<"seal", "grafana">>
    /\ Closed(StepsOf("velero")) /\ Len(StepsOf("velero")) = 3
    /\ StepsOf("velero")[1] = <<"load", "velero">>
    /\ StepsOf("velero")[2] = <<"write", "velero">>
    /\ StepsOf("velero")[3] = <<"seal", "velero">>
    /\ Closed(StepsOf("invenio")) /\ Len(StepsOf("invenio")) = 4
    /\ StepsOf("invenio")[1] = <<"load", "invenio">>
    /\ StepsOf("invenio")[2] = <<"write", "app">>
    /\ StepsOf("invenio")[3] = <<"seal", "app">>
    /\ StepsOf("invenio")[4] = <<"seal", "database">>
    /\ Closed(StepsOf("cloudflared")) /\ Len(StepsOf("cloudflared")) = 2
    /\ StepsOf("cloudflared")[1] = <<"write", "token">>
    /\ StepsOf("cloudflared")[2] = <<"seal", "token">>
    /\ Closed(StepsOf("ghcr")) /\ Len(StepsOf("ghcr")) = 1
    /\ StepsOf("ghcr")[1] = <<"seal", "ghcr">>
<1>1. /\ Closed(StepsOf("minio")) /\ Len(StepsOf("minio")) = 4
      /\ StepsOf("minio")[1] = <<"draw", "minio">>
      /\ StepsOf("minio")[2] = <<"write", "user">>
      /\ StepsOf("minio")[3] = <<"write", "password">>
      /\ StepsOf("minio")[4] = <<"seal", "minio">>
    <2>0. PICK s : s =
              <<<<"draw", "minio">>, <<"write", "user">>,
                <<"write", "password">>, <<"seal", "minio">>>>
        OBVIOUS
    <2>1. StepsOf("minio") = s
        BY <2>0, Zenon DEF StepsOf
    <2>2. /\ <<"draw", "minio">> \in Steps
          /\ <<"write", "user">> \in Steps
          /\ <<"write", "password">> \in Steps
          /\ <<"seal", "minio">> \in Steps
        BY DEF Steps, SealedFiles, LocalFiles
    <2>3. /\ s \in Seq(Steps) /\ Len(s) = 4
          /\ s[1] = <<"draw", "minio">>
          /\ s[2] = <<"write", "user">>
          /\ s[3] = <<"write", "password">>
          /\ s[4] = <<"seal", "minio">>
        BY <2>0, <2>2, FourElements, Zenon
    <2>4. Closed(s)
        BY <2>3 DEF Closed, Linked, Links
    <2> QED
        BY <2>1, <2>3, <2>4, Zenon
<1>2. /\ Closed(StepsOf("grafana")) /\ Len(StepsOf("grafana")) = 2
      /\ StepsOf("grafana")[1] = <<"write", "grafana">>
      /\ StepsOf("grafana")[2] = <<"seal", "grafana">>
    <2>0. PICK s : s =
              <<<<"write", "grafana">>, <<"seal", "grafana">>>>
        OBVIOUS
    <2>1. StepsOf("grafana") = s
        BY <2>0, Zenon DEF StepsOf
    <2>2. /\ <<"write", "grafana">> \in Steps
          /\ <<"seal", "grafana">> \in Steps
        BY DEF Steps, SealedFiles, LocalFiles
    <2>3. /\ s \in Seq(Steps) /\ Len(s) = 2
          /\ s[1] = <<"write", "grafana">>
          /\ s[2] = <<"seal", "grafana">>
        BY <2>0, <2>2, TwoElements, Zenon
    <2>4. Closed(s)
        BY <2>3 DEF Closed, Linked, Links
    <2> QED
        BY <2>1, <2>3, <2>4, Zenon
<1>3. /\ Closed(StepsOf("velero")) /\ Len(StepsOf("velero")) = 3
      /\ StepsOf("velero")[1] = <<"load", "velero">>
      /\ StepsOf("velero")[2] = <<"write", "velero">>
      /\ StepsOf("velero")[3] = <<"seal", "velero">>
    <2>0. PICK s : s =
              <<<<"load", "velero">>, <<"write", "velero">>,
                <<"seal", "velero">>>>
        OBVIOUS
    <2>1. StepsOf("velero") = s
        BY <2>0, Zenon DEF StepsOf
    <2>2. /\ <<"load", "velero">> \in Steps
          /\ <<"write", "velero">> \in Steps
          /\ <<"seal", "velero">> \in Steps
        BY DEF Steps, SealedFiles, LocalFiles
    <2>3. /\ s \in Seq(Steps) /\ Len(s) = 3
          /\ s[1] = <<"load", "velero">>
          /\ s[2] = <<"write", "velero">>
          /\ s[3] = <<"seal", "velero">>
        BY <2>0, <2>2, ThreeElements, Zenon
    <2>4. Closed(s)
        BY <2>3 DEF Closed, Linked, Links
    <2> QED
        BY <2>1, <2>3, <2>4, Zenon
<1>4. /\ Closed(StepsOf("invenio")) /\ Len(StepsOf("invenio")) = 4
      /\ StepsOf("invenio")[1] = <<"load", "invenio">>
      /\ StepsOf("invenio")[2] = <<"write", "app">>
      /\ StepsOf("invenio")[3] = <<"seal", "app">>
      /\ StepsOf("invenio")[4] = <<"seal", "database">>
    <2>0. PICK s : s =
              <<<<"load", "invenio">>, <<"write", "app">>,
                <<"seal", "app">>, <<"seal", "database">>>>
        OBVIOUS
    <2>1. StepsOf("invenio") = s
        BY <2>0, Zenon DEF StepsOf
    <2>2. /\ <<"load", "invenio">> \in Steps
          /\ <<"write", "app">> \in Steps
          /\ <<"seal", "app">> \in Steps
          /\ <<"seal", "database">> \in Steps
        BY DEF Steps, SealedFiles, LocalFiles
    <2>3. /\ s \in Seq(Steps) /\ Len(s) = 4
          /\ s[1] = <<"load", "invenio">>
          /\ s[2] = <<"write", "app">>
          /\ s[3] = <<"seal", "app">>
          /\ s[4] = <<"seal", "database">>
        BY <2>0, <2>2, FourElements, Zenon
    <2>4. Closed(s)
        BY <2>3 DEF Closed, Linked, Links
    <2> QED
        BY <2>1, <2>3, <2>4, Zenon
<1>5. /\ Closed(StepsOf("cloudflared")) /\ Len(StepsOf("cloudflared")) = 2
      /\ StepsOf("cloudflared")[1] = <<"write", "token">>
      /\ StepsOf("cloudflared")[2] = <<"seal", "token">>
    <2>0. PICK s : s =
              <<<<"write", "token">>, <<"seal", "token">>>>
        OBVIOUS
    <2>1. StepsOf("cloudflared") = s
        BY <2>0, Zenon DEF StepsOf
    <2>2. /\ <<"write", "token">> \in Steps
          /\ <<"seal", "token">> \in Steps
        BY DEF Steps, SealedFiles, LocalFiles
    <2>3. /\ s \in Seq(Steps) /\ Len(s) = 2
          /\ s[1] = <<"write", "token">>
          /\ s[2] = <<"seal", "token">>
        BY <2>0, <2>2, TwoElements, Zenon
    <2>4. Closed(s)
        BY <2>3 DEF Closed, Linked, Links
    <2> QED
        BY <2>1, <2>3, <2>4, Zenon
<1>6. /\ Closed(StepsOf("ghcr")) /\ Len(StepsOf("ghcr")) = 1
      /\ StepsOf("ghcr")[1] = <<"seal", "ghcr">>
    <2>0. PICK s : s =
              <<<<"seal", "ghcr">>>>
        OBVIOUS
    <2>1. StepsOf("ghcr") = s
        BY <2>0, Zenon DEF StepsOf
    <2>2. /\ <<"seal", "ghcr">> \in Steps
        BY DEF Steps, SealedFiles, LocalFiles
    <2>3. \A x \in Steps : <<x>> \in Seq(Steps) /\ Len(<<x>>) = 1 /\ <<x>>[1] = x
        OBVIOUS
    <2>4. /\ s \in Seq(Steps) /\ Len(s) = 1
          /\ s[1] = <<"seal", "ghcr">>
        BY <2>0, <2>2, <2>3, Zenon
    <2>5. Closed(s)
        BY <2>4 DEF Closed, Linked, Links
    <2> QED
        BY <2>1, <2>4, <2>5, Zenon
<1> QED
    BY <1>1, <1>2, <1>3, <1>4, <1>5, <1>6, Zenon

LEMMA PlanClosed ==
    ASSUME NEW request
    PROVE  Closed(Plan(request))
<1> DEFINE part(i) == IF Order[i] \in request THEN StepsOf(Order[i]) ELSE <<>>
           last == IF "image-updater" \in request THEN <<"seal", "updater">>
                                                  ELSE <<"unbound", "">>
<1>1. \A i \in 1..6 : Closed(part(i))
    <2>1. \A i \in 1..6 : Order[i] \in Components \ {"image-updater"}
        BY DEF Order, Components
    <2> QED
        BY <2>1, EmptyClosed, StepsOneByOne DEF Components
<1>2. Closed(<<last>>)
    <2>1. last \in Steps /\ \A l \in Links : last # l[1] /\ last # l[2]
        <3>0. last = <<"seal", "updater">> \/ last = <<"unbound", "">>
            OBVIOUS
        <3> HIDE DEF last
        <3>1. <<"seal", "updater">> \in Steps /\ <<"unbound", "">> \in Steps
            BY DEF Steps, SealedFiles, LocalFiles
        <3>2. \A l \in Links : /\ l[1][1] # "unbound" /\ l[2][1] # "unbound"
                             /\ l[1][2] # "updater" /\ l[2][2] # "updater"
            BY DEF Links
        <3>3. <<"seal", "updater">>[2] = "updater" /\ <<"unbound", "">>[1] = "unbound"
            OBVIOUS
        <3>4. last \in Steps /\ (last[1] = "unbound" \/ last[2] = "updater")
            BY <3>0, <3>1, <3>3, Zenon
        <3> QED
            BY <3>2, <3>4, Zenon
    <2> HIDE DEF last
    <2>2. <<last>> \in Seq(Steps) /\ Len(<<last>>) = 1 /\ <<last>>[1] = last
        BY <2>1
    <2> QED
        BY <2>1, <2>2 DEF Closed, Linked
<1> HIDE DEF part, last
<1>3. Closed(part(1) \o part(2))
    BY <1>1, ClosedConcat
<1>4. Closed(part(1) \o part(2) \o part(3))
    BY <1>1, <1>3, ClosedConcat
<1>5. Closed(part(1) \o part(2) \o part(3) \o part(4))
    BY <1>1, <1>4, ClosedConcat
<1>6. Closed(part(1) \o part(2) \o part(3) \o part(4) \o part(5))
    BY <1>1, <1>5, ClosedConcat
<1>7. Closed(part(1) \o part(2) \o part(3) \o part(4) \o part(5) \o part(6))
    BY <1>1, <1>6, ClosedConcat
<1>8. Closed(part(1) \o part(2) \o part(3) \o part(4) \o part(5) \o part(6) \o <<last>>)
    BY <1>2, <1>7, ClosedConcat
<1> QED
    BY <1>8 DEF Plan, part, last

\* The plan of a run that is asked for every component.
LEMMA CompletePlan ==
    /\ Plan(Components) \in Seq(Steps) /\ Len(Plan(Components)) = 17
    /\ Plan(Components)[1] = <<"draw", "minio">>
    /\ Plan(Components)[2] = <<"write", "user">>
    /\ Plan(Components)[3] = <<"write", "password">>
    /\ Plan(Components)[4] = <<"seal", "minio">>
    /\ Plan(Components)[5] = <<"write", "grafana">>
    /\ Plan(Components)[6] = <<"seal", "grafana">>
    /\ Plan(Components)[7] = <<"load", "velero">>
    /\ Plan(Components)[8] = <<"write", "velero">>
    /\ Plan(Components)[9] = <<"seal", "velero">>
    /\ Plan(Components)[10] = <<"load", "invenio">>
    /\ Plan(Components)[11] = <<"write", "app">>
    /\ Plan(Components)[12] = <<"seal", "app">>
    /\ Plan(Components)[13] = <<"seal", "database">>
    /\ Plan(Components)[14] = <<"write", "token">>
    /\ Plan(Components)[15] = <<"seal", "token">>
    /\ Plan(Components)[16] = <<"seal", "ghcr">>
    /\ Plan(Components)[17] = <<"seal", "updater">>
<1> DEFINE s1 == StepsOf("minio")
           s2 == StepsOf("grafana")
           s3 == StepsOf("velero")
           s4 == StepsOf("invenio")
           s5 == StepsOf("cloudflared")
           s6 == StepsOf("ghcr")
           last == <<"seal", "updater">>
<1>1. Plan(Components) = s1 \o s2 \o s3 \o s4 \o s5 \o s6 \o <<last>>
    <2> DEFINE part(i) == IF Order[i] \in Components THEN StepsOf(Order[i]) ELSE <<>>
               end == IF "image-updater" \in Components THEN <<"seal", "updater">>
                                                       ELSE <<"unbound", "">>
    <2>1. /\ Order[1] = "minio" /\ Order[2] = "grafana" /\ Order[3] = "velero"
          /\ Order[4] = "invenio" /\ Order[5] = "cloudflared" /\ Order[6] = "ghcr"
        BY DEF Order
    <2>2. \A i \in 1..6 : Order[i] \in Components
        BY <2>1 DEF Components
    <2>3. /\ part(1) = s1 /\ part(2) = s2 /\ part(3) = s3 /\ part(4) = s4
          /\ part(5) = s5 /\ part(6) = s6 /\ end = last
        BY <2>1, <2>2 DEF Components
    <2>4. Plan(Components) = part(1) \o part(2) \o part(3) \o part(4) \o part(5)
                             \o part(6) \o <<end>>
        BY Zenon DEF Plan
    <2> QED
        BY <2>3, <2>4, Zenon
<1>2. <<last>> \in Seq(Steps) /\ Len(<<last>>) = 1 /\ <<last>>[1] = last
    <2>1. last \in Steps
        BY DEF Steps, SealedFiles
    <2> HIDE DEF last
    <2> QED
        BY <2>1
<1>3. /\ s1 \in Seq(Steps) /\ s2 \in Seq(Steps) /\ s3 \in Seq(Steps)
      /\ s4 \in Seq(Steps) /\ s5 \in Seq(Steps) /\ s6 \in Seq(Steps)
      /\ Len(s1) = 4 /\ Len(s2) = 2 /\ Len(s3) = 3 /\ Len(s4) = 4 /\ Len(s5) = 2
      /\ Len(s6) = 1
    BY StepsOneByOne, Zenon DEF Closed
<1> DEFINE p2 == s1 \o s2
           p3 == p2 \o s3
           p4 == p3 \o s4
           p5 == p4 \o s5
           p6 == p5 \o s6
           p7 == p6 \o <<last>>
<1> HIDE DEF s1, s2, s3, s4, s5, s6, last, p2, p3, p4, p5, p6, p7
<1>4. /\ p2 \in Seq(Steps) /\ Len(p2) = 6
      /\ \A i \in 1..6 : p2[i] = IF i <= 4 THEN s1[i] ELSE s2[i - 4]
    <2>1. /\ p2 \in Seq(Steps) /\ Len(p2) = Len(s1) + Len(s2)
          /\ \A i \in 1..Len(s1) + Len(s2) :
                 p2[i] = IF i <= Len(s1) THEN s1[i] ELSE s2[i - Len(s1)]
        BY <1>3, ConcatProperties DEF p2
    <2> QED
        BY <1>3, <2>1
<1>5. /\ p3 \in Seq(Steps) /\ Len(p3) = 9
      /\ \A i \in 1..9 : p3[i] = IF i <= 6 THEN p2[i] ELSE s3[i - 6]
    <2>1. /\ p3 \in Seq(Steps) /\ Len(p3) = Len(p2) + Len(s3)
          /\ \A i \in 1..Len(p2) + Len(s3) :
                 p3[i] = IF i <= Len(p2) THEN p2[i] ELSE s3[i - Len(p2)]
        BY <1>4, <1>3, ConcatProperties DEF p3
    <2> QED
        BY <1>4, <1>3, <2>1
<1>6. /\ p4 \in Seq(Steps) /\ Len(p4) = 13
      /\ \A i \in 1..13 : p4[i] = IF i <= 9 THEN p3[i] ELSE s4[i - 9]
    <2>1. /\ p4 \in Seq(Steps) /\ Len(p4) = Len(p3) + Len(s4)
          /\ \A i \in 1..Len(p3) + Len(s4) :
                 p4[i] = IF i <= Len(p3) THEN p3[i] ELSE s4[i - Len(p3)]
        BY <1>5, <1>3, ConcatProperties DEF p4
    <2> QED
        BY <1>5, <1>3, <2>1
<1>7. /\ p5 \in Seq(Steps) /\ Len(p5) = 15
      /\ \A i \in 1..15 : p5[i] = IF i <= 13 THEN p4[i] ELSE s5[i - 13]
    <2>1. /\ p5 \in Seq(Steps) /\ Len(p5) = Len(p4) + Len(s5)
          /\ \A i \in 1..Len(p4) + Len(s5) :
                 p5[i] = IF i <= Len(p4) THEN p4[i] ELSE s5[i - Len(p4)]
        BY <1>6, <1>3, ConcatProperties DEF p5
    <2> QED
        BY <1>6, <1>3, <2>1
<1>8. /\ p6 \in Seq(Steps) /\ Len(p6) = 16
      /\ \A i \in 1..16 : p6[i] = IF i <= 15 THEN p5[i] ELSE s6[i - 15]
    <2>1. /\ p6 \in Seq(Steps) /\ Len(p6) = Len(p5) + Len(s6)
          /\ \A i \in 1..Len(p5) + Len(s6) :
                 p6[i] = IF i <= Len(p5) THEN p5[i] ELSE s6[i - Len(p5)]
        BY <1>7, <1>3, ConcatProperties DEF p6
    <2> QED
        BY <1>7, <1>3, <2>1
<1>9. /\ p7 \in Seq(Steps) /\ Len(p7) = 17
      /\ \A i \in 1..17 : p7[i] = IF i <= 16 THEN p6[i] ELSE <<last>>[i - 16]
    <2>1. /\ p7 \in Seq(Steps) /\ Len(p7) = Len(p6) + Len(<<last>>)
          /\ \A i \in 1..Len(p6) + Len(<<last>>) :
                 p7[i] = IF i <= Len(p6) THEN p6[i] ELSE <<last>>[i - Len(p6)]
        BY <1>8, <1>2, ConcatProperties DEF p7
    <2> QED
        BY <1>8, <1>2, <2>1
<1>10. Plan(Components) = p7
    BY <1>1, Zenon DEF p2, p3, p4, p5, p6, p7
<1>11. /\ \A i \in 1..4 : p7[i] = s1[i]
       /\ \A i \in 1..2 : p7[i + 4] = s2[i]
       /\ \A i \in 1..3 : p7[i + 6] = s3[i]
       /\ \A i \in 1..4 : p7[i + 9] = s4[i]
       /\ \A i \in 1..2 : p7[i + 13] = s5[i]
       /\ p7[16] = s6[1]
       /\ p7[17] = last
    BY <1>2, <1>4, <1>5, <1>6, <1>7, <1>8, <1>9
<1>12. /\ p7[1] = s1[1] /\ p7[2] = s1[2] /\ p7[3] = s1[3] /\ p7[4] = s1[4]
       /\ p7[5] = s2[1] /\ p7[6] = s2[2]
       /\ p7[7] = s3[1] /\ p7[8] = s3[2] /\ p7[9] = s3[3]
       /\ p7[10] = s4[1] /\ p7[11] = s4[2] /\ p7[12] = s4[3] /\ p7[13] = s4[4]
       /\ p7[14] = s5[1] /\ p7[15] = s5[2]
    BY <1>11
<1> QED
    BY <1>9, <1>10, <1>11, <1>12, StepsOneByOne, Zenon DEF s1, s2, s3, s4, s5, s6, last
-----------------------------------------------------------------------------
(* The step after the next one, where it is linked to it.                   *)

LEMMA TailLinked ==
    ASSUME NEW s \in Seq(Steps), Linked(s), s # <<>>
    PROVE  /\ Tail(s) \in Seq(Steps) /\ Linked(Tail(s))
           /\ \A l \in Links :
                  Tail(s) # <<>> /\ Head(Tail(s)) = l[2] <=> Head(s) = l[1]
<1>1. /\ Len(s) \in Nat /\ Len(s) >= 1
      /\ Head(s) = s[1]
      /\ Tail(s) \in Seq(Steps) /\ Len(Tail(s)) = Len(s) - 1
      /\ \A i \in 1..Len(s) - 1 : Tail(s)[i] = s[i + 1]
    BY HeadTailProperties, EmptySeq, LenProperties
<1>2. ASSUME NEW i \in 2..Len(Tail(s)), NEW l \in Links
      PROVE  Tail(s)[i] = l[2] <=> Tail(s)[i - 1] = l[1]
    <2>1. /\ Tail(s)[i] = s[i + 1] /\ Tail(s)[i - 1] = s[(i + 1) - 1]
          /\ i + 1 \in 2..Len(s)
        BY <1>1
    <2> QED
        BY <2>1 DEF Linked
<1>3. ASSUME Tail(s) # <<>>
      PROVE  /\ Len(s) >= 2 /\ Head(Tail(s)) = s[2]
             /\ Tail(s)[Len(Tail(s))] = s[Len(s)]
    <2>1. Len(Tail(s)) >= 1 /\ Head(Tail(s)) = Tail(s)[1]
        BY <1>1, <1>3, EmptySeq, LenProperties, HeadTailProperties
    <2> QED
        BY <1>1, <2>1
<1>4. Linked(Tail(s))
    BY <1>2, <1>3 DEF Linked
<1>5. ASSUME NEW l \in Links
      PROVE  Tail(s) # <<>> /\ Head(Tail(s)) = l[2] <=> Head(s) = l[1]
    <2>1. CASE Tail(s) = <<>>
        <3> DEFINE t == Tail(s)
        <3>0. t \in Seq(Steps) /\ t = <<>>
            BY <1>1, <2>1
        <3> HIDE DEF t
        <3>1. Len(t) = 0
            BY <3>0, EmptySeq
        <3> QED
            BY <1>1, <2>1, <3>1 DEF Linked, t
    <2>2. CASE Tail(s) # <<>>
        <3>1. 2 \in 2..Len(s) /\ s[2] = Head(Tail(s)) /\ s[2 - 1] = Head(s)
            BY <1>1, <1>3, <2>2
        <3> QED
            BY <2>2, <3>1 DEF Linked
    <2> QED
        BY <2>1, <2>2
<1> QED
    BY <1>1, <1>4, <1>5

\* After each step, exactly the step linked to it is ahead.
LEMMA Follows ==
    ASSUME todo \in Seq(Steps), Linked(todo), NEW verb, NEW what,
           Ahead(verb, what), todo' = Tail(todo)
    PROVE  /\ todo' \in Seq(Steps) /\ Linked(todo')
           /\ Ahead("write", "user")' <=> verb = "draw" /\ what = "minio"
           /\ Ahead("write", "password")' <=> verb = "write" /\ what = "user"
           /\ Ahead("seal", "minio")' <=> verb = "write" /\ what = "password"
           /\ Ahead("write", "app")' <=> verb = "load" /\ what = "invenio"
           /\ Ahead("seal", "app")' <=> verb = "write" /\ what = "app"
           /\ Ahead("seal", "database")' <=> verb = "seal" /\ what = "app"
<1>1. /\ todo' \in Seq(Steps) /\ Linked(todo')
      /\ \A l \in Links : todo' # <<>> /\ Head(todo') = l[2] <=> Head(todo) = l[1]
    BY TailLinked DEF Ahead
<1>2. ASSUME NEW v, NEW w, NEW x, NEW y, <<<<v, w>>, <<x, y>>>> \in Links
      PROVE  Ahead(x, y)' <=> verb = v /\ what = w
    <2>1. <<<<v, w>>, <<x, y>>>>[1] = <<v, w>> /\ <<<<v, w>>, <<x, y>>>>[2] = <<x, y>>
        OBVIOUS
    <2>2. todo' # <<>> /\ Head(todo') = <<x, y>> <=> Head(todo) = <<v, w>>
        BY <1>1, <1>2, <2>1, Zenon
    <2>3. Head(todo) = <<v, w>> <=> verb = v /\ what = w
        <3>1. Head(todo) = <<verb, what>>
            BY DEF Ahead
        <3>2. <<verb, what>> = <<v, w>> <=> verb = v /\ what = w
            OBVIOUS
        <3> QED
            BY <3>1, <3>2, Zenon
    <2> QED
        BY <2>2, <2>3, Zenon DEF Ahead
<1>3. /\ <<<<"draw", "minio">>, <<"write", "user">>>> \in Links
      /\ <<<<"write", "user">>, <<"write", "password">>>> \in Links
      /\ <<<<"write", "password">>, <<"seal", "minio">>>> \in Links
      /\ <<<<"load", "invenio">>, <<"write", "app">>>> \in Links
      /\ <<<<"write", "app">>, <<"seal", "app">>>> \in Links
      /\ <<<<"seal", "app">>, <<"seal", "database">>>> \in Links
    BY Zenon DEF Links
<1> QED
    BY <1>1, <1>2, <1>3, Zenon

\* Only one step is ahead.
LEMMA OneAhead ==
    ASSUME NEW verb, NEW what, Ahead(verb, what), NEW v, NEW w
    PROVE  Ahead(v, w) <=> verb = v /\ what = w
<1>1. <<verb, what>> = <<v, w>> <=> verb = v /\ what = w
    OBVIOUS
<1> QED
    BY <1>1, Zenon DEF Ahead
-----------------------------------------------------------------------------
(* Pairs of values, and what the environment and the files make of them.    *)

LEMMA Pair ==
    ASSUME NEW p \in Nat \X Nat
    PROVE  /\ p[1] \in Nat /\ p[2] \in Nat /\ p = <<p[1], p[2]>>
           /\ p \in Seq(Nat) /\ p # <<>>
<1>1. p[1] \in Nat /\ p[2] \in Nat /\ p = <<p[1], p[2]>>
    OBVIOUS
<1>2. PICK a \in Nat, b \in Nat : p = <<a, b>>
    BY <1>1
<1>3. <<a, b>> \in Seq(Nat) /\ Len(<<a, b>>) = 2
    BY TwoElements, Zenon
<1>4. <<a, b>> # <<>>
    BY <1>3, EmptySeq
<1> QED
    BY <1>1, <1>2, <1>3, <1>4, Zenon

LEMMA OrPairIsPair ==
    ASSUME NEW p \in Nat \X Nat, NEW q \in Nat \X Nat
    PROVE  /\ OrPair(p, q) \in Nat \X Nat
           /\ OrPair(p, q)[1] = (IF p[1] # 0 THEN p[1] ELSE q[1])
           /\ OrPair(p, q)[2] = (IF p[2] # 0 THEN p[2] ELSE q[2])
BY DEF OrPair, Or

LEMMA PairsAreEqual ==
    ASSUME NEW p \in Nat \X Nat, NEW q \in Nat \X Nat, p[1] = q[1], p[2] = q[2]
    PROVE  p = q
OBVIOUS

LEMMA ExportedIsPair ==
    ASSUME TypeOK, NEW key \in EnvVars, NEW secret \in EnvVars
    PROVE  Exported(key, secret) \in Nat \X Nat
BY DEF TypeOK, Exported

LEMMA ExportedKept ==
    ASSUME env' = env
    PROVE  ExportedRoot' = ExportedRoot
BY DEF ExportedRoot, Exported

LEMMA LoadedIsPair ==
    ASSUME TypeOK
    PROVE  /\ ExportedRoot \in Nat \X Nat
           /\ Loaded \in Nat \X Nat
           /\ \A i \in 1..2 :
                  Loaded[i] = IF root[i] # 0 THEN root[i]
                              ELSE IF ExportedRoot[i] # 0 THEN ExportedRoot[i]
                              ELSE local["minio"][i]
<1>1. root \in Nat \X Nat /\ local["minio"] \in Nat \X Nat
    BY DEF TypeOK
<1>2. ExportedRoot \in Nat \X Nat
    BY ExportedIsPair DEF ExportedRoot, EnvVars
<1>3. /\ OrPair(root, ExportedRoot) \in Nat \X Nat
      /\ \A i \in 1..2 : OrPair(root, ExportedRoot)[i] =
             IF root[i] # 0 THEN root[i] ELSE ExportedRoot[i]
    BY <1>1, <1>2, OrPairIsPair
<1>4. /\ Loaded \in Nat \X Nat
      /\ \A i \in 1..2 : Loaded[i] =
             IF OrPair(root, ExportedRoot)[i] # 0 THEN OrPair(root, ExportedRoot)[i]
             ELSE local["minio"][i]
    BY <1>1, <1>3, OrPairIsPair DEF Loaded
<1> QED
    BY <1>2, <1>3, <1>4

LEMMA ThirdElement ==
    ASSUME NEW k \in Seq(Nat), Len(k) = 2, NEW t \in Seq(Nat), Len(t) = 1
    PROVE  k \o t \in Seq(Nat) /\ Len(k \o t) = 3 /\ (k \o t)[3] = t[1]
<1>1. /\ k \o t \in Seq(Nat) /\ Len(k \o t) = Len(k) + Len(t)
      /\ \A i \in 1..Len(k) + Len(t) :
             (k \o t)[i] = IF i <= Len(k) THEN k[i] ELSE t[i - Len(k)]
    BY ConcatProperties
<1>2. (k \o t)[3] = t[3 - 2]
    BY <1>1
<1> QED
    BY <1>1, <1>2

LEMMA AppContent ==
    ASSUME TypeOK, NEW c \in Nat
    PROVE  /\ S3Keys \o <<c>> \in Seq(Nat)
           /\ S3Keys \o <<c>> # <<>>
           /\ (S3Keys \o <<c>>)[3] = c
<1>1. S3Keys \in Nat \X Nat
    <2>1. root \in Nat \X Nat
        BY DEF TypeOK
    <2>2. Exported("INVENIO_S3_ACCESS_KEY_ID", "INVENIO_S3_SECRET_ACCESS_KEY") \in Nat \X Nat
        BY ExportedIsPair DEF EnvVars
    <2> QED
        BY <2>1, <2>2, OrPairIsPair DEF S3Keys
<1>2. S3Keys \in Seq(Nat) /\ Len(S3Keys) = 2
    <2>1. PICK a \in Nat, b \in Nat : S3Keys = <<a, b>>
        BY <1>1
    <2>2. <<a, b>> \in Seq(Nat) /\ Len(<<a, b>>) = 2
        BY TwoElements, Zenon
    <2> QED
        BY <2>1, <2>2, Zenon
<1>3. <<c>> \in Seq(Nat) /\ Len(<<c>>) = 1 /\ <<c>>[1] = c
    OBVIOUS
<1>4. /\ S3Keys \o <<c>> \in Seq(Nat) /\ Len(S3Keys \o <<c>>) = 3
      /\ (S3Keys \o <<c>>)[3] = <<c>>[1]
    BY <1>2, <1>3, ThirdElement
<1> QED
    BY <1>3, <1>4, EmptySeq

\* What each file is sealed from.
LEMMA Contents ==
    /\ Content["minio"] = root /\ Content["grafana"] = local["grafana"]
    /\ Content["velero"] = local["velero"] /\ Content["app"] = local["app"]
    /\ Content["token"] = local["token"] /\ Content["ghcr"] = local["ghcr"]
    /\ Content["updater"] = local["ghcr"] /\ Content["database"] = <<drawn[1]>>
BY Zenon DEF Content

LEMMA ContentIsSeq ==
    ASSUME TypeOK, NEW f \in SealedFiles
    PROVE  Content[f] \in Seq(Nat)
<1>1. root \in Seq(Nat)
    BY Pair DEF TypeOK
<1>2. <<drawn[1]>> \in Seq(Nat)
    BY DEF TypeOK
<1> QED
    BY <1>1, <1>2, Contents DEF TypeOK, SealedFiles, LocalFiles
-----------------------------------------------------------------------------
(* Every step keeps the invariant.                                          *)

LEMMA InitInv == Init => SecretsInv
<1> SUFFICES ASSUME Init PROVE SecretsInv
    OBVIOUS
<1>1. \A v, w : ~Ahead(v, w)
    BY DEF Init, Ahead
<1>2. TypeOK
    <2>1. <<0, 0>> \in Nat \X Nat /\ <<MaxRuns + 1, MaxRuns + 1>> \in Nat \X Nat
        BY SecretsAssumption
    <2>2. PICK ghcr \in Nat \X Nat :
              local = [f \in LocalFiles |-> CASE f = "minio" -> <<0, 0>>
                                              [] f = "ghcr" -> ghcr
                                              [] OTHER -> <<>>]
        BY <2>1, Zenon DEF Init
    <2>3. <<0, 0>> \in Seq(Nat) /\ ghcr \in Seq(Nat) /\ <<>> \in Seq(Nat)
        BY <2>1, Pair
    <2>4. local \in [LocalFiles -> Seq(Nat)] /\ local["minio"] = <<0, 0>>
        BY <2>2, <2>3 DEF LocalFiles
    <2>5. sealed \in [SealedFiles -> Seq(Nat)] /\ todo \in Seq(Steps)
        BY DEF Init
    <2> QED
        BY <2>1, <2>4, <2>5, SecretsAssumption DEF Init, TypeOK
<1>3. Linked(todo)
    BY EmptyClosed DEF Init, Closed
<1>4. StepIsReady
    BY <1>1 DEF StepIsReady
<1>5. RootIsWritten
    BY DEF Init, RootIsWritten
<1>6. WrittenIsSealed
    BY Zenon DEF Init, WrittenIsSealed, LocalFiles
<1>7. PlaintextIsSealed
    BY DEF Init, PlaintextIsSealed, LocalFiles, SealedFiles
<1> QED
    BY <1>2, <1>3, <1>4, <1>5, <1>6, <1>7 DEF SecretsInv

\* Where nothing is left to do, only the files matter.
LEMMA EmptyAhead ==
    ASSUME todo' = <<>>
    PROVE  /\ todo' \in Seq(Steps) /\ Linked(todo')
           /\ StepIsReady'
<1>1. \A v, w : ~Ahead(v, w)'
    BY DEF Ahead
<1>2. Ahead("write", "password")' = FALSE /\ Ahead("seal", "minio")' = FALSE
      /\ Ahead("seal", "app")' = FALSE /\ Ahead("seal", "database")' = FALSE
      /\ Ahead("write", "app")' = FALSE
    BY <1>1
<1> QED
    BY <1>2, EmptyClosed DEF StepIsReady, Closed

LEMMA FailInv ==
    ASSUME SecretsInv, Fail, local' = local, torn \subseteq torn',
           sealed' \in [SealedFiles -> Seq(Nat)], torn' \in SUBSET SealedFiles,
           \A f \in SealedFiles \ torn' : sealed'[f] = sealed[f]
    PROVE  SecretsInv'
<1>1. TypeOK'
    BY EmptyAhead DEF SecretsInv, TypeOK, Fail, run
<1>2. RootIsWritten'
    BY DEF Fail, RootIsWritten
<1>3. WrittenIsSealed'
    BY DEF SecretsInv, WrittenIsSealed, SealedFiles, LocalFiles
<1>4. PlaintextIsSealed'
    BY DEF SecretsInv, PlaintextIsSealed, SealedFiles
<1> QED
    BY <1>1, <1>2, <1>3, <1>4, EmptyAhead DEF SecretsInv, Fail

LEMMA StartInv == ASSUME SecretsInv, Start PROVE SecretsInv'
<1>1. env' \in [EnvVars -> Nat] /\ asked' \in SUBSET (Components \cup {"git-credentials"})
    BY SecretsAssumption DEF Start
<1>2. /\ todo' \in Seq(Steps) /\ Linked(todo')
      /\ StepIsReady'
    <2>1. CASE todo' = <<>>
        BY <2>1, EmptyAhead
    <2>2. CASE todo' = Plan(asked') /\ todo' # <<>>
        <3>1. Closed(todo')
            BY <2>2, PlanClosed
        <3>2. \A l \in Links : Head(todo') # l[2]
            BY <2>2, <3>1, HeadTailProperties DEF Closed
        <3>3. ASSUME NEW v, NEW w, NEW l \in Links, l[2] = <<v, w>>
              PROVE  ~Ahead(v, w)'
            BY <3>2, <3>3, Zenon DEF Ahead
        <3>4. /\ \E l \in Links : l[2] = <<"write", "password">>
              /\ \E l \in Links : l[2] = <<"seal", "minio">>
              /\ \E l \in Links : l[2] = <<"write", "app">>
              /\ \E l \in Links : l[2] = <<"seal", "app">>
              /\ \E l \in Links : l[2] = <<"seal", "database">>
            BY DEF Links
        <3>5. /\ ~Ahead("write", "password")' /\ ~Ahead("seal", "minio")'
              /\ ~Ahead("write", "app")' /\ ~Ahead("seal", "app")'
              /\ ~Ahead("seal", "database")'
            BY <3>3, <3>4, Zenon
        <3> QED
            BY <3>1, <3>5 DEF Closed, StepIsReady
    <2> QED
        BY <2>1, <2>2 DEF Start
<1>3. TypeOK'
    BY <1>1, <1>2, SecretsAssumption DEF SecretsInv, TypeOK, Start, files
<1>4. RootIsWritten'
    BY DEF RootIsWritten, Start
<1>5. WrittenIsSealed' /\ PlaintextIsSealed'
    BY DEF SecretsInv, WrittenIsSealed, PlaintextIsSealed, Start, files
<1> QED
    BY <1>2, <1>3, <1>4, <1>5 DEF SecretsInv
\* A file is written, and the sealed files made from it are torn.
LEMMA WriteInv ==
    ASSUME SecretsInv, NEW verb, NEW what, At(verb, what),
           NEW f \in LocalFiles, NEW content \in Seq(Nat), NEW fs \in SUBSET SealedFiles,
           f \in fs, f = "minio" => content \in Nat \X Nat,
           Write(f, content, fs)
    PROVE  /\ TypeOK' /\ Linked(todo)' /\ WrittenIsSealed' /\ PlaintextIsSealed'
           /\ local'[f] = content /\ \A g \in LocalFiles \ {f} : local'[g] = local[g]
<1>1. todo' \in Seq(Steps) /\ Linked(todo')
    BY Follows DEF SecretsInv, TypeOK, At, Write, Continue
<1>2. /\ local' \in [LocalFiles -> Seq(Nat)]
      /\ local'[f] = content /\ \A g \in LocalFiles \ {f} : local'[g] = local[g]
    BY DEF SecretsInv, TypeOK, Write
<1>3. "minio" \in LocalFiles
    BY DEF LocalFiles
<1>4. local'["minio"] \in Nat \X Nat
    BY <1>2, <1>3 DEF SecretsInv, TypeOK
<1>5. TypeOK'
    BY <1>1, <1>2, <1>4 DEF SecretsInv, TypeOK, Write, Continue
<1>6. WrittenIsSealed'
    BY <1>2, <1>3 DEF SecretsInv, WrittenIsSealed, Write
<1>7. PlaintextIsSealed'
    BY <1>2 DEF SecretsInv, PlaintextIsSealed, Write
<1> QED
    BY <1>1, <1>2, <1>5, <1>6, <1>7

LEMMA DrawMinioInv == ASSUME SecretsInv, DrawMinio PROVE SecretsInv'
<1>1. /\ todo' \in Seq(Steps) /\ Linked(todo') /\ Ahead("write", "user")'
      /\ ~Ahead("write", "password")' /\ ~Ahead("seal", "minio")'
      /\ ~Ahead("write", "app")' /\ ~Ahead("seal", "app")' /\ ~Ahead("seal", "database")'
    BY Follows DEF SecretsInv, TypeOK, DrawMinio, At, Continue
<1>2. root' \in Nat \X Nat
    <2>1. <<runs, runs>> \in Nat \X Nat
        BY SecretsAssumption DEF SecretsInv, TypeOK
    <2> QED
        BY <2>1, LoadedIsPair, OrPairIsPair DEF SecretsInv, DrawMinio
<1>3. TypeOK'
    BY <1>1, <1>2 DEF SecretsInv, TypeOK, DrawMinio, Continue, files
<1>4. WrittenIsSealed' /\ PlaintextIsSealed'
    BY DEF SecretsInv, WrittenIsSealed, PlaintextIsSealed, DrawMinio, files
<1>5. RootIsWritten'
    <2>1. ExportedRoot' = ExportedRoot
        BY ExportedKept DEF DrawMinio, Continue
    <2>2. \A i \in 1..2 : ExportedRoot[i] # 0 => root'[i] = ExportedRoot[i]
        <3>1. <<runs, runs>> \in Nat \X Nat
            BY SecretsAssumption DEF SecretsInv, TypeOK
        <3> QED
            BY <3>1, LoadedIsPair, OrPairIsPair DEF SecretsInv, DrawMinio
    <2>3. \A i \in 1..2 : \/ ExportedRoot'[i] # 0 /\ root'[i] = ExportedRoot'[i]
                          \/ ExportedRoot'[i] = 0 /\ Ahead("write", "user")'
        BY <1>1, <2>1, <2>2
    <2> QED
        BY <2>3 DEF RootIsWritten
<1> QED
    BY <1>1, <1>3, <1>4, <1>5 DEF SecretsInv, StepIsReady

LEMMA WriteMinioUserInv == ASSUME SecretsInv, WriteMinioUser PROVE SecretsInv'
<1> DEFINE content == <<root[1], local["minio"][2]>>
<1>1. content \in Nat \X Nat /\ content \in Seq(Nat) /\ content[1] = root[1]
    BY Pair DEF SecretsInv, TypeOK
<1> HIDE DEF content
<1>2. /\ TypeOK' /\ Linked(todo)' /\ WrittenIsSealed' /\ PlaintextIsSealed'
      /\ local'["minio"] = content
    <2>1. "minio" \in LocalFiles /\ {"minio"} \in SUBSET SealedFiles
        BY DEF LocalFiles, SealedFiles
    <2>2. At("write", "user") /\ Write("minio", content, {"minio"})
        BY DEF WriteMinioUser, content
    <2> QED
        BY <1>1, <2>1, <2>2, WriteInv
<1>3. /\ Ahead("write", "password")' /\ ~Ahead("seal", "minio")'
      /\ ~Ahead("write", "app")' /\ ~Ahead("seal", "app")' /\ ~Ahead("seal", "database")'
    BY Follows DEF SecretsInv, TypeOK, WriteMinioUser, At, Write, Continue
<1>4. root' = root /\ status = "running" /\ env' = env
    BY DEF WriteMinioUser, Write, At, Continue
<1>5. RootIsWritten'
    BY <1>3, <1>4, ExportedKept DEF SecretsInv, RootIsWritten
<1> QED
    BY <1>1, <1>2, <1>3, <1>4, <1>5 DEF SecretsInv, StepIsReady

LEMMA WriteMinioPasswordInv == ASSUME SecretsInv, WriteMinioPassword PROVE SecretsInv'
<1>0. Ahead("write", "password")
    BY DEF WriteMinioPassword, At
<1> DEFINE content == <<local["minio"][1], root[2]>>
<1>1. content \in Nat \X Nat /\ content \in Seq(Nat) /\ content = root
    <2>1. root[1] = local["minio"][1]
        BY <1>0 DEF SecretsInv, StepIsReady
    <2> QED
        BY <2>1, Pair DEF SecretsInv, TypeOK
<1> HIDE DEF content
<1>2. /\ TypeOK' /\ Linked(todo)' /\ WrittenIsSealed' /\ PlaintextIsSealed'
      /\ local'["minio"] = content
    <2>1. "minio" \in LocalFiles /\ {"minio"} \in SUBSET SealedFiles
        BY DEF LocalFiles, SealedFiles
    <2>2. At("write", "password") /\ Write("minio", content, {"minio"})
        BY DEF WriteMinioPassword, content
    <2> QED
        BY <1>1, <2>1, <2>2, WriteInv
<1>3. /\ ~Ahead("write", "password")'
      /\ ~Ahead("write", "app")' /\ ~Ahead("seal", "app")' /\ ~Ahead("seal", "database")'
    BY <1>0, Follows DEF SecretsInv, TypeOK, WriteMinioPassword, Write, Continue
<1>4. root' = root /\ status = "running" /\ env' = env
    BY DEF WriteMinioPassword, Write, At, Continue
<1>5. RootIsWritten'
    BY <1>1, <1>2, <1>4, ExportedKept DEF SecretsInv, RootIsWritten
<1> QED
    BY <1>1, <1>2, <1>3, <1>4, <1>5 DEF SecretsInv, StepIsReady

\* A step that leaves the MinIO credentials alone.
LEMMA RootKept ==
    ASSUME SecretsInv, NEW verb, NEW what, At(verb, what),
           verb # "write" \/ what \notin {"user", "password"},
           UNCHANGED <<root, env, status>>, local'["minio"] = local["minio"]
    PROVE  RootIsWritten'
<1>1. ~Ahead("write", "user") /\ ~Ahead("write", "password") /\ status = "running"
    BY OneAhead DEF At
<1> QED
    BY <1>1, ExportedKept DEF SecretsInv, RootIsWritten
LEMMA WriteGrafanaInv == ASSUME SecretsInv, WriteGrafana PROVE SecretsInv'
<1> DEFINE content == <<Or(env["GRAFANA_ADMIN_PASSWORD"], runs)>>
<1>1. content \in Seq(Nat)
    BY SecretsAssumption DEF SecretsInv, TypeOK, Or, EnvVars
<1> HIDE DEF content
<1>2. /\ TypeOK' /\ Linked(todo)' /\ WrittenIsSealed' /\ PlaintextIsSealed'
      /\ local'["minio"] = local["minio"]
    <2>1. "grafana" \in LocalFiles /\ "minio" \in LocalFiles /\ {"grafana"} \in SUBSET SealedFiles
        BY DEF LocalFiles, SealedFiles
    <2>2. At("write", "grafana") /\ Write("grafana", content, {"grafana"})
        BY DEF WriteGrafana, content
    <2> QED
        BY <1>1, <2>1, <2>2, WriteInv
<1>3. /\ ~Ahead("write", "password")' /\ ~Ahead("seal", "minio")'
      /\ ~Ahead("write", "app")' /\ ~Ahead("seal", "app")' /\ ~Ahead("seal", "database")'
    BY Follows DEF SecretsInv, TypeOK, WriteGrafana, At, Write, Continue
<1>4. RootIsWritten'
    BY <1>2, RootKept DEF WriteGrafana, Write, Continue
<1> QED
    BY <1>2, <1>3, <1>4 DEF SecretsInv, StepIsReady

LEMMA WriteVeleroInv == ASSUME SecretsInv, WriteVelero PROVE SecretsInv'
<1>1. drawn \in Seq(Nat)
    BY Pair DEF SecretsInv, TypeOK
<1>2. /\ TypeOK' /\ Linked(todo)' /\ WrittenIsSealed' /\ PlaintextIsSealed'
      /\ local'["minio"] = local["minio"]
    <2>1. "velero" \in LocalFiles /\ "minio" \in LocalFiles /\ {"velero"} \in SUBSET SealedFiles
        BY DEF LocalFiles, SealedFiles
    <2> QED
        BY <1>1, <2>1, WriteInv DEF WriteVelero
<1>3. /\ ~Ahead("write", "password")' /\ ~Ahead("seal", "minio")'
      /\ ~Ahead("write", "app")' /\ ~Ahead("seal", "app")' /\ ~Ahead("seal", "database")'
    BY Follows DEF SecretsInv, TypeOK, WriteVelero, At, Write, Continue
<1>4. RootIsWritten'
    BY <1>2, RootKept DEF WriteVelero, Write, Continue
<1> QED
    BY <1>2, <1>3, <1>4 DEF SecretsInv, StepIsReady

LEMMA WriteAppInv == ASSUME SecretsInv, WriteApp PROVE SecretsInv'
<1> DEFINE content == S3Keys \o <<drawn[2]>>
<1>1. content \in Seq(Nat) /\ content # <<>> /\ content[3] = drawn[2]
    BY AppContent DEF SecretsInv, TypeOK
<1> HIDE DEF content
<1>2. /\ TypeOK' /\ Linked(todo)' /\ WrittenIsSealed' /\ PlaintextIsSealed'
      /\ local'["minio"] = local["minio"] /\ local'["app"] = content
    <2>1. /\ "app" \in LocalFiles /\ "minio" \in LocalFiles
          /\ {"app", "database"} \in SUBSET SealedFiles
        BY DEF LocalFiles, SealedFiles
    <2>2. At("write", "app") /\ Write("app", content, {"app", "database"})
        BY DEF WriteApp, content
    <2> QED
        BY <1>1, <2>1, <2>2, WriteInv
<1>3. /\ ~Ahead("write", "password")' /\ ~Ahead("seal", "minio")'
      /\ ~Ahead("write", "app")' /\ ~Ahead("seal", "database")'
    BY Follows DEF SecretsInv, TypeOK, WriteApp, At, Write, Continue
<1>4. RootIsWritten'
    BY <1>2, RootKept DEF WriteApp, Write, Continue
<1>5. /\ drawn' = drawn /\ env' = env /\ "database" \in torn'
      /\ drawn[2] = Or(env["INVENIO_SQLALCHEMY_DATABASE_URI"], drawn[1])
    BY DEF SecretsInv, StepIsReady, WriteApp, At, Write, Continue
<1> QED
    BY <1>1, <1>2, <1>3, <1>4, <1>5 DEF SecretsInv, StepIsReady

LEMMA WriteTokenInv == ASSUME SecretsInv, WriteToken PROVE SecretsInv'
<1> DEFINE content == <<env["CLOUDFLARE_TUNNEL_TOKEN"]>>
<1>1. content \in Seq(Nat)
    BY DEF SecretsInv, TypeOK, EnvVars
<1> HIDE DEF content
<1>2. /\ TypeOK' /\ Linked(todo)' /\ WrittenIsSealed' /\ PlaintextIsSealed'
      /\ local'["minio"] = local["minio"]
    <2>1. "token" \in LocalFiles /\ "minio" \in LocalFiles /\ {"token"} \in SUBSET SealedFiles
        BY DEF LocalFiles, SealedFiles
    <2>2. At("write", "token") /\ Write("token", content, {"token"})
        BY DEF WriteToken, content
    <2> QED
        BY <1>1, <2>1, <2>2, WriteInv
<1>3. /\ ~Ahead("write", "password")' /\ ~Ahead("seal", "minio")'
      /\ ~Ahead("write", "app")' /\ ~Ahead("seal", "app")' /\ ~Ahead("seal", "database")'
    BY Follows DEF SecretsInv, TypeOK, WriteToken, At, Write, Continue
<1>4. RootIsWritten'
    BY <1>2, RootKept DEF WriteToken, Write, Continue
<1> QED
    BY <1>2, <1>3, <1>4 DEF SecretsInv, StepIsReady

\* Two steps are skipped, which are linked.
LEMMA SkipTokenInv == ASSUME SecretsInv, SkipToken PROVE SecretsInv'
<1> DEFINE rest == Tail(todo)
<1>1. /\ todo \in Seq(Steps) /\ Linked(todo) /\ todo # <<>>
      /\ Head(todo) = <<"write", "token">>
    BY DEF SecretsInv, TypeOK, SkipToken, At, Ahead
<1>2. /\ rest \in Seq(Steps) /\ Linked(rest)
      /\ rest # <<>> /\ Head(rest) = <<"seal", "token">>
    <2>1. <<<<"write", "token">>, <<"seal", "token">>>> \in Links
        BY Zenon DEF Links
    <2>2. /\ <<<<"write", "token">>, <<"seal", "token">>>>[1] = <<"write", "token">>
          /\ <<<<"write", "token">>, <<"seal", "token">>>>[2] = <<"seal", "token">>
        OBVIOUS
    <2>3. /\ rest \in Seq(Steps) /\ Linked(rest)
          /\ \A l \in Links : rest # <<>> /\ Head(rest) = l[2] <=> Head(todo) = l[1]
        BY <1>1, TailLinked
    <2> QED
        BY <1>1, <2>1, <2>2, <2>3, Zenon
<1> HIDE DEF rest
<1>3. /\ Tail(rest) \in Seq(Steps) /\ Linked(Tail(rest))
      /\ \A l \in Links :
             Tail(rest) # <<>> /\ Head(Tail(rest)) = l[2] <=> Head(rest) = l[1]
    BY <1>2, TailLinked
<1>4. todo' = Tail(rest)
    BY DEF SkipToken, rest
<1>5. ASSUME NEW v, NEW w, NEW l \in Links, l[2] = <<v, w>>, l[1] # <<"seal", "token">>
      PROVE  ~Ahead(v, w)'
    BY <1>2, <1>3, <1>4, <1>5, Zenon DEF Ahead
<1>6. \A l \in Links : l[1] # <<"seal", "token">>
    <2>1. \A l \in Links : l[1][1] # "seal" \/ l[1][2] # "token"
        BY DEF Links
    <2>2. <<"seal", "token">>[1] = "seal" /\ <<"seal", "token">>[2] = "token"
        OBVIOUS
    <2> QED
        BY <2>1, <2>2, Zenon
<1>7. /\ \E l \in Links : l[2] = <<"write", "password">>
      /\ \E l \in Links : l[2] = <<"seal", "minio">>
      /\ \E l \in Links : l[2] = <<"write", "app">>
      /\ \E l \in Links : l[2] = <<"seal", "app">>
      /\ \E l \in Links : l[2] = <<"seal", "database">>
    BY DEF Links
<1>8. /\ ~Ahead("write", "password")' /\ ~Ahead("seal", "minio")'
      /\ ~Ahead("write", "app")' /\ ~Ahead("seal", "app")' /\ ~Ahead("seal", "database")'
    BY <1>5, <1>6, <1>7, Zenon
<1>9. TypeOK'
    BY <1>3, <1>4 DEF SecretsInv, TypeOK, SkipToken, files, run
<1>10. WrittenIsSealed' /\ PlaintextIsSealed'
    BY DEF SecretsInv, WrittenIsSealed, PlaintextIsSealed, SkipToken, files
<1>11. RootIsWritten'
    BY RootKept DEF SkipToken, files, run
<1> QED
    BY <1>3, <1>4, <1>8, <1>9, <1>10, <1>11 DEF SecretsInv, StepIsReady
LEMMA LoadForVeleroInv == ASSUME SecretsInv, LoadForVelero PROVE SecretsInv'
<1>1. /\ todo' \in Seq(Steps) /\ Linked(todo')
      /\ ~Ahead("write", "password")' /\ ~Ahead("seal", "minio")'
      /\ ~Ahead("write", "app")' /\ ~Ahead("seal", "app")' /\ ~Ahead("seal", "database")'
    BY Follows DEF SecretsInv, TypeOK, LoadForVelero, At, Continue
<1>2. root' \in Nat \X Nat /\ drawn' \in Nat \X Nat
    <2>1. Exported("VELERO_ACCESS_KEY_ID", "VELERO_SECRET_ACCESS_KEY") \in Nat \X Nat
        BY ExportedIsPair DEF SecretsInv, EnvVars
    <2> QED
        BY <2>1, LoadedIsPair, OrPairIsPair DEF SecretsInv, LoadForVelero
<1>3. TypeOK'
    BY <1>1, <1>2 DEF SecretsInv, TypeOK, LoadForVelero, Continue, files
<1>4. WrittenIsSealed' /\ PlaintextIsSealed'
    BY DEF SecretsInv, WrittenIsSealed, PlaintextIsSealed, LoadForVelero, files
<1>5. RootIsWritten'
    <2>1. ~Ahead("write", "user") /\ ~Ahead("write", "password")
        BY OneAhead DEF LoadForVelero, At
    <2>2. /\ ExportedRoot' = ExportedRoot /\ root' = Loaded
          /\ local' = local /\ status = "running"
        BY ExportedKept DEF LoadForVelero, At, Continue, files
    <2>3. /\ TypeOK
          /\ \A i \in 1..2 : \/ root[i] = 0
                             \/ ExportedRoot[i] # 0 /\ root[i] = ExportedRoot[i]
                             \/ ExportedRoot[i] = 0 /\ root[i] = local["minio"][i]
        BY <2>1, <2>2 DEF SecretsInv, RootIsWritten
    <2>4. \A i \in 1..2 : \/ ExportedRoot[i] # 0 /\ Loaded[i] = ExportedRoot[i]
                          \/ ExportedRoot[i] = 0 /\ Loaded[i] = local["minio"][i]
        BY <2>3, LoadedIsPair
    <2> QED
        BY <2>2, <2>4 DEF RootIsWritten
<1> QED
    BY <1>1, <1>3, <1>4, <1>5 DEF SecretsInv, StepIsReady

LEMMA LoadForInvenioInv == ASSUME SecretsInv, LoadForInvenio PROVE SecretsInv'
<1>1. /\ todo' \in Seq(Steps) /\ Linked(todo')
      /\ ~Ahead("write", "password")' /\ ~Ahead("seal", "minio")'
      /\ ~Ahead("seal", "app")' /\ ~Ahead("seal", "database")'
    BY Follows DEF SecretsInv, TypeOK, LoadForInvenio, At, Continue
<1>2. PICK password \in Nat :
          drawn' = <<password, Or(env["INVENIO_SQLALCHEMY_DATABASE_URI"], password)>>
    <2>1. Or(env["INVENIO_DB_PASSWORD"], runs) \in Nat
        BY SecretsAssumption DEF SecretsInv, TypeOK, Or, EnvVars
    <2> QED
        BY <2>1 DEF LoadForInvenio
<1>3. drawn' \in Nat \X Nat
    BY <1>2 DEF SecretsInv, TypeOK, Or, EnvVars
<1>4. /\ env' = env
      /\ drawn'[2] = Or(env["INVENIO_SQLALCHEMY_DATABASE_URI"], drawn'[1])
    BY <1>2 DEF LoadForInvenio, Continue
<1>5. root' \in Nat \X Nat
    BY LoadedIsPair DEF SecretsInv, LoadForInvenio
<1>6. TypeOK'
    BY <1>1, <1>3, <1>5 DEF SecretsInv, TypeOK, LoadForInvenio, Continue, files
<1>7. WrittenIsSealed' /\ PlaintextIsSealed'
    BY DEF SecretsInv, WrittenIsSealed, PlaintextIsSealed, LoadForInvenio, files
<1>8. RootIsWritten'
    <2>1. ~Ahead("write", "user") /\ ~Ahead("write", "password")
        BY OneAhead DEF LoadForInvenio, At
    <2>2. /\ ExportedRoot' = ExportedRoot /\ root' = Loaded
          /\ local' = local /\ status = "running"
        BY ExportedKept DEF LoadForInvenio, At, Continue, files
    <2>3. /\ TypeOK
          /\ \A i \in 1..2 : \/ root[i] = 0
                             \/ ExportedRoot[i] # 0 /\ root[i] = ExportedRoot[i]
                             \/ ExportedRoot[i] = 0 /\ root[i] = local["minio"][i]
        BY <2>1, <2>2 DEF SecretsInv, RootIsWritten
    <2>4. \A i \in 1..2 : \/ ExportedRoot[i] # 0 /\ Loaded[i] = ExportedRoot[i]
                          \/ ExportedRoot[i] = 0 /\ Loaded[i] = local["minio"][i]
        BY <2>3, LoadedIsPair
    <2> QED
        BY <2>2, <2>4 DEF RootIsWritten
<1> QED
    BY <1>1, <1>4, <1>6, <1>7, <1>8 DEF SecretsInv, StepIsReady

LEMMA SealInv ==
    ASSUME SecretsInv, NEW f \in SealedFiles, Seal(f)
    PROVE  SecretsInv'
<1>1. /\ todo' \in Seq(Steps) /\ Linked(todo')
      /\ ~Ahead("write", "password")' /\ ~Ahead("seal", "minio")'
      /\ ~Ahead("write", "app")' /\ ~Ahead("seal", "app")'
      /\ Ahead("seal", "database")' <=> f = "app"
    BY Follows DEF SecretsInv, TypeOK, Seal, At, Continue
<1>2. /\ sealed' \in [SealedFiles -> Seq(Nat)] /\ torn' \in SUBSET SealedFiles
      /\ sealed'[f] = Content[f]
      /\ \A g \in SealedFiles \ {f} : sealed'[g] = sealed[g]
    BY ContentIsSeq DEF SecretsInv, TypeOK, Seal
<1>3. TypeOK'
    BY <1>1, <1>2 DEF SecretsInv, TypeOK, Seal, Continue
<1>4. StepIsReady'
    BY <1>1 DEF SecretsInv, StepIsReady, Seal, At, Continue
<1>5. f \in LocalFiles => sealed'[f] = local[f]
    <2>1. f = "minio" => root = local["minio"]
        BY DEF SecretsInv, StepIsReady, Seal, At
    <2> QED
        BY <1>2, <2>1, Contents DEF LocalFiles
<1>6. PlaintextIsSealed'
    BY <1>2, <1>5 DEF SecretsInv, PlaintextIsSealed, Seal, SealedFiles
<1>7. WrittenIsSealed'
    <2>1. local["minio"] # <<>>
        BY Pair DEF SecretsInv, TypeOK
    <2>2. "minio" \in LocalFiles /\ "minio" \in SealedFiles
        BY DEF LocalFiles, SealedFiles
    <2> QED
        BY <1>2, <1>5, <2>1, <2>2 DEF SecretsInv, WrittenIsSealed, Seal
<1>8. RootIsWritten'
    BY RootKept DEF Seal, Continue
<1> QED
    BY <1>1, <1>3, <1>4, <1>6, <1>7, <1>8 DEF SecretsInv

LEMMA SkipSealInv ==
    ASSUME SecretsInv, NEW f \in SealedFiles, SkipSeal(f)
    PROVE  SecretsInv'
<1>0. f # "app"
    BY DEF SkipSeal, Skipped
<1>1. /\ todo' \in Seq(Steps) /\ Linked(todo')
      /\ ~Ahead("write", "password")' /\ ~Ahead("seal", "minio")'
      /\ ~Ahead("write", "app")' /\ ~Ahead("seal", "app")' /\ ~Ahead("seal", "database")'
    BY <1>0, Follows DEF SecretsInv, TypeOK, SkipSeal, At, Continue
<1>2. TypeOK'
    BY <1>1 DEF SecretsInv, TypeOK, SkipSeal, Continue, files
<1>3. WrittenIsSealed' /\ PlaintextIsSealed'
    BY DEF SecretsInv, WrittenIsSealed, PlaintextIsSealed, SkipSeal, files
<1>4. RootIsWritten'
    BY RootKept DEF SkipSeal, Continue, files
<1> QED
    BY <1>1, <1>2, <1>3, <1>4 DEF SecretsInv, StepIsReady

LEMMA SealFailsInv ==
    ASSUME SecretsInv, NEW f \in SealedFiles, SealFails(f)
    PROVE  SecretsInv'
<1>1. Cut \in Seq(Nat)
    BY DEF Cut
<1>2. /\ sealed' \in [SealedFiles -> Seq(Nat)] /\ torn' \in SUBSET SealedFiles
      /\ \A g \in SealedFiles \ torn' : sealed'[g] = sealed[g]
    BY <1>1 DEF SecretsInv, TypeOK, SealFails
<1> QED
    BY <1>2, FailInv DEF SealFails

\* A run that is over: its root and what is ahead no longer matter.
LEMMA ReportInv == ASSUME SecretsInv, Report PROVE SecretsInv'
<1>1. todo' = <<>>
    BY DEF Report
<1>2. TypeOK'
    BY DEF SecretsInv, TypeOK, Report, files, run
<1>3. RootIsWritten'
    BY DEF Report, RootIsWritten
<1>4. WrittenIsSealed' /\ PlaintextIsSealed'
    BY DEF SecretsInv, WrittenIsSealed, PlaintextIsSealed, Report, files
<1> QED
    BY <1>1, <1>2, <1>3, <1>4, EmptyAhead DEF SecretsInv

LEMMA StutterInv == ASSUME SecretsInv, UNCHANGED vars PROVE SecretsInv'
BY DEF SecretsInv, TypeOK, Linked, StepIsReady, RootIsWritten, WrittenIsSealed,
       PlaintextIsSealed, Ahead, ExportedRoot, Exported, vars, files, run

LEMMA StepInv == SecretsInv /\ [Next]_vars => SecretsInv'
<1> SUFFICES ASSUME SecretsInv, [Next]_vars PROVE SecretsInv'
    OBVIOUS
<1>1. CASE Start
    BY <1>1, StartInv
<1>2. CASE DrawMinio \/ WriteMinioUser \/ WriteMinioPassword \/ WriteGrafana
    BY <1>2, DrawMinioInv, WriteMinioUserInv, WriteMinioPasswordInv, WriteGrafanaInv
<1>3. CASE LoadForVelero \/ WriteVelero \/ LoadForInvenio \/ WriteApp
    BY <1>3, LoadForVeleroInv, WriteVeleroInv, LoadForInvenioInv, WriteAppInv
<1>4. CASE WriteToken \/ SkipToken \/ Report
    BY <1>4, WriteTokenInv, SkipTokenInv, ReportInv
<1>5. CASE \E f \in SealedFiles : Seal(f) \/ SkipSeal(f) \/ SealFails(f)
    BY <1>5, SealInv, SkipSealInv, SealFailsInv
<1>6. CASE UnboundVariable \/ CredentialsMissing \/ Interrupt
    <2>1. Fail /\ UNCHANGED files
        BY <1>6 DEF UnboundVariable, CredentialsMissing, Interrupt
    <2> QED
        BY <2>1, FailInv DEF SecretsInv, TypeOK, files
<1>7. CASE UNCHANGED vars
    BY <1>7, StutterInv
<1> QED
    BY <1>1, <1>2, <1>3, <1>4, <1>5, <1>6, <1>7 DEF Next, RunStep
-----------------------------------------------------------------------------
(* What holds of every run.                                                 *)

\* The invariant holds, and with it every variable has its type.
THEOREM SecretsInvHolds == Spec => []SecretsInv
<1> QED
    BY InitInv, StepInv, PTL DEF Spec

\* The plaintext is that of the sealed file, unless a run died between the two.
THEOREM PlaintextIsAlwaysSealed == Spec => []PlaintextIsSealed
<1>1. SecretsInv => PlaintextIsSealed
    BY DEF SecretsInv
<1> QED
    BY <1>1, SecretsInvHolds, PTL

LEMMA LoadTakesSealed ==
    ASSUME SecretsInv, LoadForVelero \/ LoadForInvenio, "minio" \notin torn
    PROVE  Loaded = OrPair(ExportedRoot, sealed["minio"])
<1>1. ~Ahead("write", "user") /\ ~Ahead("write", "password") /\ status = "running"
    BY OneAhead DEF LoadForVelero, LoadForInvenio, At
<1>2. /\ local["minio"] \in Nat \X Nat /\ root \in Nat \X Nat /\ Loaded \in Nat \X Nat
      /\ ExportedRoot \in Nat \X Nat
    BY LoadedIsPair DEF SecretsInv, TypeOK
<1>3. \A i \in 1..2 : Loaded[i] = IF ExportedRoot[i] # 0 THEN ExportedRoot[i]
                                  ELSE local["minio"][i]
    BY <1>1, LoadedIsPair DEF SecretsInv, RootIsWritten
<1>4. "minio" \in LocalFiles \ torn
    BY DEF LocalFiles
<1>5. CASE sealed["minio"] # <<>>
    <2>1. sealed["minio"] = local["minio"]
        BY <1>4, <1>5 DEF SecretsInv, PlaintextIsSealed
    <2> QED
        BY <1>2, <1>3, <2>1, OrPairIsPair, PairsAreEqual
<1>6. CASE sealed["minio"] = <<>>
    <2>1. local["minio"] = <<0, 0>>
        BY <1>4, <1>6 DEF SecretsInv, WrittenIsSealed
    <2>2. Loaded[1] # 0 /\ Loaded[2] # 0
        BY DEF LoadForVelero, LoadForInvenio, Whole
    <2>3. /\ ExportedRoot[1] # 0 /\ ExportedRoot[2] # 0
          /\ Loaded[1] = ExportedRoot[1] /\ Loaded[2] = ExportedRoot[2]
        BY <1>3, <2>1, <2>2
    <2>4. OrPair(ExportedRoot, sealed["minio"]) = <<ExportedRoot[1], ExportedRoot[2]>>
        BY <2>3 DEF OrPair, Or
    <2> QED
        BY <1>2, <2>3, <2>4, PairsAreEqual
<1> QED
    BY <1>5, <1>6
-----------------------------------------------------------------------------
(* A run that is asked for MinIO has sealed its credentials when it loads   *)
(* them.                                                                    *)

\* Does not seal MinIO's credentials.
SealsOthers(s) == s \in Seq(Steps) /\ \A j \in DOMAIN s : s[j] # <<"seal", "minio">>

\* Seals them before it loads them, and does seal them if it is asked to.
SealsInTime(s, request) ==
    /\ s \in Seq(Steps)
    /\ SealedFirst(s)
    /\ "minio" \in request => \E j \in DOMAIN s : s[j] = <<"seal", "minio">>

LEMMA SealsInTimeConcat ==
    ASSUME NEW s, NEW t, NEW request, SealsInTime(s, request), SealsOthers(t)
    PROVE  SealsInTime(s \o t, request)
<1> DEFINE u == s \o t
<1>1. /\ s \in Seq(Steps) /\ t \in Seq(Steps)
      /\ Len(s) \in Nat /\ Len(t) \in Nat
      /\ DOMAIN s = 1..Len(s) /\ DOMAIN t = 1..Len(t)
    BY LenProperties DEF SealsInTime, SealsOthers
<1>2. /\ u \in Seq(Steps) /\ Len(u) = Len(s) + Len(t)
      /\ DOMAIN u = 1..Len(u)
      /\ \A i \in 1..Len(s) + Len(t) :
             u[i] = IF i <= Len(s) THEN s[i] ELSE t[i - Len(s)]
    BY <1>1, ConcatProperties, LenProperties
<1> HIDE DEF u
<1>3. SealedFirst(u)
    <2> SUFFICES ASSUME NEW i \in DOMAIN u, NEW j \in DOMAIN u, i < j, u[i][1] = "load"
                 PROVE  u[j] # <<"seal", "minio">>
        BY Zenon DEF SealedFirst
    <2>1. CASE j <= Len(s)
        <3>1. i \in DOMAIN s /\ j \in DOMAIN s /\ u[i] = s[i] /\ u[j] = s[j]
            BY <1>1, <1>2, <2>1
        <3> QED
            BY <3>1 DEF SealsInTime, SealedFirst
    <2>2. CASE j > Len(s)
        <3>1. u[j] = t[j - Len(s)] /\ j - Len(s) \in DOMAIN t
            BY <1>1, <1>2, <2>2
        <3> QED
            BY <3>1, Zenon DEF SealsOthers
    <2> QED
        BY <1>1, <1>2, <2>1, <2>2
<1>4. ASSUME "minio" \in request
      PROVE  \E j \in DOMAIN u : u[j] = <<"seal", "minio">>
    <2>1. PICK j \in DOMAIN s : s[j] = <<"seal", "minio">>
        BY <1>4, Zenon DEF SealsInTime
    <2>2. j \in DOMAIN u /\ u[j] = s[j]
        BY <1>1, <1>2
    <2> QED
        BY <2>1, <2>2, Zenon
<1> QED
    BY <1>2, <1>3, <1>4, Zenon DEF SealsInTime, u

LEMMA EmptySealsOthers ==
    /\ SealsOthers(<<>>) /\ SealedFirst(<<>>)
    /\ <<>> \in Seq(Steps) /\ DOMAIN <<>> = {}
<1>1. <<>> \in Seq(Steps) /\ Len(<<>>) = 0 /\ DOMAIN <<>> = {}
    BY EmptySeq
<1> QED
    BY <1>1, Zenon DEF SealsOthers, SealedFirst

\* Two steps are told apart by their verbs or by their files.
LEMMA OtherStep ==
    ASSUME NEW v, NEW w, v # "seal" \/ w # "minio"
    PROVE  <<v, w>> # <<"seal", "minio">>
OBVIOUS

LEMMA PlanSealsInTime ==
    ASSUME NEW request
    PROVE  SealsInTime(Plan(request), request)
<1> DEFINE part(i) == IF Order[i] \in request THEN StepsOf(Order[i]) ELSE <<>>
           last == IF "image-updater" \in request THEN <<"seal", "updater">>
                                                  ELSE <<"unbound", "">>
<1>0. /\ Order[1] = "minio" /\ Order[2] = "grafana" /\ Order[3] = "velero"
      /\ Order[4] = "invenio" /\ Order[5] = "cloudflared" /\ Order[6] = "ghcr"
    BY DEF Order
<1>1. SealsInTime(part(1), request)
    <2>1. CASE "minio" \notin request
        BY <1>0, <2>1, EmptySealsOthers DEF SealsInTime
    <2>2. CASE "minio" \in request
        <3> DEFINE s == StepsOf("minio")
        <3>1. /\ s \in Seq(Steps) /\ Len(s) = 4
              /\ s[1] = <<"draw", "minio">> /\ s[2] = <<"write", "user">>
              /\ s[3] = <<"write", "password">> /\ s[4] = <<"seal", "minio">>
            BY StepsOneByOne, Zenon DEF Closed
        <3>2. part(1) = s
            BY <1>0, <2>2
        <3> HIDE DEF s
        <3>3. DOMAIN s = 1..4
            BY <3>1, LenProperties
        <3>4. /\ s[1][1] = "draw" /\ s[2][1] = "write" /\ s[3][1] = "write"
              /\ s[4][1] = "seal"
            BY <3>1
        <3>5. \A i \in DOMAIN s : s[i][1] # "load"
            BY <3>3, <3>4
        <3>6. SealedFirst(s)
            BY <3>5, Zenon DEF SealedFirst
        <3>7. 4 \in DOMAIN s
            BY <3>3
        <3> QED
            BY <3>1, <3>2, <3>6, <3>7, Zenon DEF SealsInTime
    <2> QED
        BY <2>1, <2>2
<1>2. /\ SealsOthers(StepsOf("grafana")) /\ SealsOthers(StepsOf("velero"))
      /\ SealsOthers(StepsOf("invenio")) /\ SealsOthers(StepsOf("cloudflared"))
      /\ SealsOthers(StepsOf("ghcr"))
    <2>1. ASSUME NEW s \in Seq(Steps), Len(s) \in {1, 2, 3, 4},
                 \A j \in 1..Len(s) : s[j][2] # "minio"
          PROVE  SealsOthers(s)
        <3>1. DOMAIN s = 1..Len(s) /\ <<"seal", "minio">>[2] = "minio"
            BY <2>1, LenProperties
        <3> QED
            BY <2>1, <3>1, Zenon DEF SealsOthers
    <2>2. ASSUME NEW c, Closed(StepsOf(c)), Len(StepsOf(c)) \in {1, 2, 3, 4},
                 \A j \in 1..Len(StepsOf(c)) : StepsOf(c)[j][2] # "minio"
          PROVE  SealsOthers(StepsOf(c))
        BY <2>1, <2>2, Zenon DEF Closed
    <2>3. /\ Closed(StepsOf("grafana")) /\ Len(StepsOf("grafana")) \in {1, 2, 3, 4}
          /\ Closed(StepsOf("velero")) /\ Len(StepsOf("velero")) \in {1, 2, 3, 4}
          /\ Closed(StepsOf("invenio")) /\ Len(StepsOf("invenio")) \in {1, 2, 3, 4}
          /\ Closed(StepsOf("cloudflared")) /\ Len(StepsOf("cloudflared")) \in {1, 2, 3, 4}
          /\ Closed(StepsOf("ghcr")) /\ Len(StepsOf("ghcr")) \in {1, 2, 3, 4}
        BY StepsOneByOne
    <2>4. /\ \A j \in 1..Len(StepsOf("grafana")) : StepsOf("grafana")[j][2] # "minio"
          /\ \A j \in 1..Len(StepsOf("velero")) : StepsOf("velero")[j][2] # "minio"
          /\ \A j \in 1..Len(StepsOf("invenio")) : StepsOf("invenio")[j][2] # "minio"
          /\ \A j \in 1..Len(StepsOf("cloudflared")) : StepsOf("cloudflared")[j][2] # "minio"
          /\ \A j \in 1..Len(StepsOf("ghcr")) : StepsOf("ghcr")[j][2] # "minio"
        BY StepsOneByOne
    <2> QED
        BY <2>2, <2>3, <2>4, Zenon
<1>3. \A i \in 2..6 : SealsOthers(part(i))
    <2>1. \A i \in 2..6 : part(i) = <<>> \/ SealsOthers(StepsOf(Order[i]))
        BY <1>0, <1>2
    <2> QED
        BY <2>1, EmptySealsOthers, Zenon
<1>4. SealsOthers(<<last>>)
    <2>1. <<"seal", "updater">> \in Steps /\ <<"unbound", "">> \in Steps
        BY DEF Steps, SealedFiles, LocalFiles
    <2>2. last \in Steps /\ last # <<"seal", "minio">>
        BY <2>1, OtherStep
    <2> HIDE DEF last
    <2>3. /\ <<last>> \in Seq(Steps) /\ DOMAIN <<last>> = 1..1 /\ <<last>>[1] = last
        BY <2>2
    <2> QED
        BY <2>2, <2>3 DEF SealsOthers
<1> HIDE DEF part, last
<1>5. SealsInTime(part(1) \o part(2), request)
    BY <1>1, <1>3, SealsInTimeConcat
<1>6. SealsInTime(part(1) \o part(2) \o part(3), request)
    BY <1>3, <1>5, SealsInTimeConcat
<1>7. SealsInTime(part(1) \o part(2) \o part(3) \o part(4), request)
    BY <1>3, <1>6, SealsInTimeConcat
<1>8. SealsInTime(part(1) \o part(2) \o part(3) \o part(4) \o part(5), request)
    BY <1>3, <1>7, SealsInTimeConcat
<1>9. SealsInTime(part(1) \o part(2) \o part(3) \o part(4) \o part(5) \o part(6), request)
    BY <1>3, <1>8, SealsInTimeConcat
<1>10. SealsInTime(part(1) \o part(2) \o part(3) \o part(4) \o part(5) \o part(6)
                   \o <<last>>, request)
    BY <1>4, <1>9, SealsInTimeConcat
<1> QED
    BY <1>10 DEF Plan, part, last

\* A step that is not the sealing of MinIO's credentials leaves it ahead.
LEMMA TailSealsInTime ==
    ASSUME NEW s \in Seq(Steps), s # <<>>, SealedFirst(s)
    PROVE  /\ Tail(s) \in Seq(Steps) /\ SealedFirst(Tail(s))
           /\ Head(s) # <<"seal", "minio">>
              /\ (\E j \in DOMAIN s : s[j] = <<"seal", "minio">>)
              => \E j \in DOMAIN Tail(s) : Tail(s)[j] = <<"seal", "minio">>
<1>1. /\ Len(s) \in Nat /\ Len(s) >= 1
      /\ Head(s) = s[1] /\ DOMAIN s = 1..Len(s)
      /\ Tail(s) \in Seq(Steps) /\ Len(Tail(s)) = Len(s) - 1
      /\ \A i \in 1..Len(s) - 1 : Tail(s)[i] = s[i + 1]
    BY HeadTailProperties, EmptySeq, LenProperties
<1> DEFINE t == Tail(s)
<1>2. DOMAIN t = 1..Len(s) - 1 /\ \A i \in DOMAIN t : t[i] = s[i + 1] /\ i + 1 \in DOMAIN s
    BY <1>1, LenProperties
<1> HIDE DEF t
<1>3. SealedFirst(t)
    <2> SUFFICES ASSUME NEW i \in DOMAIN t, NEW j \in DOMAIN t, i < j, t[i][1] = "load"
                 PROVE  t[j] # <<"seal", "minio">>
        BY Zenon DEF SealedFirst
    <2>1. /\ i + 1 \in DOMAIN s /\ j + 1 \in DOMAIN s /\ i + 1 < j + 1
          /\ t[i] = s[i + 1] /\ t[j] = s[j + 1]
        BY <1>1, <1>2
    <2> QED
        BY <2>1 DEF SealedFirst
<1>4. ASSUME Head(s) # <<"seal", "minio">>, NEW j \in DOMAIN s, s[j] = <<"seal", "minio">>
      PROVE  \E i \in DOMAIN t : t[i] = <<"seal", "minio">>
    <2>1. j # 1
        BY <1>1, <1>4
    <2>2. j - 1 \in DOMAIN t /\ (j - 1) + 1 = j
        BY <1>1, <1>2, <2>1
    <2>3. t[j - 1] = s[j]
        BY <1>2, <2>2
    <2> QED
        BY <1>4, <2>2, <2>3, Zenon
<1> QED
    BY <1>1, <1>3, <1>4, Zenon DEF t

LEMMA PassedTells ==
    ~Passed("seal", "minio") <=> \E j \in DOMAIN todo : todo[j] = <<"seal", "minio">>
BY Zenon DEF Passed

LEMMA PassedTellsNext ==
    ~Passed("seal", "minio")' <=> \E j \in DOMAIN todo' : todo'[j] = <<"seal", "minio">>
BY Zenon DEF Passed

\* Most steps: one step of the plan is done, and MinIO is not torn by it.
LEMMA MendedGoesOn ==
    ASSUME SecretsInv, MinioIsMended, NEW verb, NEW what, At(verb, what),
           todo' = Tail(todo), UNCHANGED <<asked, status>>,
           \/ "minio" \notin torn'
           \/ "minio" \in torn /\ (verb # "seal" \/ what # "minio")
           \/ ~Passed("seal", "minio")'
    PROVE  MinioIsMended'
<1>1. /\ todo \in Seq(Steps) /\ todo # <<>> /\ Head(todo) = <<verb, what>>
      /\ SealedFirst(todo) /\ status = "running"
    BY DEF SecretsInv, TypeOK, MinioIsMended, At, Ahead
<1>2. SealedFirst(todo')
    BY <1>1, TailSealsInTime
<1>3. ASSUME "minio" \in asked, "minio" \in torn, verb # "seal" \/ what # "minio"
      PROVE  ~Passed("seal", "minio")'
    <2>1. Head(todo) # <<"seal", "minio">>
        BY <1>1, <1>3, OtherStep, Zenon
    <2>2. \E j \in DOMAIN todo : todo[j] = <<"seal", "minio">>
        BY <1>1, <1>3, PassedTells DEF MinioIsMended
    <2>3. \E j \in DOMAIN todo' : todo'[j] = <<"seal", "minio">>
        BY <1>1, <2>1, <2>2, TailSealsInTime, Zenon
    <2> QED
        BY <2>3, PassedTellsNext, Zenon
<1> QED
    BY <1>2, <1>3 DEF MinioIsMended

\* While MinIO's plaintext is written, its sealing is ahead.
LEMMA MinioIsAhead ==
    ASSUME SecretsInv, WriteMinioUser \/ WriteMinioPassword
    PROVE  ~Passed("seal", "minio")'
<1>1. todo \in Seq(Steps) /\ Linked(todo) /\ todo' = Tail(todo)
    BY DEF SecretsInv, TypeOK, WriteMinioUser, WriteMinioPassword, Write, Continue
<1>2. CASE WriteMinioPassword
    <2>1. Ahead("seal", "minio")' /\ todo' \in Seq(Steps)
        BY <1>1, <1>2, Follows DEF WriteMinioPassword, At
    <2>2. todo' # <<>> /\ Head(todo') = <<"seal", "minio">>
        BY <2>1 DEF Ahead
    <2>3. 1 \in DOMAIN todo' /\ todo'[1] = <<"seal", "minio">>
        BY <2>1, <2>2, HeadTailProperties, EmptySeq, LenProperties
    <2> QED
        BY <2>3, PassedTellsNext, Zenon
<1>3. CASE WriteMinioUser
    <2>1. Ahead("write", "password")' /\ todo' \in Seq(Steps) /\ Linked(todo')
        BY <1>1, <1>3, Follows DEF WriteMinioUser, At
    <2>2. PICK s \in Seq(Steps) : s = todo'
        BY <2>1
    <2>3. s # <<>> /\ Head(s) = <<"write", "password">> /\ Linked(s)
        BY <2>1, <2>2, Zenon DEF Ahead
    <2>4. <<<<"write", "password">>, <<"seal", "minio">>>> \in Links
        BY Zenon DEF Links
    <2>5. /\ <<<<"write", "password">>, <<"seal", "minio">>>>[1] = <<"write", "password">>
          /\ <<<<"write", "password">>, <<"seal", "minio">>>>[2] = <<"seal", "minio">>
        OBVIOUS
    <2>6. Tail(s) # <<>> /\ Head(Tail(s)) = <<"seal", "minio">>
        BY <2>3, <2>4, <2>5, TailLinked, Zenon
    <2>7. 2 \in DOMAIN s /\ s[2] = <<"seal", "minio">>
        <3>1. /\ Len(s) \in Nat /\ Tail(s) \in Seq(Steps) /\ Len(Tail(s)) = Len(s) - 1
              /\ DOMAIN s = 1..Len(s)
              /\ \A i \in 1..Len(s) - 1 : Tail(s)[i] = s[i + 1]
            BY <2>3, HeadTailProperties, LenProperties
        <3>2. Len(Tail(s)) >= 1 /\ Tail(s)[1] = Head(Tail(s))
            BY <2>6, <3>1, EmptySeq, LenProperties, HeadTailProperties
        <3> QED
            BY <2>6, <3>1, <3>2
    <2> QED
        BY <2>2, <2>7, PassedTellsNext, Zenon
<1> QED
    BY <1>2, <1>3

LEMMA MendedStep ==
    ASSUME SecretsInv, MinioIsMended, [Next]_vars
    PROVE  MinioIsMended'
<1>1. CASE Start
    <2>1. CASE todo' = <<>> /\ status' = "failed"
        BY <2>1, EmptySealsOthers DEF MinioIsMended
    <2>2. CASE todo' = Plan(asked')
        <3>1. PICK a, s : a = asked' /\ s = todo' /\ s = Plan(a)
            BY <2>2
        <3>2. SealsInTime(s, a)
            BY <3>1, PlanSealsInTime
        <3> QED
            BY <3>1, <3>2, PassedTellsNext, Zenon DEF SealsInTime, MinioIsMended
    <2> QED
        BY <1>1, <2>1, <2>2 DEF Start
<1>2. CASE WriteMinioUser \/ WriteMinioPassword
    BY <1>2, MinioIsAhead, MendedGoesOn
    DEF WriteMinioUser, WriteMinioPassword, Write, Continue
<1>3. CASE DrawMinio \/ LoadForVelero \/ LoadForInvenio
    BY <1>3, MendedGoesOn DEF DrawMinio, LoadForVelero, LoadForInvenio, Continue, files
<1>4. CASE WriteGrafana \/ WriteVelero \/ WriteApp \/ WriteToken
    BY <1>4, MendedGoesOn DEF WriteGrafana, WriteVelero, WriteApp, WriteToken, Write, Continue
<1>5. ASSUME NEW f \in SealedFiles, Seal(f) \/ SkipSeal(f)
      PROVE  MinioIsMended'
    <2>1. At("seal", f) /\ todo' = Tail(todo) /\ UNCHANGED <<asked, status>>
        BY <1>5 DEF Seal, SkipSeal, Continue
    <2>2. "minio" \notin torn' \/ ("minio" \in torn /\ f # "minio")
        BY <1>5 DEF Seal, SkipSeal, Skipped, files
    <2> QED
        BY <2>1, <2>2, MendedGoesOn
<1>6. CASE SkipToken
    <2> DEFINE rest == Tail(todo)
    <2>1. /\ todo \in Seq(Steps) /\ Linked(todo) /\ todo # <<>>
          /\ Head(todo) = <<"write", "token">> /\ SealedFirst(todo)
        BY <1>6 DEF SecretsInv, TypeOK, MinioIsMended, SkipToken, At, Ahead
    <2>2. <<<<"write", "token">>, <<"seal", "token">>>> \in Links
        BY Zenon DEF Links
    <2>3. /\ <<<<"write", "token">>, <<"seal", "token">>>>[1] = <<"write", "token">>
          /\ <<<<"write", "token">>, <<"seal", "token">>>>[2] = <<"seal", "token">>
        OBVIOUS
    <2>4. rest \in Seq(Steps) /\ rest # <<>> /\ Head(rest) = <<"seal", "token">>
        BY <2>1, <2>2, <2>3, TailLinked, Zenon
    <2>5. /\ <<"write", "token">> # <<"seal", "minio">>
          /\ <<"seal", "token">> # <<"seal", "minio">>
        OBVIOUS
    <2>6. /\ SealedFirst(rest)
          /\ (\E j \in DOMAIN todo : todo[j] = <<"seal", "minio">>)
             => \E j \in DOMAIN rest : rest[j] = <<"seal", "minio">>
        BY <2>1, <2>5, TailSealsInTime, Zenon
    <2> HIDE DEF rest
    <2>7. /\ SealedFirst(Tail(rest))
          /\ (\E j \in DOMAIN rest : rest[j] = <<"seal", "minio">>)
             => \E j \in DOMAIN Tail(rest) : Tail(rest)[j] = <<"seal", "minio">>
        BY <2>4, <2>5, <2>6, TailSealsInTime, Zenon
    <2>8. todo' = Tail(rest) /\ UNCHANGED <<torn, asked, status>>
        BY <1>6 DEF SkipToken, files, run, rest
    <2>9. ~Passed("seal", "minio") => ~Passed("seal", "minio")'
        BY <2>6, <2>7, <2>8, PassedTells, PassedTellsNext, Zenon
    <2> QED
        BY <2>7, <2>8, <2>9 DEF MinioIsMended
<1>7. CASE Fail
    BY <1>7, EmptySealsOthers DEF Fail, MinioIsMended
<1>8. CASE Report
    BY <1>8 DEF Report, MinioIsMended
<1>9. CASE UNCHANGED vars
    BY <1>9 DEF vars, files, run, MinioIsMended, Passed
<1> QED
    BY <1>1, <1>2, <1>3, <1>4, <1>5, <1>6, <1>7, <1>8, <1>9
    DEF Next, RunStep, SealFails, UnboundVariable, CredentialsMissing, Interrupt

\* When a run loads MinIO's credentials, it has sealed what it was asked for.
LEMMA LoadIsMended ==
    ASSUME SecretsInv, MinioIsMended, LoadForVelero \/ LoadForInvenio, "minio" \in asked
    PROVE  "minio" \notin torn
<1>1. /\ todo \in Seq(Steps) /\ todo # <<>> /\ Head(todo)[1] = "load"
      /\ SealedFirst(todo) /\ status = "running"
    <2>1. Head(todo) = <<"load", "velero">> \/ Head(todo) = <<"load", "invenio">>
        BY DEF LoadForVelero, LoadForInvenio, At, Ahead
    <2>2. Head(todo)[1] = "load"
        BY <2>1
    <2> QED
        BY <2>2 DEF SecretsInv, TypeOK, MinioIsMended, LoadForVelero, LoadForInvenio,
                    At, Ahead
<1>2. /\ Len(todo) \in Nat /\ Len(todo) >= 1
      /\ DOMAIN todo = 1..Len(todo) /\ Head(todo) = todo[1]
    BY <1>1, HeadTailProperties, EmptySeq, LenProperties
<1>3. \A j \in DOMAIN todo : todo[j] # <<"seal", "minio">>
    <2> SUFFICES ASSUME NEW j \in DOMAIN todo PROVE todo[j] # <<"seal", "minio">>
        OBVIOUS
    <2>1. CASE j = 1
        <3>1. <<"seal", "minio">>[1] # "load"
            OBVIOUS
        <3> QED
            BY <1>1, <1>2, <2>1, <3>1, Zenon
    <2>2. CASE j # 1
        <3>1. 1 \in DOMAIN todo /\ 1 < j /\ todo[1][1] = "load"
            BY <1>1, <1>2, <2>2
        <3> QED
            BY <1>1, <3>1, Zenon DEF SealedFirst
    <2> QED
        BY <2>1, <2>2
<1>4. Passed("seal", "minio")
    BY <1>3, PassedTells, Zenon
<1> QED
    BY <1>1, <1>4 DEF MinioIsMended

\* In a run that is asked for MinIO, nothing that a dead run has left of it
\* lives on until it is loaded.
THEOREM MinioIsAlwaysMended == Spec => []MinioIsMended
<1>1. Init => MinioIsMended
    BY EmptySealsOthers DEF Init, MinioIsMended
<1>2. SecretsInv /\ MinioIsMended /\ [Next]_vars => MinioIsMended'
    BY MendedStep
<1> QED
    BY <1>1, <1>2, SecretsInvHolds, PTL DEF Spec

\* Velero and Invenio take the MinIO credentials that are sealed, but for
\* exported values, unless MinIO's own generation died and this run does not
\* repeat it.
THEOREM ConsumersAlwaysTakeWhatIsSealed == Spec => ConsumersTakeWhatIsSealed
<1> DEFINE minio == OrPair(ExportedRoot, sealed["minio"])
           velero == Exported("VELERO_ACCESS_KEY_ID", "VELERO_SECRET_ACCESS_KEY")
           Taken == LoadForVelero \/ LoadForInvenio =>
                        \/ "minio" \in torn /\ "minio" \notin asked
                        \/ LoadForInvenio /\ root' = minio
                        \/ LoadForVelero /\ drawn' = OrPair(velero, minio)
<1>1. SecretsInv /\ MinioIsMended /\ [Next]_vars => [Taken]_vars
    <2> SUFFICES ASSUME SecretsInv, MinioIsMended, LoadForVelero \/ LoadForInvenio,
                        "minio" \in torn => "minio" \in asked
                 PROVE  \/ LoadForInvenio /\ root' = minio
                        \/ LoadForVelero /\ drawn' = OrPair(velero, minio)
        OBVIOUS
    <2>1. Loaded = minio
        BY LoadTakesSealed, LoadIsMended
    <2> HIDE DEF minio
    <2> QED
        BY <2>1 DEF LoadForVelero, LoadForInvenio
<1>2. ConsumersTakeWhatIsSealed <=> [][Taken]_vars
    BY PTL DEF ConsumersTakeWhatIsSealed
<1> QED
    BY <1>1, <1>2, SecretsInvHolds, MinioIsAlwaysMended, PTL DEF Spec

\* A password sealed for Invenio that is not the database's is one that a
\* database URI has brought in.
THEOREM PasswordsAlwaysDifferOnlyByUri == Spec => []PasswordsDifferOnlyByUri
<1> DEFINE UriKnown == env["INVENIO_SQLALCHEMY_DATABASE_URI"] \in Uris \cup {0}
           Inv == UriKnown /\ PasswordsDifferOnlyByUri
<1>1. Init => Inv
    BY DEF Init, PasswordsDifferOnlyByUri, EnvVars, SealedFiles, LocalFiles
<1>2. SecretsInv /\ Inv /\ [Next]_vars => Inv'
    <2> SUFFICES ASSUME SecretsInv, Inv, [Next]_vars PROVE Inv'
        OBVIOUS
    <2>1. UriKnown'
        <3>1. CASE Start
            BY <3>1 DEF Start, Uris
        <3>2. CASE env' = env
            BY <3>2
        <3>3. CASE RunStep
            <4>1. env' = env
                BY <3>3 DEF RunStep, DrawMinio, WriteMinioUser, WriteMinioPassword,
                    WriteGrafana, LoadForVelero, WriteVelero, LoadForInvenio, WriteApp,
                    WriteToken, SkipToken, Seal, SkipSeal, SealFails, Report,
                    UnboundVariable, CredentialsMissing, Interrupt, Fail, Continue,
                    Write, run
            <4> QED
                BY <4>1
        <3> QED
            BY <3>1, <3>2, <3>3 DEF Next, vars, run
    <2>2. CASE sealed' = sealed /\ torn \subseteq torn'
        BY <2>1, <2>2 DEF PasswordsDifferOnlyByUri
    <2>3. ASSUME NEW f \in SealedFiles, Seal(f) PROVE PasswordsDifferOnlyByUri'
        <3>1. /\ sealed'[f] = Content[f]
              /\ \A g \in SealedFiles \ {f} : sealed'[g] = sealed[g]
              /\ torn' = torn \ {f}
            BY <2>3 DEF SecretsInv, TypeOK, Seal
        <3>2. "app" \in SealedFiles /\ "database" \in SealedFiles
            BY DEF SealedFiles, LocalFiles
        <3>3. CASE f = "app"
            <4>1. "database" \in torn'
                BY <2>3, <3>1, <3>3 DEF SecretsInv, StepIsReady, Seal, At
            <4> QED
                BY <4>1 DEF PasswordsDifferOnlyByUri
        <3>4. CASE f = "database"
            <4>1. sealed'["database"] = <<drawn[1]>>
                BY <3>1, <3>4, Contents
            <4>2. /\ local["app"][3] = drawn[2]
                  /\ drawn[2] = drawn[1] \/ drawn[2] \in Uris \ {0}
                BY <2>3, <3>4 DEF SecretsInv, StepIsReady, Seal, At, Or
            <4>3. "app" \notin torn' /\ sealed["app"] # <<>> => sealed["app"] = local["app"]
                BY <3>1, <3>4 DEF SecretsInv, PlaintextIsSealed, LocalFiles
            <4>4. sealed'["app"] = sealed["app"] /\ sealed'["database"][1] = drawn[1]
                BY <3>1, <3>2, <3>4, <4>1
            <4> QED
                BY <4>2, <4>3, <4>4 DEF PasswordsDifferOnlyByUri
        <3>5. CASE f \notin {"app", "database"}
            BY <3>1, <3>2, <3>5 DEF PasswordsDifferOnlyByUri
        <3> QED
            BY <3>3, <3>4, <3>5
    <2>4. ASSUME NEW f \in SealedFiles, SealFails(f) PROVE PasswordsDifferOnlyByUri'
        <3>1. /\ \A g \in SealedFiles \ {f} : sealed'[g] = sealed[g]
              /\ torn' = torn \cup {f}
            BY <2>4 DEF SecretsInv, TypeOK, SealFails
        <3>2. "app" \in SealedFiles /\ "database" \in SealedFiles
            BY DEF SealedFiles, LocalFiles
        <3> QED
            BY <3>1, <3>2 DEF PasswordsDifferOnlyByUri
    <2>5. \/ sealed' = sealed /\ torn \subseteq torn'
          \/ \E f \in SealedFiles : Seal(f) \/ SealFails(f)
        BY DEF Next, RunStep, Start, DrawMinio, WriteMinioUser, WriteMinioPassword,
            WriteGrafana, LoadForVelero, WriteVelero, LoadForInvenio, WriteApp,
            WriteToken, SkipToken, SkipSeal, Report, UnboundVariable,
            CredentialsMissing, Interrupt, Write, files, vars
    <2> QED
        BY <2>1, <2>2, <2>3, <2>4, <2>5
<1>3. Inv => PasswordsDifferOnlyByUri
    OBVIOUS
<1> QED
    BY <1>1, <1>2, <1>3, SecretsInvHolds, PTL DEF Spec

\* Where no run is given a database URI, the password sealed for Invenio is the
\* one that is sealed for the database.
THEOREM PasswordsAlwaysMatch ==
    ASSUME \A e \in Environments : e["INVENIO_SQLALCHEMY_DATABASE_URI"] = 0
    PROVE  Spec => []PasswordsMatch
<1>1. PasswordsDifferOnlyByUri => PasswordsMatch
    BY DEF PasswordsDifferOnlyByUri, PasswordsMatch, Uris
<1> QED
    BY <1>1, PasswordsAlwaysDifferOnlyByUri, PTL
-----------------------------------------------------------------------------
(* A complete run: where it is in its plan, and what it has done by then.   *)

\* Every step has one place in the plan.
Place(v, w) ==
    CASE v = "draw" /\ w = "minio" -> 1
      [] v = "write" /\ w = "user" -> 2
      [] v = "write" /\ w = "password" -> 3
      [] v = "seal" /\ w = "minio" -> 4
      [] v = "write" /\ w = "grafana" -> 5
      [] v = "seal" /\ w = "grafana" -> 6
      [] v = "load" /\ w = "velero" -> 7
      [] v = "write" /\ w = "velero" -> 8
      [] v = "seal" /\ w = "velero" -> 9
      [] v = "load" /\ w = "invenio" -> 10
      [] v = "write" /\ w = "app" -> 11
      [] v = "seal" /\ w = "app" -> 12
      [] v = "seal" /\ w = "database" -> 13
      [] v = "write" /\ w = "token" -> 14
      [] v = "seal" /\ w = "token" -> 15
      [] v = "seal" /\ w = "ghcr" -> 16
      [] v = "seal" /\ w = "updater" -> 17

LEMMA Places ==
    ASSUME NEW k \in 1..17, NEW v, NEW w, Plan(Components)[k] = <<v, w>>
    PROVE  k = Place(v, w)
<1>1. \A a, b : <<a, b>> = <<v, w>> => v = a /\ w = b
    OBVIOUS
<1>2. \/ k = 1 \/ k = 2 \/ k = 3 \/ k = 4 \/ k = 5 \/ k = 6 \/ k = 7 \/ k = 8 \/ k = 9
      \/ k = 10 \/ k = 11 \/ k = 12 \/ k = 13 \/ k = 14 \/ k = 15 \/ k = 16 \/ k = 17
    OBVIOUS
<1>3. /\ Place("draw", "minio") = 1 /\ Place("write", "user") = 2
      /\ Place("write", "password") = 3 /\ Place("seal", "minio") = 4
      /\ Place("write", "grafana") = 5 /\ Place("seal", "grafana") = 6
      /\ Place("load", "velero") = 7 /\ Place("write", "velero") = 8
      /\ Place("seal", "velero") = 9 /\ Place("load", "invenio") = 10
      /\ Place("write", "app") = 11 /\ Place("seal", "app") = 12
      /\ Place("seal", "database") = 13 /\ Place("write", "token") = 14
      /\ Place("seal", "token") = 15 /\ Place("seal", "ghcr") = 16
      /\ Place("seal", "updater") = 17
    BY Zenon DEF Place
<1>4. ASSUME NEW j, NEW a, NEW b, Plan(Components)[j] = <<a, b>>, Place(a, b) = j
      PROVE  k = j => k = Place(v, w)
    BY <1>1, <1>4, Zenon
<1>5. /\ (k = 1 => k = Place(v, w)) /\ (k = 2 => k = Place(v, w))
      /\ (k = 3 => k = Place(v, w)) /\ (k = 4 => k = Place(v, w))
      /\ (k = 5 => k = Place(v, w)) /\ (k = 6 => k = Place(v, w))
    BY <1>3, <1>4, CompletePlan, ZenonT(60)
<1>6. /\ (k = 7 => k = Place(v, w)) /\ (k = 8 => k = Place(v, w))
      /\ (k = 9 => k = Place(v, w)) /\ (k = 10 => k = Place(v, w))
      /\ (k = 11 => k = Place(v, w)) /\ (k = 12 => k = Place(v, w))
    BY <1>3, <1>4, CompletePlan, ZenonT(60)
<1>7. /\ (k = 13 => k = Place(v, w)) /\ (k = 14 => k = Place(v, w))
      /\ (k = 15 => k = Place(v, w)) /\ (k = 16 => k = Place(v, w))
      /\ (k = 17 => k = Place(v, w))
    BY <1>3, <1>4, CompletePlan, ZenonT(60)
<1> QED
    BY <1>2, <1>5, <1>6, <1>7, Zenon

\* s is what is left of the plan.
RestOf(s) ==
    /\ s \in Seq(Steps)
    /\ Len(s) <= 17
    /\ \A i \in 1..Len(s) : s[i] = Plan(Components)[(17 - Len(s)) + i]

LEMMA RestIsRest ==
    ASSUME todo \in Seq(Steps)
    PROVE  RestOf(todo) <=> IsRestOfPlan(Components)
BY CompletePlan DEF RestOf, IsRestOfPlan

\* How much is left tells which step is next and which were made.
LEMMA LeftTells ==
    ASSUME NEW s, RestOf(s), NEW k \in 1..17, NEW v, NEW w,
           Plan(Components)[k] = <<v, w>>
    PROVE  /\ Len(s) > 0 /\ Head(s) = <<v, w>> <=> Len(s) = 18 - k
           /\ (\A i \in DOMAIN s : s[i] # <<v, w>>) <=> Len(s) <= 17 - k
<1>1. /\ Len(s) \in Nat /\ Len(s) <= 17
      /\ DOMAIN s = 1..Len(s) /\ (s # <<>> <=> Len(s) > 0)
    BY EmptySeq, LenProperties DEF RestOf
<1>2. ASSUME NEW j \in 1..17, Plan(Components)[j] = <<v, w>>
      PROVE  j = k
    <2>1. j = Place(v, w)
        BY <1>2, Places, Zenon
    <2>2. k = Place(v, w)
        BY Places, Zenon
    <2> QED
        BY <2>1, <2>2, Zenon
<1>3. s # <<>> => Head(s) = Plan(Components)[18 - Len(s)] /\ 18 - Len(s) \in 1..17
    <2> SUFFICES ASSUME s # <<>> PROVE Head(s) = Plan(Components)[18 - Len(s)]
        BY <1>1 DEF RestOf
    <2>1. Head(s) = s[1] /\ 1 \in 1..Len(s) /\ (17 - Len(s)) + 1 = 18 - Len(s)
        BY <1>1, HeadTailProperties DEF RestOf
    <2> QED
        BY <2>1, Zenon DEF RestOf
<1>4. Len(s) > 0 /\ Head(s) = <<v, w>> <=> Len(s) = 18 - k
    <2>1. ASSUME Len(s) > 0, Head(s) = <<v, w>> PROVE Len(s) = 18 - k
        <3>1. 18 - Len(s) = k
            BY <1>1, <1>2, <1>3, <2>1, Zenon
        <3> QED
            BY <1>1, <3>1
    <2>2. ASSUME Len(s) = 18 - k PROVE Len(s) > 0 /\ Head(s) = <<v, w>>
        <3>1. Len(s) > 0 /\ s # <<>> /\ 18 - Len(s) = k
            BY <1>1, <2>2
        <3> QED
            BY <1>3, <3>1, Zenon
    <2> QED
        BY <2>1, <2>2
<1>5. ASSUME Len(s) <= 17 - k, NEW i \in DOMAIN s
      PROVE  s[i] # <<v, w>>
    <2>1. s[i] = Plan(Components)[(17 - Len(s)) + i]
        BY <1>1, Zenon DEF RestOf
    <2>2. (17 - Len(s)) + i \in 1..17 /\ (17 - Len(s)) + i # k
        <3>1. PICK n \in Nat : n = Len(s)
            BY <1>1
        <3>2. i \in 1..n /\ n <= 17 - k /\ n <= 17
            BY <1>1, <1>5, <3>1, Zenon
        <3>3. (17 - n) + i \in 1..17 /\ (17 - n) + i # k
            BY <3>2
        <3> QED
            BY <3>1, <3>3, Zenon
    <2> QED
        BY <1>2, <2>1, <2>2, Zenon
<1>6. ASSUME ~(Len(s) <= 17 - k)
      PROVE  \E i \in DOMAIN s : s[i] = <<v, w>>
    <2> DEFINE i == k - (17 - Len(s))
    <2>1. i \in DOMAIN s /\ (17 - Len(s)) + i = k /\ i \in 1..Len(s)
        BY <1>1, <1>6 DEF RestOf
    <2> HIDE DEF i
    <2>2. s[i] = Plan(Components)[k]
        BY <2>1, Zenon DEF RestOf
    <2> QED
        BY <2>1, <2>2, Zenon
<1> QED
    BY <1>4, <1>5, <1>6, Zenon

\* What is left after one more step.
LEMMA RestGoesOn ==
    ASSUME NEW s, RestOf(s), s # <<>>
    PROVE  /\ RestOf(Tail(s))
           /\ Len(s) \in Nat /\ Len(s) >= 1 /\ Len(Tail(s)) = Len(s) - 1
<1>1. /\ Len(s) \in Nat /\ Len(s) >= 1 /\ Len(s) <= 17
      /\ Tail(s) \in Seq(Steps) /\ Len(Tail(s)) = Len(s) - 1
      /\ \A i \in 1..Len(s) - 1 : Tail(s)[i] = s[i + 1]
    BY HeadTailProperties, EmptySeq, LenProperties DEF RestOf
<1>2. ASSUME NEW i \in 1..Len(Tail(s))
      PROVE  Tail(s)[i] = Plan(Components)[(17 - Len(Tail(s))) + i]
    <2>1. /\ Tail(s)[i] = s[i + 1] /\ i + 1 \in 1..Len(s)
          /\ (17 - Len(s)) + (i + 1) = (17 - Len(Tail(s))) + i
        BY <1>1
    <2> QED
        BY <2>1, Zenon DEF RestOf
<1>3. Len(Tail(s)) <= 17
    BY <1>1
<1> QED
    BY <1>1, <1>2, <1>3, Zenon DEF RestOf

\* CompleteRunIsSound, by the number of steps that are left.
SoundByCount ==
    LET left == Len(todo) IN
    /\ RestOf(todo)
    /\ status = "done" => todo = <<>>
    /\ runs > 0
    /\ left <= 16 => Whole(root)
    /\ left <= 13 => sealed["minio"] = root
    /\ left = 10 => drawn = VeleroKeys
    /\ left = 9 => local["velero"] = VeleroKeys
    /\ left <= 8 => sealed["velero"] = VeleroKeys
    /\ left = 6 => SubSeq(local["app"], 1, 2) = S3Keys
    /\ left <= 5 => SubSeq(sealed["app"], 1, 2) = S3Keys
    /\ left <= 5 => sealed["app"] = local["app"]
    /\ left <= 4 => local["app"][3] = Or(env["INVENIO_SQLALCHEMY_DATABASE_URI"],
                                         sealed["database"][1])
    /\ left <= 1 /\ Whole(local["ghcr"]) => sealed["ghcr"] = local["ghcr"]
    /\ left <= 0 /\ Whole(local["ghcr"]) => sealed["updater"] = local["ghcr"]
    /\ "minio" \in torn => left > 13
    /\ "grafana" \in torn => left > 11
    /\ "velero" \in torn => left > 8
    /\ "app" \in torn => left > 5
    /\ "database" \in torn => left > 4
    /\ "ghcr" \in torn => left > 1
    /\ "updater" \in torn => left > 0

LEMMA Counted == TypeOK => (CompleteRunIsSound <=> SoundByCount)
<1> SUFFICES ASSUME TypeOK PROVE CompleteRunIsSound <=> SoundByCount
    OBVIOUS
<1>1. RestOf(todo) <=> IsRestOfPlan(Components)
    BY RestIsRest DEF TypeOK
<1> SUFFICES ASSUME RestOf(todo) PROVE CompleteRunIsSound <=> SoundByCount
    BY <1>1, Zenon DEF CompleteRunIsSound, SoundByCount
<1>2. Len(todo) \in Nat
    BY LenProperties DEF TypeOK
<1>3. ASSUME NEW k \in 1..17, NEW v, NEW w, Plan(Components)[k] = <<v, w>>
      PROVE  /\ Ahead(v, w) <=> Len(todo) = 18 - k
             /\ Passed(v, w) <=> Len(todo) <= 17 - k
    <2>1. /\ Len(todo) > 0 /\ Head(todo) = <<v, w>> <=> Len(todo) = 18 - k
          /\ (\A i \in DOMAIN todo : todo[i] # <<v, w>>) <=> Len(todo) <= 17 - k
        BY <1>3, LeftTells, Zenon
    <2>2. todo # <<>> <=> Len(todo) > 0
        BY <1>2, EmptySeq DEF TypeOK
    <2> QED
        BY <2>1, <2>2, Zenon DEF Ahead, Passed
<1>4. /\ Ahead("write", "velero") <=> Len(todo) = 18 - 8
      /\ Ahead("seal", "velero") <=> Len(todo) = 18 - 9
      /\ Ahead("seal", "app") <=> Len(todo) = 18 - 12
      /\ Passed("draw", "minio") <=> Len(todo) <= 17 - 1
      /\ Passed("seal", "minio") <=> Len(todo) <= 17 - 4
      /\ Passed("seal", "grafana") <=> Len(todo) <= 17 - 6
      /\ Passed("seal", "velero") <=> Len(todo) <= 17 - 9
      /\ Passed("seal", "app") <=> Len(todo) <= 17 - 12
      /\ Passed("seal", "database") <=> Len(todo) <= 17 - 13
      /\ Passed("seal", "ghcr") <=> Len(todo) <= 17 - 16
      /\ Passed("seal", "updater") <=> Len(todo) <= 17 - 17
    <2>1. /\ 1 \in 1..17 /\ 4 \in 1..17 /\ 6 \in 1..17 /\ 8 \in 1..17 /\ 9 \in 1..17
          /\ 12 \in 1..17 /\ 13 \in 1..17 /\ 16 \in 1..17 /\ 17 \in 1..17
        OBVIOUS
    <2> QED
        BY <1>3, <2>1, CompletePlan, ZenonT(60)
<1>5. (\A f \in torn : f = "token" \/ ~Passed("seal", f)) <=>
          /\ "minio" \in torn => ~Passed("seal", "minio")
          /\ "grafana" \in torn => ~Passed("seal", "grafana")
          /\ "velero" \in torn => ~Passed("seal", "velero")
          /\ "app" \in torn => ~Passed("seal", "app")
          /\ "database" \in torn => ~Passed("seal", "database")
          /\ "ghcr" \in torn => ~Passed("seal", "ghcr")
          /\ "updater" \in torn => ~Passed("seal", "updater")
    BY Zenon DEF TypeOK, SealedFiles, LocalFiles
<1>6. /\ Ahead("write", "velero") <=> Len(todo) = 10
      /\ Ahead("seal", "velero") <=> Len(todo) = 9
      /\ Ahead("seal", "app") <=> Len(todo) = 6
      /\ Passed("draw", "minio") <=> Len(todo) <= 16
      /\ Passed("seal", "minio") <=> Len(todo) <= 13
      /\ Passed("seal", "velero") <=> Len(todo) <= 8
      /\ Passed("seal", "app") <=> Len(todo) <= 5
      /\ Passed("seal", "database") <=> Len(todo) <= 4
      /\ Passed("seal", "ghcr") <=> Len(todo) <= 1
      /\ Passed("seal", "updater") <=> Len(todo) <= 0
      /\ ~Passed("seal", "minio") <=> Len(todo) > 13
      /\ ~Passed("seal", "grafana") <=> Len(todo) > 11
      /\ ~Passed("seal", "velero") <=> Len(todo) > 8
      /\ ~Passed("seal", "app") <=> Len(todo) > 5
      /\ ~Passed("seal", "database") <=> Len(todo) > 4
      /\ ~Passed("seal", "ghcr") <=> Len(todo) > 1
      /\ ~Passed("seal", "updater") <=> Len(todo) > 0
    BY <1>2, <1>4
<1> QED
    BY <1>1, <1>5, <1>6 DEF CompleteRunIsSound, SoundByCount

LEMMA CountedNext == TypeOK' => (CompleteRunIsSound' <=> SoundByCount')
BY Counted, PTL

LEMMA StepAt ==
    ASSUME RestOf(todo), NEW k \in 1..17, NEW v, NEW w, Plan(Components)[k] = <<v, w>>,
           At(v, w)
    PROVE  /\ RestOf(Tail(todo))
           /\ Len(todo) = 18 - k /\ Len(Tail(todo)) = 17 - k
<1>1. /\ RestOf(Tail(todo)) /\ Len(todo) \in Nat /\ Len(todo) >= 1
      /\ Len(Tail(todo)) = Len(todo) - 1
    BY RestGoesOn DEF At, Ahead
<1>2. Len(todo) = 18 - k
    <2>1. Len(todo) > 0 /\ Head(todo) = <<v, w>>
        BY <1>1 DEF At, Ahead
    <2> QED
        BY <2>1, LeftTells, Zenon
<1> QED
    BY <1>1, <1>2

LEMMA KeysKept ==
    ASSUME env' = env, root' = root
    PROVE  VeleroKeys' = VeleroKeys /\ S3Keys' = S3Keys
BY DEF VeleroKeys, S3Keys, Exported

\* Whole credentials are what both loaders find.
LEMMA LoadedIsRoot ==
    ASSUME TypeOK, Whole(root)
    PROVE  Loaded = root
<1>1. root \in Nat \X Nat /\ local["minio"] \in Nat \X Nat
    BY DEF TypeOK
<1>2. /\ OrPair(root, ExportedRoot) \in Nat \X Nat
      /\ OrPair(root, ExportedRoot)[1] = root[1] /\ OrPair(root, ExportedRoot)[2] = root[2]
    BY <1>1, LoadedIsPair, OrPairIsPair DEF Whole
<1>3. Loaded[1] = root[1] /\ Loaded[2] = root[2] /\ Loaded \in Nat \X Nat
    BY <1>1, <1>2, OrPairIsPair DEF Loaded, Whole
<1> QED
    BY <1>1, <1>3, PairsAreEqual

\* The first two values of what is written for Invenio.
LEMMA AppKeys ==
    ASSUME TypeOK, NEW c \in Nat
    PROVE  SubSeq(S3Keys \o <<c>>, 1, 2) = S3Keys
<1> DEFINE k == S3Keys
           u == k \o <<c>>
<1>1. k \in Seq(Nat) /\ Len(k) = 2
    <2>1. Exported("INVENIO_S3_ACCESS_KEY_ID", "INVENIO_S3_SECRET_ACCESS_KEY") \in Nat \X Nat
        BY ExportedIsPair DEF EnvVars
    <2>2. S3Keys \in Nat \X Nat
        BY <2>1, OrPairIsPair DEF S3Keys, TypeOK
    <2>3. PICK a \in Nat, b \in Nat : S3Keys = <<a, b>>
        BY <2>2
    <2>4. <<a, b>> \in Seq(Nat) /\ Len(<<a, b>>) = 2
        BY TwoElements, Zenon
    <2> QED
        BY <2>3, <2>4, Zenon
<1> HIDE DEF k
<1>2. <<c>> \in Seq(Nat) /\ Len(<<c>>) = 1
    OBVIOUS
<1>3. \A i \in 1..2 : u[i] = k[i] /\ u[i] \in Nat
    <2>1. \A i \in 1..Len(k) + Len(<<c>>) :
              u[i] = IF i <= Len(k) THEN k[i] ELSE <<c>>[i - Len(k)]
        BY <1>1, <1>2, ConcatProperties
    <2>2. \A i \in 1..Len(k) : k[i] \in Nat
        BY <1>1, ElementOfSeq
    <2>3. 1 \in 1..Len(k) /\ 2 \in 1..Len(k)
        BY <1>1
    <2>4. u[1] = k[1] /\ u[2] = k[2]
        BY <1>1, <1>2, <2>1
    <2> QED
        BY <2>2, <2>3, <2>4
<1> HIDE DEF u
<1>4. /\ SubSeq(u, 1, 2) \in Seq(Nat) /\ Len(SubSeq(u, 1, 2)) = 2
      /\ \A i \in 1..2 : SubSeq(u, 1, 2)[i] = u[i]
    BY <1>3, SubSeqProperties
<1>5. SubSeq(u, 1, 2) = k
    BY <1>1, <1>3, <1>4, SeqEqual
<1> QED
    BY <1>5 DEF u, k

LEMMA DrawMinioSound ==
    ASSUME TypeOK, SoundByCount, DrawMinio
    PROVE  SoundByCount'
<1>1. RestOf(todo') /\ Len(todo') = 16
    <2>1. Len(todo') = 17 - 1 /\ RestOf(todo')
        <3>1. 1 \in 1..17 /\ Plan(Components)[1] = <<"draw", "minio">>
            BY CompletePlan
        <3>2. RestOf(todo) /\ At("draw", "minio") /\ todo' = Tail(todo)
            BY DEF SoundByCount, DrawMinio, Continue
        <3> QED
            BY <3>1, <3>2, StepAt, Zenon
    <2> QED
        BY <2>1
<1>2. Whole(root')
    <2>1. runs \in Nat /\ runs # 0
        BY SecretsAssumption DEF TypeOK, SoundByCount
    <2>2. <<runs, runs>> \in Nat \X Nat /\ <<runs, runs>>[1] # 0 /\ <<runs, runs>>[2] # 0
        BY <2>1
    <2> QED
        BY <2>2, LoadedIsPair, OrPairIsPair DEF Whole, DrawMinio
<1> QED
    <2>1. status' = "running" /\ runs' = runs /\ runs > 0
        BY DEF SoundByCount, DrawMinio, At, Continue
    <2> QED
        BY <1>1, <1>2, <2>1 DEF SoundByCount

\* What a step of a complete run leaves as it is, unless it draws.
LEMMA Moved ==
    ASSUME SoundByCount, NEW k \in 1..17, NEW v, NEW w, Plan(Components)[k] = <<v, w>>,
           At(v, w), Continue, root' = root
    PROVE  /\ RestOf(todo') /\ Len(todo) = 18 - k /\ Len(todo') = 17 - k
           /\ status' = "running" /\ runs' = runs /\ runs > 0 /\ env' = env
           /\ VeleroKeys' = VeleroKeys /\ S3Keys' = S3Keys
<1>1. RestOf(todo) /\ todo' = Tail(todo) /\ env' = env
    BY DEF SoundByCount, Continue
<1>2. RestOf(todo') /\ Len(todo) = 18 - k /\ Len(todo') = 17 - k
    BY <1>1, StepAt, Zenon
<1>3. status' = "running" /\ runs' = runs /\ runs > 0
    BY DEF SoundByCount, At, Continue
<1> QED
    BY <1>1, <1>2, <1>3, KeysKept, Zenon

LEMMA WriteMinioUserSound ==
    ASSUME TypeOK, SoundByCount, WriteMinioUser
    PROVE  SoundByCount'
<1>1. 2 \in 1..17 /\ Plan(Components)[2] = <<"write", "user">>
    BY CompletePlan
<1>2. At("write", "user") /\ Continue /\ root' = root
    BY DEF WriteMinioUser, Write
<1>3. /\ RestOf(todo') /\ Len(todo) = 18 - 2 /\ Len(todo') = 17 - 2
      /\ status' = "running" /\ runs' = runs /\ runs > 0 /\ env' = env
      /\ VeleroKeys' = VeleroKeys /\ S3Keys' = S3Keys
    BY <1>1, <1>2, Moved, Zenon
<1>4. /\ sealed' = sealed /\ torn' = torn \cup {"minio"}
      /\ local'["velero"] = local["velero"] /\ local'["app"] = local["app"]
    BY DEF TypeOK, LocalFiles, SealedFiles, WriteMinioUser, Write
<1> QED
    BY <1>2, <1>3, <1>4 DEF SoundByCount

LEMMA WriteMinioPasswordSound ==
    ASSUME TypeOK, SoundByCount, WriteMinioPassword
    PROVE  SoundByCount'
<1>1. 3 \in 1..17 /\ Plan(Components)[3] = <<"write", "password">>
    BY CompletePlan
<1>2. At("write", "password") /\ Continue /\ root' = root
    BY DEF WriteMinioPassword, Write
<1>3. /\ RestOf(todo') /\ Len(todo) = 18 - 3 /\ Len(todo') = 17 - 3
      /\ status' = "running" /\ runs' = runs /\ runs > 0 /\ env' = env
      /\ VeleroKeys' = VeleroKeys /\ S3Keys' = S3Keys
    BY <1>1, <1>2, Moved, Zenon
<1>4. /\ sealed' = sealed /\ torn' = torn \cup {"minio"}
      /\ local'["velero"] = local["velero"] /\ local'["app"] = local["app"]
    BY DEF TypeOK, LocalFiles, SealedFiles, WriteMinioPassword, Write
<1> QED
    BY <1>2, <1>3, <1>4 DEF SoundByCount

LEMMA WriteGrafanaSound ==
    ASSUME TypeOK, SoundByCount, WriteGrafana
    PROVE  SoundByCount'
<1>1. 5 \in 1..17 /\ Plan(Components)[5] = <<"write", "grafana">>
    BY CompletePlan
<1>2. At("write", "grafana") /\ Continue /\ root' = root
    BY DEF WriteGrafana, Write
<1>3. /\ RestOf(todo') /\ Len(todo) = 18 - 5 /\ Len(todo') = 17 - 5
      /\ status' = "running" /\ runs' = runs /\ runs > 0 /\ env' = env
      /\ VeleroKeys' = VeleroKeys /\ S3Keys' = S3Keys
    BY <1>1, <1>2, Moved, Zenon
<1>4. /\ sealed' = sealed /\ torn' = torn \cup {"grafana"}
      /\ local'["velero"] = local["velero"] /\ local'["app"] = local["app"]
    BY DEF TypeOK, LocalFiles, SealedFiles, WriteGrafana, Write
<1> QED
    BY <1>2, <1>3, <1>4 DEF SoundByCount

LEMMA WriteVeleroSound ==
    ASSUME TypeOK, SoundByCount, WriteVelero
    PROVE  SoundByCount'
<1>1. 8 \in 1..17 /\ Plan(Components)[8] = <<"write", "velero">>
    BY CompletePlan
<1>2. At("write", "velero") /\ Continue /\ root' = root
    BY DEF WriteVelero, Write
<1>3. /\ RestOf(todo') /\ Len(todo) = 18 - 8 /\ Len(todo') = 17 - 8
      /\ status' = "running" /\ runs' = runs /\ runs > 0 /\ env' = env
      /\ VeleroKeys' = VeleroKeys /\ S3Keys' = S3Keys
    BY <1>1, <1>2, Moved, Zenon
<1>4. /\ sealed' = sealed /\ torn' = torn \cup {"velero"}
      /\ local'["velero"] = drawn /\ local'["app"] = local["app"]
    BY DEF TypeOK, LocalFiles, SealedFiles, WriteVelero, Write
<1> QED
    BY <1>2, <1>3, <1>4 DEF SoundByCount

LEMMA WriteTokenSound ==
    ASSUME TypeOK, SoundByCount, WriteToken
    PROVE  SoundByCount'
<1>1. 14 \in 1..17 /\ Plan(Components)[14] = <<"write", "token">>
    BY CompletePlan
<1>2. At("write", "token") /\ Continue /\ root' = root
    BY DEF WriteToken, Write
<1>3. /\ RestOf(todo') /\ Len(todo) = 18 - 14 /\ Len(todo') = 17 - 14
      /\ status' = "running" /\ runs' = runs /\ runs > 0 /\ env' = env
      /\ VeleroKeys' = VeleroKeys /\ S3Keys' = S3Keys
    BY <1>1, <1>2, Moved, Zenon
<1>4. /\ sealed' = sealed /\ torn' = torn \cup {"token"}
      /\ local'["velero"] = local["velero"] /\ local'["app"] = local["app"]
      /\ local'["ghcr"] = local["ghcr"]
    BY DEF TypeOK, LocalFiles, SealedFiles, WriteToken, Write
<1> QED
    BY <1>2, <1>3, <1>4 DEF SoundByCount

LEMMA WriteAppSound ==
    ASSUME TypeOK, SoundByCount, WriteApp
    PROVE  SoundByCount'
<1>1. 11 \in 1..17 /\ Plan(Components)[11] = <<"write", "app">>
    BY CompletePlan
<1>2. At("write", "app") /\ Continue /\ root' = root
    BY DEF WriteApp, Write
<1>3. /\ RestOf(todo') /\ Len(todo) = 18 - 11 /\ Len(todo') = 17 - 11
      /\ status' = "running" /\ runs' = runs /\ runs > 0 /\ env' = env
      /\ VeleroKeys' = VeleroKeys /\ S3Keys' = S3Keys
    BY <1>1, <1>2, Moved, Zenon
<1>4. /\ sealed' = sealed /\ torn' = torn \cup {"app", "database"}
      /\ local'["app"] = S3Keys \o <<drawn[2]>>
    BY DEF TypeOK, LocalFiles, SealedFiles, WriteApp, Write
<1>5. SubSeq(S3Keys \o <<drawn[2]>>, 1, 2) = S3Keys
    BY AppKeys DEF TypeOK
<1> QED
    BY <1>2, <1>3, <1>4, <1>5 DEF SoundByCount

LEMMA LoadForVeleroSound ==
    ASSUME TypeOK, SoundByCount, LoadForVelero
    PROVE  SoundByCount'
<1>1. 7 \in 1..17 /\ Plan(Components)[7] = <<"load", "velero">>
    BY CompletePlan
<1>2. At("load", "velero") /\ Continue /\ Len(todo) = 18 - 7
    BY <1>1, StepAt, Zenon DEF LoadForVelero, Continue, SoundByCount
<1>3. Loaded = root
    BY <1>2, LoadedIsRoot DEF SoundByCount
<1>4. root' = root /\ drawn' = VeleroKeys /\ UNCHANGED files
    BY <1>3 DEF LoadForVelero, VeleroKeys
<1>5. /\ RestOf(todo') /\ Len(todo) = 18 - 7 /\ Len(todo') = 17 - 7
      /\ status' = "running" /\ runs' = runs /\ runs > 0 /\ env' = env
      /\ VeleroKeys' = VeleroKeys /\ S3Keys' = S3Keys
    BY <1>1, <1>2, <1>4, Moved, Zenon
<1> QED
    BY <1>4, <1>5 DEF SoundByCount, files

LEMMA LoadForInvenioSound ==
    ASSUME TypeOK, SoundByCount, LoadForInvenio
    PROVE  SoundByCount'
<1>1. 10 \in 1..17 /\ Plan(Components)[10] = <<"load", "invenio">>
    BY CompletePlan
<1>2. At("load", "invenio") /\ Continue /\ Len(todo) = 18 - 10
    BY <1>1, StepAt, Zenon DEF LoadForInvenio, Continue, SoundByCount
<1>3. Loaded = root
    BY <1>2, LoadedIsRoot DEF SoundByCount
<1>4. root' = root /\ UNCHANGED files
    BY <1>3 DEF LoadForInvenio
<1>5. /\ RestOf(todo') /\ Len(todo) = 18 - 10 /\ Len(todo') = 17 - 10
      /\ status' = "running" /\ runs' = runs /\ runs > 0 /\ env' = env
      /\ VeleroKeys' = VeleroKeys /\ S3Keys' = S3Keys
    BY <1>1, <1>2, <1>4, Moved, Zenon
<1> QED
    BY <1>4, <1>5 DEF SoundByCount, files

\* Two steps are passed at once, and neither matters to what is promised.
LEMMA SkipTokenSound ==
    ASSUME TypeOK, SoundByCount, SkipToken
    PROVE  SoundByCount'
<1>1. 14 \in 1..17 /\ Plan(Components)[14] = <<"write", "token">>
    BY CompletePlan
<1>2. RestOf(todo) /\ At("write", "token") /\ status = "running"
    BY DEF SoundByCount, SkipToken, At
<1>3. PICK rest : rest = Tail(todo)
    OBVIOUS
<1>4. RestOf(rest) /\ Len(todo) = 18 - 14 /\ Len(rest) = 17 - 14
    BY <1>1, <1>2, <1>3, StepAt, Zenon
<1>5. RestOf(Tail(rest)) /\ Len(Tail(rest)) = 16 - 14
    <2>1. rest # <<>>
        BY <1>4, EmptySeq
    <2> QED
        BY <1>4, <2>1, RestGoesOn
<1>6. todo' = Tail(rest) /\ UNCHANGED <<files, run, status>>
    BY <1>3 DEF SkipToken
<1>7. VeleroKeys' = VeleroKeys /\ S3Keys' = S3Keys
    BY <1>6, KeysKept DEF run
<1>8. /\ RestOf(todo') /\ Len(todo') = 16 - 14
      /\ UNCHANGED <<sealed, torn, root, runs, local, env>>
      /\ status' = "running"
    BY <1>2, <1>5, <1>6 DEF files, run
<1> QED
    BY <1>4, <1>7, <1>8 DEF SoundByCount

\* Sealing the file at place k leaves every other sealed file as it is.
LEMMA SealMoves ==
    ASSUME TypeOK, SoundByCount, NEW f \in SealedFiles, Seal(f),
           NEW k \in 1..17, Plan(Components)[k] = <<"seal", f>>
    PROVE  /\ RestOf(todo') /\ Len(todo) = 18 - k /\ Len(todo') = 17 - k
           /\ status' = "running" /\ runs' = runs /\ runs > 0 /\ env' = env
           /\ VeleroKeys' = VeleroKeys /\ S3Keys' = S3Keys
           /\ sealed'[f] = Content[f]
           /\ \A g \in SealedFiles \ {f} : sealed'[g] = sealed[g]
           /\ torn' = torn \ {f} /\ local' = local /\ root' = root
<1>1. At("seal", f) /\ Continue /\ root' = root /\ local' = local
    BY DEF Seal
<1>2. /\ RestOf(todo') /\ Len(todo) = 18 - k /\ Len(todo') = 17 - k
      /\ status' = "running" /\ runs' = runs /\ runs > 0 /\ env' = env
      /\ VeleroKeys' = VeleroKeys /\ S3Keys' = S3Keys
    BY <1>1, Moved, Zenon
<1>3. /\ sealed'[f] = Content[f]
      /\ \A g \in SealedFiles \ {f} : sealed'[g] = sealed[g]
      /\ torn' = torn \ {f}
    BY DEF TypeOK, Seal
<1> QED
    BY <1>1, <1>2, <1>3, Zenon

LEMMA SealSound ==
    ASSUME SecretsInv, TypeOK, SoundByCount, NEW f \in SealedFiles, Seal(f)
    PROVE  SoundByCount'
<1>1. /\ 4 \in 1..17 /\ 6 \in 1..17 /\ 9 \in 1..17 /\ 12 \in 1..17 /\ 13 \in 1..17
      /\ 15 \in 1..17 /\ 16 \in 1..17 /\ 17 \in 1..17
    OBVIOUS
<1>2. PICK k \in {4, 6, 9, 12, 13, 15, 16, 17} : Plan(Components)[k] = <<"seal", f>>
    BY CompletePlan, Zenon DEF SealedFiles, LocalFiles
<1>3. k \in 1..17
    BY <1>1, <1>2
<1>4. k = Place("seal", f)
    BY <1>2, <1>3, Places
<1>5. /\ k = 4 <=> f = "minio"
      /\ k = 6 <=> f = "grafana"
      /\ k = 9 <=> f = "velero"
      /\ k = 12 <=> f = "app"
      /\ k = 13 <=> f = "database"
      /\ k = 15 <=> f = "token"
      /\ k = 16 <=> f = "ghcr"
      /\ k = 17 <=> f = "updater"
    BY <1>4 DEF Place, SealedFiles, LocalFiles
<1>6. /\ RestOf(todo') /\ Len(todo) = 18 - k /\ Len(todo') = 17 - k
      /\ status' = "running" /\ runs' = runs /\ runs > 0 /\ env' = env
      /\ VeleroKeys' = VeleroKeys /\ S3Keys' = S3Keys
      /\ sealed'[f] = Content[f]
      /\ \A g \in SealedFiles \ {f} : sealed'[g] = sealed[g]
      /\ torn' = torn \ {f} /\ local' = local /\ root' = root
    BY <1>2, <1>3, SealMoves, Zenon
<1>7. /\ "minio" \in SealedFiles /\ "velero" \in SealedFiles /\ "app" \in SealedFiles
      /\ "database" \in SealedFiles /\ "ghcr" \in SealedFiles /\ "updater" \in SealedFiles
    BY DEF SealedFiles, LocalFiles
<1>8. /\ f = "minio" => sealed'["minio"] = root
      /\ f = "velero" => sealed'["velero"] = local["velero"]
      /\ f = "app" => sealed'["app"] = local["app"]
      /\ f = "database" => sealed'["database"] = <<drawn[1]>>
      /\ f = "ghcr" => sealed'["ghcr"] = local["ghcr"]
      /\ f = "updater" => sealed'["updater"] = local["ghcr"]
    BY <1>6, Contents, Zenon
<1>9. /\ f # "minio" => sealed'["minio"] = sealed["minio"]
      /\ f # "velero" => sealed'["velero"] = sealed["velero"]
      /\ f # "app" => sealed'["app"] = sealed["app"]
      /\ f # "database" => sealed'["database"] = sealed["database"]
      /\ f # "ghcr" => sealed'["ghcr"] = sealed["ghcr"]
      /\ f # "updater" => sealed'["updater"] = sealed["updater"]
    BY <1>6, <1>7
<1>10. CASE f = "minio"
    BY <1>5, <1>6, <1>8, <1>9, <1>10 DEF SoundByCount
<1>11. CASE f = "grafana"
    BY <1>5, <1>6, <1>9, <1>11 DEF SoundByCount
<1>12. CASE f = "velero"
    BY <1>5, <1>6, <1>8, <1>9, <1>12 DEF SoundByCount
<1>13. CASE f = "app"
    BY <1>5, <1>6, <1>8, <1>9, <1>13 DEF SoundByCount
<1>14. CASE f = "database"
    <2>1. local["app"][3] = Or(env["INVENIO_SQLALCHEMY_DATABASE_URI"], drawn[1])
        BY <1>14 DEF SecretsInv, StepIsReady, Seal, At
    <2>2. sealed'["database"][1] = drawn[1]
        BY <1>8, <1>14
    <2>3. local'["app"][3] = Or(env'["INVENIO_SQLALCHEMY_DATABASE_URI"],
                                sealed'["database"][1])
        BY <1>6, <2>1, <2>2
    <2> QED
        BY <1>5, <1>6, <1>9, <1>14, <2>3 DEF SoundByCount
<1>15. CASE f \in {"token", "ghcr", "updater"}
    BY <1>5, <1>6, <1>8, <1>9, <1>15 DEF SoundByCount
<1> QED
    BY <1>10, <1>11, <1>12, <1>13, <1>14, <1>15 DEF SealedFiles, LocalFiles

\* Without GHCR credentials, nothing made from them was ever torn.
LEMMA SkipSealSound ==
    ASSUME TypeOK, SoundByCount, SkippedIsWhole, NEW f \in SealedFiles, SkipSeal(f)
    PROVE  SoundByCount'
<1>1. /\ 16 \in 1..17 /\ Plan(Components)[16] = <<"seal", "ghcr">>
      /\ 17 \in 1..17 /\ Plan(Components)[17] = <<"seal", "updater">>
    BY CompletePlan
<1>2. PICK k \in {16, 17} : Plan(Components)[k] = <<"seal", f>>
    BY <1>1, Zenon DEF SkipSeal, Skipped
<1>3. k \in 1..17
    BY <1>1, <1>2
<1>4. At("seal", f) /\ Continue /\ root' = root /\ UNCHANGED files
    BY DEF SkipSeal
<1>5. /\ RestOf(todo') /\ Len(todo) = 18 - k /\ Len(todo') = 17 - k
      /\ status' = "running" /\ runs' = runs /\ runs > 0 /\ env' = env
      /\ VeleroKeys' = VeleroKeys /\ S3Keys' = S3Keys
    BY <1>2, <1>3, <1>4, Moved, Zenon
<1>6. "ghcr" \notin torn /\ "updater" \notin torn /\ ~Whole(local["ghcr"])
    BY DEF SkippedIsWhole, SkipSeal, Skipped
<1> QED
    BY <1>4, <1>5, <1>6 DEF SoundByCount, files

\* A run starts with all of its plan before it.
LEMMA StartSound ==
    ASSUME SecretsInv, Start, status' = "running", asked' = Components
    PROVE  SoundByCount'
<1>1. todo' = Plan(Components)
    BY DEF Start
<1>2. RestOf(todo') /\ Len(todo') = 17
    BY <1>1, CompletePlan DEF RestOf
<1>3. runs' > 0
    BY SecretsAssumption DEF SecretsInv, TypeOK, Start
<1> QED
    BY <1>2, <1>3 DEF SoundByCount, Start

LEMMA ReportSound ==
    ASSUME TypeOK, SoundByCount, Report
    PROVE  SoundByCount'
<1>1. VeleroKeys' = VeleroKeys /\ S3Keys' = S3Keys
    BY KeysKept DEF Report, run
<1> QED
    BY <1>1 DEF SoundByCount, Report, files, run

LEMMA StutterSound ==
    ASSUME SoundByCount, UNCHANGED vars
    PROVE  SoundByCount'
<1>1. VeleroKeys' = VeleroKeys /\ S3Keys' = S3Keys
    BY KeysKept DEF vars, run
<1> QED
    BY <1>1 DEF SoundByCount, vars, files, run

\* GHCR credentials are only ever placed by the operator, and what is sealed
\* from them is only torn by a run that has them.
LEMMA SkippedStep ==
    ASSUME SecretsInv, SkippedIsWhole, [Next]_vars
    PROVE  SkippedIsWhole'
<1>1. CASE /\ local'["ghcr"] = local["ghcr"]
           /\ torn' \cap {"ghcr", "updater"} \subseteq torn
           /\ Whole(local["ghcr"]) \/ \A f \in {"ghcr", "updater"} : sealed'[f] = sealed[f]
    BY <1>1 DEF SkippedIsWhole, Whole
<1>2. ASSUME NEW f \in SealedFiles, Seal(f) \/ SealFails(f)
      PROVE  SkippedIsWhole'
    <2>1. /\ local' = local /\ torn' \subseteq torn \cup {f}
          /\ \A g \in SealedFiles \ {f} : sealed'[g] = sealed[g]
          /\ f \in {"ghcr", "updater"} => Whole(local["ghcr"])
        BY <1>2 DEF Seal, SealFails, Skipped, SecretsInv, TypeOK
    <2>2. "ghcr" \in SealedFiles /\ "updater" \in SealedFiles
        BY DEF SealedFiles, LocalFiles
    <2> QED
        BY <2>1, <2>2 DEF SkippedIsWhole, Whole
<1>3. "ghcr" \in LocalFiles
    BY DEF LocalFiles
<1>4. CASE UNCHANGED files
    BY <1>1, <1>4 DEF files
<1>5. ASSUME NEW f \in LocalFiles \ {"ghcr"}, NEW content, NEW fs,
             fs \cap {"ghcr", "updater"} = {}, Write(f, content, fs)
      PROVE  SkippedIsWhole'
    <2>1. /\ local'["ghcr"] = local["ghcr"] /\ sealed' = sealed
          /\ torn' \cap {"ghcr", "updater"} \subseteq torn
        BY <1>3, <1>5 DEF Write, SecretsInv, TypeOK
    <2> QED
        BY <1>1, <2>1
<1>6. CASE WriteMinioUser \/ WriteMinioPassword
    BY <1>5, <1>6 DEF WriteMinioUser, WriteMinioPassword, LocalFiles
<1>7. CASE WriteGrafana \/ WriteVelero \/ WriteApp \/ WriteToken
    BY <1>5, <1>7 DEF WriteGrafana, WriteVelero, WriteApp, WriteToken, LocalFiles
<1>8. \/ UNCHANGED files
      \/ \E f \in SealedFiles : Seal(f) \/ SealFails(f)
      \/ WriteMinioUser \/ WriteMinioPassword \/ WriteGrafana \/ WriteVelero
      \/ WriteApp \/ WriteToken
    BY DEF Next, RunStep, Start, DrawMinio, LoadForVelero, LoadForInvenio, SkipToken,
           SkipSeal, Report, UnboundVariable, CredentialsMissing, Interrupt, vars
<1> QED
    BY <1>2, <1>4, <1>6, <1>7, <1>8

\* A complete run is sound before and after each of its steps.
LEMMA RunStepSound ==
    ASSUME CompleteInv, RunStep, status' \in {"running", "done"}, asked' = Components
    PROVE  SoundByCount'
<1>1. status = "running" /\ asked' = asked
    BY DEF RunStep, DrawMinio, WriteMinioUser, WriteMinioPassword, WriteGrafana,
           LoadForVelero, WriteVelero, LoadForInvenio, WriteApp, WriteToken, SkipToken,
           Seal, SkipSeal, SealFails, Report, UnboundVariable, CredentialsMissing,
           Interrupt, At, Continue, Write, Fail, run
<1>2. SecretsInv /\ TypeOK /\ SoundByCount /\ SkippedIsWhole
    BY <1>1, Counted DEF CompleteInv, SecretsInv
<1>3. CASE DrawMinio \/ WriteMinioUser \/ WriteMinioPassword \/ WriteGrafana
    BY <1>2, <1>3, DrawMinioSound, WriteMinioUserSound, WriteMinioPasswordSound,
       WriteGrafanaSound
<1>4. CASE LoadForVelero \/ WriteVelero \/ LoadForInvenio \/ WriteApp
    BY <1>2, <1>4, LoadForVeleroSound, WriteVeleroSound, LoadForInvenioSound,
       WriteAppSound
<1>5. CASE WriteToken \/ SkipToken \/ Report
    BY <1>2, <1>5, WriteTokenSound, SkipTokenSound, ReportSound
<1>6. CASE \E f \in SealedFiles : Seal(f) \/ SkipSeal(f)
    BY <1>2, <1>6, SealSound, SkipSealSound
<1>7. ~Fail
    BY DEF Fail
<1> QED
    BY <1>3, <1>4, <1>5, <1>6, <1>7
    DEF RunStep, SealFails, UnboundVariable, CredentialsMissing, Interrupt

LEMMA CompleteStep == CompleteInv /\ [Next]_vars => CompleteInv'
<1> SUFFICES ASSUME CompleteInv, [Next]_vars PROVE CompleteInv'
    OBVIOUS
<1>1. SecretsInv' /\ MinioIsMended' /\ SkippedIsWhole'
    BY StepInv, MendedStep, SkippedStep DEF CompleteInv
<1>2. ASSUME status' \in {"running", "done"}, asked' = Components
      PROVE  SoundByCount'
    <2>1. CASE Start
        <3>1. status' = "running"
            BY <1>2, <2>1 DEF Start
        <3> QED
            BY <1>2, <2>1, <3>1, StartSound DEF CompleteInv
    <2>2. CASE RunStep
        BY <1>2, <2>2, RunStepSound
    <2>3. CASE UNCHANGED vars
        <3>1. SoundByCount
            BY <1>2, <2>3, Counted DEF CompleteInv, SecretsInv, vars, run
        <3> QED
            BY <2>3, <3>1, StutterSound
    <2> QED
        BY <2>1, <2>2, <2>3 DEF Next
<1>3. TypeOK'
    BY <1>1 DEF SecretsInv
<1> QED
    BY <1>1, <1>2, <1>3, CountedNext DEF CompleteInv

\* What a complete run has done so far does not depend on the runs before it.
THEOREM CompleteInvHolds == Spec => []CompleteInv
<1>1. Init => CompleteInv
    <2>1. Init => SkippedIsWhole /\ status = "idle"
        BY DEF Init, SkippedIsWhole, SealedFiles, LocalFiles
    <2>2. Init => MinioIsMended
        BY EmptySealsOthers DEF Init, MinioIsMended
    <2> QED
        BY <2>1, <2>2, InitInv DEF CompleteInv
<1> QED
    BY <1>1, CompleteStep, PTL DEF Spec

\* A complete run leaves every copy of a credential as the credential is, or
\* as it was exported for the copy, and nothing torn but the tunnel token.
THEOREM CompleteRunAlwaysAgrees == Spec => []CompleteRunAgrees
<1>1. CompleteInv => CompleteRunAgrees
    <2> SUFFICES ASSUME CompleteInv, status = "done", asked = Components
                 PROVE  /\ sealed["velero"] =
                               OrPair(Exported("VELERO_ACCESS_KEY_ID",
                                               "VELERO_SECRET_ACCESS_KEY"), sealed["minio"])
                        /\ SubSeq(sealed["app"], 1, 2) =
                               OrPair(Exported("INVENIO_S3_ACCESS_KEY_ID",
                                               "INVENIO_S3_SECRET_ACCESS_KEY"),
                                      sealed["minio"])
                        /\ sealed["app"][3] = Or(env["INVENIO_SQLALCHEMY_DATABASE_URI"],
                                                 sealed["database"][1])
                        /\ sealed["updater"] = sealed["ghcr"]
                        /\ torn \subseteq {"token"}
        BY DEF CompleteRunAgrees
    <2>1. SoundByCount /\ TypeOK
        BY Counted DEF CompleteInv, SecretsInv
    <2>2. todo = <<>> /\ Len(todo) = 0
        BY <2>1, EmptySeq DEF SoundByCount
    <2>3. /\ sealed["minio"] = root /\ sealed["velero"] = VeleroKeys
          /\ SubSeq(sealed["app"], 1, 2) = S3Keys
          /\ sealed["app"][3] = Or(env["INVENIO_SQLALCHEMY_DATABASE_URI"],
                                   sealed["database"][1])
        BY <2>1, <2>2 DEF SoundByCount
    <2>4. torn \subseteq {"token"}
        <3>1. /\ "minio" \notin torn /\ "grafana" \notin torn /\ "velero" \notin torn
              /\ "app" \notin torn /\ "database" \notin torn /\ "ghcr" \notin torn
              /\ "updater" \notin torn
            BY <2>1, <2>2 DEF SoundByCount
        <3>2. torn \subseteq SealedFiles
            BY <2>1 DEF TypeOK
        <3> QED
            BY <3>1, <3>2 DEF SealedFiles, LocalFiles
    <2>5. sealed["updater"] = sealed["ghcr"]
        BY <2>1, <2>2 DEF SoundByCount, CompleteInv, SkippedIsWhole
    <2> QED
        BY <2>3, <2>4, <2>5 DEF VeleroKeys, S3Keys
<1> QED
    BY <1>1, CompleteInvHolds, PTL
=============================================================================
