--------------------------- MODULE CatalogueProofs ---------------------------
(***************************************************************************)
(* The numbers of the ModuleList can be ordered by, for any hosts and      *)
(* kinds, whatever the network delays and loses and whoever announces      *)
(* itself meanwhile: the list only grows, by what it has not got yet, so   *)
(* that an order finds its host listed for as long as it is under way.     *)
(***************************************************************************)
EXTENDS Catalogue, SelectionProofs

Shades(h) == {Kinds[h][n].mColor : n \in DOMAIN Kinds[h]} \cup Colours \cup {Unset}
Sets(h) == [kind : {"set"}, osc : Offers(h), mColor : Shades(h)]
AllOffers == UNION {Offers(h) : h \in Hosts}
Entries == [ip : Hosts, osc : AllOffers, mColor : UNION {Shades(h) : h \in Hosts}, tID : Nat]
Requests == [kind : {"request"}]
Orders == [kind : Commands, osc : AllOffers, tile : {Digits(t) : t \in TileIDs}]

CatalogueTypeOK ==
    /\ mList \in Seq(Entries)
    /\ DOMAIN toList = Hosts /\ \A h \in Hosts : toList[h] \in Seq(Sets(h))
    /\ DOMAIN toHost = Hosts /\ \A h \in Hosts : toHost[h] \in Seq(Requests \cup Orders)

ListedOnce ==
    \A n, k \in DOMAIN mList : (mList[n].ip = mList[k].ip /\ mList[n].osc = mList[k].osc) => n = k

NumberedByPlace ==
    \A n \in DOMAIN mList : mList[n].tID = n /\ mList[n].osc \in Offers(mList[n].ip)

\* What is ordered and under way is listed.
Asked(d, h) == d.kind # "request" => ListedAt(h, d.osc) # {}
OrdersAreListed == \A h \in Hosts : \A k \in DOMAIN toHost[h] : Asked(toHost[h][k], h)

CatalogueInv == CatalogueTypeOK /\ ListedOnce /\ NumberedByPlace /\ OrdersAreListed

-----------------------------------------------------------------------------
(* What a program sends is of its own kinds.                               *)

LEMMA TimesType ==
    ASSUME NEW S, NEW d \in S, NEW n \in Nat
    PROVE  Times(n, d) \in Seq(S) /\ Len(Times(n, d)) = n /\ \A c \in 1 .. n : Times(n, d)[c] = d
  <1>1. Times(n, d) \in Seq(S)
    BY IsASeq DEF Times
  <1>2. DOMAIN Times(n, d) = 1 .. n /\ \A c \in 1 .. n : Times(n, d)[c] = d
    BY DEF Times
  <1>3. Len(Times(n, d)) \in Nat /\ DOMAIN Times(n, d) = 1 .. Len(Times(n, d))
    BY <1>1, LenProperties
  <1> QED BY <1>1, <1>2, <1>3

LEMMA ConcatIs ==
    ASSUME NEW S, NEW s \in Seq(S), NEW t \in Seq(S)
    PROVE  /\ s \o t \in Seq(S) /\ Len(s \o t) = Len(s) + Len(t)
           /\ \A n \in 1 .. Len(s) + Len(t) : (s \o t)[n] = IF n <= Len(s) THEN s[n] ELSE t[n - Len(s)]
  BY ConcatProperties

LEMMA AnswerOfType == ASSUME NEW h \in Hosts, NEW n \in DOMAIN Kinds[h] PROVE AnswerOf(h, n) \in Seq(Sets(h))
  <1> DEFINE d == SetDatagram(Kinds[h][n].osc, Kinds[h][n].mColor)
  <1>1. d \in Sets(h)
    BY DEF SetDatagram, Sets, Offers, Shades
  <1> HIDE DEF d
  <1>2. Times(Copies, d) \in Seq(Sets(h))
    BY <1>1, TimesType DEF Copies
  <1> QED BY <1>2 DEF AnswerOf, d

LEMMA AnswerType == ASSUME NEW h \in Hosts PROVE Answer(h) \in Seq(Sets(h))
  <1> DEFINE N == Len(Kinds[h])
             V == Seq(Sets(h))
             one == [n \in 1 .. N |-> IF sockets[h] + n <= MaxSockets
                                     THEN AnswerOf(h, n) ELSE <<>>]
             step == [p \in V \X (1 .. N) |-> p[1] \o one[p[2]]]
  <1>1. N \in Nat /\ DOMAIN Kinds[h] = 1 .. N
    BY CatalogueAssumption
  <1>2. \A n \in 1 .. N : one[n] \in V
    <2> SUFFICES ASSUME NEW n \in 1 .. N PROVE one[n] \in V
      OBVIOUS
    <2>1. AnswerOf(h, n) \in V
      BY <1>1, AnswerOfType
    <2>2. <<>> \in V
      BY EmptySeq
    <2>3. one[n] = IF sockets[h] + n <= MaxSockets THEN AnswerOf(h, n) ELSE <<>>
      OBVIOUS
    <2> QED BY <2>1, <2>2, <2>3
  <1> HIDE DEF one
  <1>3. \A v \in V, n \in 1 .. N : step[<<v, n>>] = v \o one[n]
    OBVIOUS
  <1>4. step \in Steps(V, N)
    <2>1. ASSUME NEW p \in V \X (1 .. N) PROVE step[p] \in V
      <3>1. p[1] \in Seq(Sets(h)) /\ p[2] \in 1 .. N /\ one[p[2]] \in Seq(Sets(h))
        BY <1>2
      <3>2. p[1] \o one[p[2]] \in Seq(Sets(h))
        BY <3>1, ConcatIs
      <3> QED BY <3>1, <3>2
    <2> HIDE DEF V, N
    <2> QED BY <2>1 DEF Steps
  <1>5. <<>> \in V
    BY EmptySeq
  <1> HIDE DEF step
  <1>6. PICK f : IsRun(f, V, N, <<>>, step)
    <2> HIDE DEF V, N
    <2> QED BY <1>1, <1>4, <1>5, Iterate
  <1> DEFINE answered(n) == IF sockets[h] + n <= MaxSockets THEN AnswerOf(h, n) ELSE <<>>
             Q(all) == all = [n \in 0 .. N |-> IF n = 0 THEN <<>> ELSE all[n - 1] \o answered(n)]
             ch == CHOOSE all : Q(all)
  <1>7. \A n \in 1 .. N : one[n] = answered(n)
    BY DEF one
  <1>8. Answer(h) = ch[N]
    BY DEF Answer
  <1> HIDE DEF answered
  <1>9. Q(f)
    <2>1. f = [n \in 0 .. N |-> f[n]] /\ f[0] = <<>>
      BY <1>6 DEF IsRun
    <2>2. \A n \in 0 .. N : f[n] = IF n = 0 THEN <<>> ELSE f[n - 1] \o answered(n)
      <3> SUFFICES ASSUME NEW n \in 0 .. N, n # 0 PROVE f[n] = f[n - 1] \o answered(n)
        BY <2>1
      <3>1. n \in 1 .. N /\ n - 1 \in 0 .. N
        BY <1>1
      <3>2. f[n] = step[<<f[n - 1], n>>] /\ f[n - 1] \in V
        BY <1>6, <3>1 DEF IsRun
      <3> HIDE DEF V, N
      <3> QED BY <1>3, <1>7, <3>1, <3>2
    <2> QED BY <2>1, <2>2
  <1>10. Q(ch)
    BY <1>9
  <1> HIDE DEF ch
  <1> DEFINE G == {n \in 0 .. N : ch[n] \in V}
  <1>11. 0 \in G
    BY <1>1, <1>5, <1>10
  <1>12. ASSUME NEW n \in 0 .. N - 1, n \in G PROVE n + 1 \in G
    <2>1. n + 1 \in 0 .. N /\ n + 1 # 0 /\ (n + 1) - 1 = n /\ n + 1 \in 1 .. N
      BY <1>1
    <2>2. ch[n + 1] = ch[n] \o one[n + 1]
      BY <1>10, <1>7, <2>1
    <2>3. ch[n] \in Seq(Sets(h)) /\ one[n + 1] \in Seq(Sets(h))
      BY <1>2, <1>12, <2>1
    <2>4. ch[n] \o one[n + 1] \in Seq(Sets(h))
      BY <2>3, ConcatIs
    <2> QED BY <2>1, <2>2, <2>4
  <1>13. 0 .. N \subseteq G
    <2> HIDE DEF G
    <2> QED BY <1>1, <1>11, <1>12, Induct
  <1> QED BY <1>1, <1>8, <1>13

LEMMA ManagerSendsType ==
    ASSUME NEW h \in Managers, DOMAIN toList = Hosts, ManagerSends(h)
    PROVE  \E s \in Seq(Sets(h)) : toList' = [toList EXCEPT ![h] = @ \o s]
  <1>1. PICK c \in Colours \cup {Unset} :
            toList' = [toList EXCEPT ![h] = @ \o Times(Copies, SetDatagram(Kinds[h][1].osc, c))]
    BY DEF ManagerSends
  <1>2. h \in Hosts /\ 1 \in DOMAIN Kinds[h]
    BY CatalogueAssumption DEF Hosts
  <1>3. SetDatagram(Kinds[h][1].osc, c) \in Sets(h)
    BY <1>2 DEF SetDatagram, Sets, Offers, Shades
  <1>4. Times(Copies, SetDatagram(Kinds[h][1].osc, c)) \in Seq(Sets(h))
    BY <1>3, TimesType DEF Copies
  <1> QED BY <1>1, <1>4

LEMMA SendsType ==
    ASSUME NEW h \in Hosts, DOMAIN toList = Hosts, sendModuleList(h)
    PROVE  \E s \in Seq(Sets(h)) : toList' = [toList EXCEPT ![h] = @ \o s]
  <1>1. CASE h \in Controllers
    BY <1>1, AnswerType DEF sendModuleList, ControllerSends
  <1>2. CASE h \notin Controllers
    BY <1>2, ManagerSendsType DEF sendModuleList, Hosts
  <1> QED BY <1>1, <1>2

LEMMA AnnounceType ==
    ASSUME NEW h \in Hosts, DOMAIN toList = Hosts, Announce(h)
    PROVE  UNCHANGED toList \/ \E s \in Seq(Sets(h)) : toList' = [toList EXCEPT ![h] = @ \o s]
  <1>1. CASE h \in Managers
    BY <1>1, ManagerSendsType DEF Announce
  <1>2. CASE h \notin Managers
    <2>1. PICK n \in DOMAIN Kinds[h] : n = announced[h] + 1
      BY DEF Announce
    <2>2. CASE sockets[h] < MaxSockets
      BY <1>2, <2>1, <2>2, AnswerOfType DEF Announce
    <2>3. CASE ~(sockets[h] < MaxSockets)
      BY <1>2, <2>3 DEF Announce
    <2> QED BY <2>2, <2>3
  <1> QED BY <1>1, <1>2

-----------------------------------------------------------------------------
(* The steps                                                               *)

LEMMA InitCatalogue == Init => CatalogueInv
  <1> SUFFICES ASSUME Init PROVE CatalogueInv
    OBVIOUS
  <1>1. mList = <<>> /\ toList = [h \in Hosts |-> <<>>] /\ toHost = [h \in Hosts |-> <<>>]
    BY DEF Init
  <1>2. <<>> \in Seq(Entries) /\ DOMAIN <<>> = {} /\ \A S : <<>> \in Seq(S)
    BY EmptySeq
  <1>3. CatalogueTypeOK
    BY <1>1, <1>2 DEF CatalogueTypeOK
  <1> QED BY <1>1, <1>2, <1>3 DEF CatalogueInv, ListedOnce, NumberedByPlace, OrdersAreListed

\* What one datagram does to the list.
LEMMA SetListKeeps ==
    ASSUME CatalogueInv, NEW h \in Hosts, NEW d \in Sets(h), mList' = setMList(h, d)
    PROVE  /\ mList' \in Seq(Entries) /\ ListedOnce' /\ NumberedByPlace'
           /\ \A x \in Hosts, o \in AllOffers : ListedAt(x, o) # {} => ListedAt(x, o)' # {}
  <1>1. /\ mList \in Seq(Entries) /\ ListedOnce /\ NumberedByPlace
        /\ Len(mList) \in Nat /\ DOMAIN mList = 1 .. Len(mList)
    BY LenProperties DEF CatalogueInv, CatalogueTypeOK
  <1>2. CASE UNCHANGED mList
    BY <1>1, <1>2 DEF ListedOnce, NumberedByPlace, ListedAt
  <1>3. CASE ~UNCHANGED mList
    <2> DEFINE e == [ip |-> h, osc |-> d.osc, mColor |-> d.mColor, tID |-> Len(mList) + 1]
    <2>1. ListedAt(h, d.osc) = {} /\ mList' = Append(mList, e)
      BY <1>3 DEF setMList
    <2>2. d.osc \in Offers(h) /\ d.mColor \in Shades(h)
      BY DEF Sets
    <2>3. e \in Entries /\ e.ip = h /\ e.osc = d.osc /\ e.tID = Len(mList) + 1
      BY <1>1, <2>2 DEF Entries, AllOffers
    <2> HIDE DEF e
    <2>4. /\ mList' \in Seq(Entries) /\ DOMAIN mList' = 1 .. Len(mList) + 1
          /\ mList'[Len(mList) + 1] = e /\ \A n \in 1 .. Len(mList) : mList'[n] = mList[n]
      BY <1>1, <2>1, <2>3, AppendProperties, LenProperties
    <2>5. \A n \in DOMAIN mList' :
              (n \in DOMAIN mList /\ mList'[n] = mList[n]) \/ (n = Len(mList) + 1 /\ mList'[n] = e)
      <3>1. \A n \in 1 .. Len(mList) + 1 : n \in 1 .. Len(mList) \/ n = Len(mList) + 1
        BY <1>1
      <3> QED BY <1>1, <2>4, <3>1
    <2>6. NumberedByPlace'
      BY <1>1, <2>2, <2>3, <2>5 DEF NumberedByPlace
    <2>7. ListedOnce'
      <3> SUFFICES ASSUME NEW n \in DOMAIN mList', NEW k \in DOMAIN mList',
                          mList'[n].ip = mList'[k].ip, mList'[n].osc = mList'[k].osc
                   PROVE  n = k
        BY DEF ListedOnce
      <3>1. \A i \in DOMAIN mList : ~(mList[i].ip = h /\ mList[i].osc = d.osc)
        BY <2>1 DEF ListedAt
      <3> QED BY <1>1, <2>3, <2>5, <3>1 DEF ListedOnce
    <2>8. DOMAIN mList \subseteq DOMAIN mList' /\ \A n \in DOMAIN mList : mList'[n] = mList[n]
      <3>1. 1 .. Len(mList) \subseteq 1 .. Len(mList) + 1
        BY <1>1
      <3> QED BY <1>1, <2>4, <3>1
    <2>9. \A x \in Hosts, o \in AllOffers : ListedAt(x, o) # {} => ListedAt(x, o)' # {}
      BY <2>8 DEF ListedAt
    <2> QED BY <2>4, <2>6, <2>7, <2>9
  <1> QED BY <1>2, <1>3

\* What is under way to a host, by its kind.
LEMMA UnderWay ==
    ASSUME CatalogueInv, NEW h \in Hosts
    PROVE  /\ toHost[h] \in Seq(Requests \cup Orders) /\ Len(toHost[h]) \in Nat /\ DOMAIN toHost[h] = 1 .. Len(toHost[h])
           /\ \A k \in DOMAIN toHost[h] :
                  Asked(toHost[h][k], h) /\ (toHost[h][k].kind = "request" \/ toHost[h][k].osc \in AllOffers)
  <1>1. toHost[h] \in Seq(Requests \cup Orders)
    BY DEF CatalogueInv, CatalogueTypeOK
  <1>2. \A d \in Requests \cup Orders : d.kind = "request" \/ d.osc \in AllOffers
    BY DEF Requests, Orders
  <1> QED BY <1>1, <1>2, LenProperties, ElementOfSeq DEF CatalogueInv, OrdersAreListed

\* Steps that leave what is under way to the hosts alone.
LEMMA OrdersStay ==
    ASSUME CatalogueInv, UNCHANGED toHost,
           \A x \in Hosts, o \in AllOffers : ListedAt(x, o) # {} => ListedAt(x, o)' # {}
    PROVE  OrdersAreListed' /\ (DOMAIN toHost = Hosts /\ \A h \in Hosts : toHost[h] \in Seq(Requests \cup Orders))'
  <1>1. ASSUME NEW h \in Hosts, NEW k \in DOMAIN toHost'[h] PROVE Asked(toHost[h][k], h)'
    <2>1. toHost' = toHost /\ k \in DOMAIN toHost[h]
      BY <1>1
    <2>2. Asked(toHost[h][k], h) /\ (toHost[h][k].kind = "request" \/ toHost[h][k].osc \in AllOffers)
      BY <2>1, UnderWay
    <2> QED BY <2>1, <2>2 DEF Asked
  <1> QED BY <1>1 DEF OrdersAreListed, CatalogueInv, CatalogueTypeOK

\* Steps that leave the list and the answers alone; what comes to the queue of
\* a host was there before, or is asked rightly.
LEMMA QueuesKeep ==
    ASSUME CatalogueInv, UNCHANGED mList,
           DOMAIN toList' = Hosts, \A h \in Hosts : toList'[h] \in Seq(Sets(h)),
           DOMAIN toHost' = Hosts, \A h \in Hosts : toHost'[h] \in Seq(Requests \cup Orders),
           \A h \in Hosts : \A k \in DOMAIN toHost'[h] :
               Asked(toHost'[h][k], h) \/ \E n \in DOMAIN toHost[h] : toHost'[h][k] = toHost[h][n]
    PROVE  CatalogueInv'
  <1>1. CatalogueTypeOK' /\ ListedOnce' /\ NumberedByPlace'
    BY DEF CatalogueInv, CatalogueTypeOK, ListedOnce, NumberedByPlace
  <1>2. ASSUME NEW h \in Hosts, NEW k \in DOMAIN toHost'[h] PROVE Asked(toHost[h][k], h)'
    <2>1. Asked(toHost'[h][k], h)
      BY <1>2, UnderWay
    <2> QED BY <2>1 DEF Asked, ListedAt
  <1> QED BY <1>1, <1>2 DEF CatalogueInv, OrdersAreListed

\* A queue that loses its first datagram has no new one.
LEMMA TailHasNothingNew ==
    ASSUME NEW S, NEW q \in Seq(S), q # <<>>
    PROVE  /\ Tail(q) \in Seq(S) /\ Head(q) \in S
           /\ \A k \in DOMAIN Tail(q) : \E n \in DOMAIN q : Tail(q)[k] = q[n]
  <1>1. /\ Tail(q) \in Seq(S) /\ Head(q) \in S /\ Len(q) \in Nat /\ Len(q) > 0 /\ Len(Tail(q)) = Len(q) - 1
        /\ DOMAIN q = 1 .. Len(q) /\ \A n \in 1 .. Len(q) - 1 : Tail(q)[n] = q[n + 1]
    BY HeadTailProperties, LenProperties, EmptySeq, ElementOfSeq
  <1>2. DOMAIN Tail(q) = 1 .. Len(q) - 1
    BY <1>1, LenProperties
  <1>3. \A k \in 1 .. Len(q) - 1 : k + 1 \in 1 .. Len(q)
    BY <1>1
  <1> QED BY <1>1, <1>2, <1>3

LEMMA TakenKeeps ==
    ASSUME CatalogueInv, NEW h \in Hosts, toHost[h] # <<>>, toHost' = [toHost EXCEPT ![h] = Tail(@)],
           UNCHANGED mList, DOMAIN toList' = Hosts, \A x \in Hosts : toList'[x] \in Seq(Sets(x))
    PROVE  CatalogueInv'
  <1>1. DOMAIN toHost = Hosts /\ \A x \in Hosts : toHost[x] \in Seq(Requests \cup Orders)
    BY DEF CatalogueInv, CatalogueTypeOK
  <1>2. /\ Tail(toHost[h]) \in Seq(Requests \cup Orders)
        /\ \A k \in DOMAIN Tail(toHost[h]) : \E n \in DOMAIN toHost[h] : Tail(toHost[h])[k] = toHost[h][n]
    BY <1>1, TailHasNothingNew
  <1>3. DOMAIN toHost' = Hosts /\ \A x \in Hosts : toHost'[x] = IF x = h THEN Tail(toHost[h]) ELSE toHost[x]
    BY <1>1
  <1>4. \A x \in Hosts : toHost'[x] \in Seq(Requests \cup Orders)
    BY <1>1, <1>2, <1>3
  <1>5. \A x \in Hosts : \A k \in DOMAIN toHost'[x] : \E n \in DOMAIN toHost[x] : toHost'[x][k] = toHost[x][n]
    BY <1>2, <1>3
  <1> QED BY <1>3, <1>4, <1>5, QueuesKeep

LEMMA AnswersStay ==
    ASSUME CatalogueInv, UNCHANGED toList
    PROVE  DOMAIN toList' = Hosts /\ \A h \in Hosts : toList'[h] \in Seq(Sets(h))
  BY DEF CatalogueInv, CatalogueTypeOK

LEMMA AnswersGrow ==
    ASSUME CatalogueInv, NEW h \in Hosts, NEW s \in Seq(Sets(h)), toList' = [toList EXCEPT ![h] = @ \o s]
    PROVE  DOMAIN toList' = Hosts /\ \A x \in Hosts : toList'[x] \in Seq(Sets(x))
  <1>1. DOMAIN toList = Hosts /\ \A x \in Hosts : toList[x] \in Seq(Sets(x))
    BY DEF CatalogueInv, CatalogueTypeOK
  <1>2. toList[h] \o s \in Seq(Sets(h))
    BY <1>1, ConcatIs
  <1>3. DOMAIN toList' = Hosts /\ \A x \in Hosts : toList'[x] = IF x = h THEN toList[h] \o s ELSE toList[x]
    BY <1>1
  <1> QED BY <1>1, <1>2, <1>3

LEMMA AnswersShrink ==
    ASSUME CatalogueInv, NEW h \in Hosts, toList[h] # <<>>, toList' = [toList EXCEPT ![h] = Tail(@)]
    PROVE  /\ DOMAIN toList' = Hosts /\ \A x \in Hosts : toList'[x] \in Seq(Sets(x))
           /\ Head(toList[h]) \in Sets(h)
  <1>1. DOMAIN toList = Hosts /\ \A x \in Hosts : toList[x] \in Seq(Sets(x))
    BY DEF CatalogueInv, CatalogueTypeOK
  <1>2. Tail(toList[h]) \in Seq(Sets(h)) /\ Head(toList[h]) \in Sets(h)
    BY <1>1, TailHasNothingNew
  <1>3. DOMAIN toList' = Hosts /\ \A x \in Hosts : toList'[x] = IF x = h THEN Tail(toList[h]) ELSE toList[x]
    BY <1>1
  <1> QED BY <1>1, <1>2, <1>3

LEMMA OrdersAlone ==
    ASSUME CatalogueInv, UNCHANGED <<mList, toHost>>,
           DOMAIN toList' = Hosts, \A x \in Hosts : toList'[x] \in Seq(Sets(x))
    PROVE  CatalogueInv'
  <1>1. DOMAIN toHost' = Hosts /\ \A h \in Hosts : toHost'[h] \in Seq(Requests \cup Orders)
    BY DEF CatalogueInv, CatalogueTypeOK
  <1>2. \A h \in Hosts : \A k \in DOMAIN toHost'[h] : \E n \in DOMAIN toHost[h] : toHost'[h][k] = toHost[h][n]
    OBVIOUS
  <1> QED BY <1>1, <1>2, QueuesKeep

LEMMA TakeAnswerKeeps == ASSUME CatalogueInv, NEW h \in Hosts, TakeAnswer(h) PROVE CatalogueInv'
  <1>1. /\ toList[h] # <<>> /\ toList' = [toList EXCEPT ![h] = Tail(@)] /\ UNCHANGED toHost
        /\ mList' = setMList(h, Head(toList[h]))
    BY DEF TakeAnswer
  <1>2. /\ DOMAIN toList' = Hosts /\ \A x \in Hosts : toList'[x] \in Seq(Sets(x))
        /\ Head(toList[h]) \in Sets(h)
    BY <1>1, AnswersShrink
  <1>3. /\ mList' \in Seq(Entries) /\ ListedOnce' /\ NumberedByPlace'
        /\ \A x \in Hosts, o \in AllOffers : ListedAt(x, o) # {} => ListedAt(x, o)' # {}
    <2>1. PICK d \in Sets(h) : d = Head(toList[h])
      BY <1>2
    <2>2. mList' = setMList(h, d)
      BY <1>1, <2>1
    <2> QED BY <2>2, SetListKeeps
  <1>4. OrdersAreListed' /\ (DOMAIN toHost = Hosts /\ \A x \in Hosts : toHost[x] \in Seq(Requests \cup Orders))'
    BY <1>1, <1>3, OrdersStay
  <1> QED BY <1>2, <1>3, <1>4 DEF CatalogueInv, CatalogueTypeOK

LEMMA RequestMLKeeps == ASSUME CatalogueInv, requestML PROVE CatalogueInv'
  <1> DEFINE r == [kind |-> "request"]
  <1>1. r \in Requests /\ r.kind = "request"
    BY DEF Requests
  <1>2. UNCHANGED <<mList, toList>> /\ toHost' = [h \in Hosts |-> toHost[h] \o Times(Copies, r)]
    BY DEF requestML
  <1> HIDE DEF r
  <1>3. PICK s \in Seq(Requests \cup Orders) :
            s = Times(Copies, r) /\ Len(s) = Copies /\ \A k \in 1 .. Copies : s[k] = r
    <2>1. Copies \in Nat /\ r \in Requests \cup Orders
      BY <1>1 DEF Copies
    <2>2. /\ Times(Copies, r) \in Seq(Requests \cup Orders) /\ Len(Times(Copies, r)) = Copies
          /\ \A c \in 1 .. Copies : Times(Copies, r)[c] = r
      BY <2>1, TimesType
    <2> QED BY <2>2
  <1>4. ASSUME NEW h \in Hosts
        PROVE  /\ toHost'[h] \in Seq(Requests \cup Orders)
               /\ \A k \in DOMAIN toHost'[h] :
                      Asked(toHost'[h][k], h) \/ \E n \in DOMAIN toHost[h] : toHost'[h][k] = toHost[h][n]
    <2>1. PICK q : q = toHost[h] \o s /\ toHost'[h] = q
      BY <1>2, <1>3
    <2>2. toHost[h] \in Seq(Requests \cup Orders) /\ Len(toHost[h]) \in Nat /\ DOMAIN toHost[h] = 1 .. Len(toHost[h])
      BY UnderWay
    <2>3. /\ q \in Seq(Requests \cup Orders) /\ Len(q) = Len(toHost[h]) + Len(s)
          /\ \A n \in 1 .. Len(toHost[h]) + Len(s) :
                 q[n] = IF n <= Len(toHost[h]) THEN toHost[h][n] ELSE s[n - Len(toHost[h])]
      BY <2>1, <2>2, ConcatIs
    <2>4. DOMAIN q = 1 .. Len(toHost[h]) + Copies
      BY <1>3, <2>3, LenProperties
    <2>5. \A n \in 1 .. Len(toHost[h]) + Copies :
              n \in 1 .. Len(toHost[h]) \/ (~(n <= Len(toHost[h])) /\ n - Len(toHost[h]) \in 1 .. Copies)
      BY <2>2 DEF Copies
    <2>6. ASSUME NEW k \in DOMAIN q PROVE q[k] = r \/ (k \in DOMAIN toHost[h] /\ q[k] = toHost[h][k])
      BY <1>3, <2>2, <2>3, <2>4, <2>5
    <2> QED BY <1>1, <2>1, <2>3, <2>6 DEF Asked
  <1>5. DOMAIN toHost' = Hosts
    BY <1>2
  <1>6. DOMAIN toList' = Hosts /\ \A h \in Hosts : toList'[h] \in Seq(Sets(h))
    BY <1>2, AnswersStay
  <1> QED BY <1>2, <1>4, <1>5, <1>6, QueuesKeep

LEMMA OrderKeeps ==
    ASSUME CatalogueInv, NEW what \in Commands, NEW t \in TileIDs, NEW mc, Order(what, t, mc)
    PROVE  CatalogueInv'
  <1>1. PICK n \in DOMAIN mList : mList[n].tID = mc
    BY DEF Order
  <1>2. /\ mList \in Seq(Entries) /\ DOMAIN mList = 1 .. Len(mList) /\ Len(mList) \in Nat
        /\ \A k \in DOMAIN mList : mList[k] \in Entries /\ mList[k].tID = k
    BY LenProperties, ElementOfSeq DEF CatalogueInv, CatalogueTypeOK, NumberedByPlace
  <1>3. mc = n /\ \A k \in 1 .. n - 1 : mList[k].tID # mc
    <2>1. mc = n /\ \A k \in 1 .. n - 1 : k \in DOMAIN mList /\ k # n
      BY <1>1, <1>2
    <2> QED BY <1>2, <2>1
  <1>4. First(mc) \in DOMAIN mList
    BY <1>1, <1>3 DEF First
  <1> DEFINE e == mList[First(mc)]
             d == [kind |-> what, osc |-> e.osc, tile |-> Digits(t)]
  <1>5. e \in Entries /\ First(mc) \in ListedAt(e.ip, e.osc)
    BY <1>2, <1>4 DEF ListedAt
  <1>6. UNCHANGED <<mList, toList>> /\ toHost' = [toHost EXCEPT ![e.ip] = Append(@, d)]
    BY DEF Order
  <1> HIDE DEF e
  <1>7. e.ip \in Hosts /\ e.osc \in AllOffers
    BY <1>5 DEF Entries
  <1>8. d \in Orders /\ d.osc = e.osc
    BY <1>7 DEF Orders
  <1> HIDE DEF d
  <1>9. /\ DOMAIN toHost = Hosts /\ DOMAIN toHost' = Hosts
        /\ \A x \in Hosts : toHost'[x] = IF x = e.ip THEN Append(toHost[x], d) ELSE toHost[x]
    BY <1>6 DEF CatalogueInv, CatalogueTypeOK
  <1>10. ASSUME NEW x \in Hosts
         PROVE  /\ toHost'[x] \in Seq(Requests \cup Orders)
                /\ \A k \in DOMAIN toHost'[x] :
                       Asked(toHost'[x][k], x) \/ \E i \in DOMAIN toHost[x] : toHost'[x][k] = toHost[x][i]
    <2>1. CASE x # e.ip
      BY <1>9, <2>1, UnderWay
    <2>2. CASE x = e.ip
      <3>1. toHost[x] \in Seq(Requests \cup Orders) /\ d \in Requests \cup Orders
            /\ Len(toHost[x]) \in Nat /\ DOMAIN toHost[x] = 1 .. Len(toHost[x])
        BY <1>8, UnderWay
      <3>2. toHost'[x] = Append(toHost[x], d)
        BY <1>9, <2>2
      <3>3. /\ toHost'[x] \in Seq(Requests \cup Orders) /\ DOMAIN toHost'[x] = 1 .. Len(toHost[x]) + 1
            /\ toHost'[x][Len(toHost[x]) + 1] = d /\ \A i \in 1 .. Len(toHost[x]) : toHost'[x][i] = toHost[x][i]
        BY <3>1, <3>2, AppendProperties, LenProperties
      <3>4. \A k \in 1 .. Len(toHost[x]) + 1 : k \in 1 .. Len(toHost[x]) \/ k = Len(toHost[x]) + 1
        BY <3>1
      <3>5. Asked(d, x)
        BY <1>5, <1>8, <2>2 DEF Asked
      <3> QED BY <3>1, <3>3, <3>4, <3>5
    <2> QED BY <2>1, <2>2
  <1>11. DOMAIN toList' = Hosts /\ \A x \in Hosts : toList'[x] \in Seq(Sets(x))
    BY <1>6, AnswersStay
  <1> QED BY <1>6, <1>9, <1>10, <1>11, QueuesKeep

LEMMA StepsKeep == CatalogueInv /\ [Next]_vars => CatalogueInv'
  <1> SUFFICES ASSUME CatalogueInv, [Next]_vars PROVE CatalogueInv'
    OBVIOUS
  <1>0. DOMAIN toList = Hosts /\ \A h \in Hosts : toList[h] \in Seq(Sets(h))
    BY DEF CatalogueInv, CatalogueTypeOK
  <1>1. CASE requestML
    BY <1>1, RequestMLKeeps
  <1>2. ASSUME NEW t \in TileIDs, NEW what \in Commands, NEW mc, Order(what, t, mc) PROVE CatalogueInv'
    BY <1>2, OrderKeeps
  <1>3. ASSUME NEW h \in Hosts, Announce(h) PROVE CatalogueInv'
    <2>1. UNCHANGED toList \/ \E s \in Seq(Sets(h)) : toList' = [toList EXCEPT ![h] = @ \o s]
      BY <1>0, <1>3, AnnounceType
    <2>2. UNCHANGED <<mList, toHost>>
      BY <1>3 DEF Announce
    <2> QED BY <2>1, <2>2, AnswersGrow, AnswersStay, OrdersAlone
  <1>4. ASSUME NEW h \in Hosts, TakeAnswer(h) PROVE CatalogueInv'
    BY <1>4, TakeAnswerKeeps
  <1>5. ASSUME NEW h \in Hosts, TakeRequest(h) PROVE CatalogueInv'
    <2>1. PICK s \in Seq(Sets(h)) : toList' = [toList EXCEPT ![h] = @ \o s]
      BY <1>0, <1>5, SendsType DEF TakeRequest
    <2>2. UNCHANGED mList /\ toHost[h] # <<>> /\ toHost' = [toHost EXCEPT ![h] = Tail(@)]
      BY <1>5 DEF TakeRequest
    <2> QED BY <2>1, <2>2, AnswersGrow, TakenKeeps
  <1>6. ASSUME NEW h \in Hosts, TakeCommand(h) PROVE CatalogueInv'
    BY <1>6, AnswersStay, TakenKeeps DEF TakeCommand
  <1>7. ASSUME NEW h \in Hosts, LoseAnswer(h) PROVE CatalogueInv'
    BY <1>7, AnswersShrink, OrdersAlone DEF LoseAnswer, LoseAny
  <1>8. ASSUME NEW h \in Hosts, LoseCommand(h) PROVE CatalogueInv'
    BY <1>8, AnswersStay, TakenKeeps DEF LoseCommand, LoseAny
  <1>9. CASE UNCHANGED vars
    BY <1>9, AnswersStay, OrdersAlone DEF vars, network
  <1> QED BY <1>1, <1>2, <1>3, <1>4, <1>5, <1>6, <1>7, <1>8, <1>9
          DEF Next, UserStep, MainStep, ServerStep, NetworkStep

(* A kind of a host is in the list once, under the number of its place,    *)
(* however many copies of its answers and announcements come and however   *)
(* many are lost (ModuleList::setMList); and whatever is ordered by number *)
(* (ModuleList::createModule, deleteModule) goes to a host listed with it. *)
THEOREM ListIsOfOffers == Spec => []ListNamesOffers
  <1>1. CatalogueInv => ListNamesOffers
    <2> SUFFICES ASSUME CatalogueInv PROVE ListNamesOffers
      OBVIOUS
    <2>1. ASSUME NEW h \in Hosts, NEW osc \in Ordered(h) PROVE ListedAt(h, osc) # {}
      <3>1. PICK k \in DOMAIN toHost[h] : toHost[h][k].kind # "request" /\ toHost[h][k].osc = osc
        BY <2>1 DEF Ordered
      <3> QED BY <3>1, UnderWay DEF Asked
    <2> QED BY <2>1 DEF CatalogueInv, ListNamesOffers, ListedOnce, NumberedByPlace
  <1> QED BY InitCatalogue, StepsKeep, <1>1, PTL DEF Spec
=============================================================================
