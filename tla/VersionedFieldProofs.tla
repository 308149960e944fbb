------------------------ MODULE VersionedFieldProofs ------------------------
(***************************************************************************)
(* Proofs about VersionedField for any set of clients and any bounds: the  *)
(* inductive invariant and the properties that follow from it.             *)
(***************************************************************************)
EXTENDS VersionedField, SequenceTheorems, TLAPS

\* The initial state satisfies the inductive invariant.
LEMMA InitIInv == Init => IInv
<1> SUFFICES ASSUME Init PROVE IInv
  OBVIOUS
<1>1. TypeOK
  BY VersionedFieldAssumption DEF Init, TypeOK, Writer, Points, Pair, Nothing
<1>2. PairsStored /\ WinsStored /\ WinsUnique /\ ToldOnce /\ NewestComes /\ CallsKnow
  BY DEF Init, PairsStored, Stored, WinsStored, WinsUnique, ToldOnce, NewestComes, CallsKnow,
         Nothing
<1> QED BY <1>1, <1>2 DEF IInv

\* Storing a value under the next version adds it at the end of the history.
LEMMA StoresAppends ==
  ASSUME TypeOK, NEW value \in Nat, Stores(row.version + 1, value)
  PROVE  /\ row'.version = row.version + 1
         /\ row'.value = value
         /\ row' = [live |-> row.live, version |-> row.version + 1, value |-> value]
         /\ row' \in [live : BOOLEAN, version : Nat, value : Nat]
         /\ past' \in [0..row'.version -> Nat]
         /\ past'[row'.version] = value
         /\ past' = [v \in 0..row.version + 1 |-> IF v \in 0..row.version THEN past[v] ELSE value]
         /\ \A v \in 0..row.version : past'[v] = past[v]
<1>1. row.version \in Nat
  BY DEF TypeOK
<1>2. row' = [live |-> row.live, version |-> row.version + 1, value |-> value]
  BY DEF Stores
<1>3. /\ row'.version = row.version + 1 /\ row'.value = value
      /\ row' \in [live : BOOLEAN, version : Nat, value : Nat]
  BY <1>1, <1>2 DEF TypeOK
<1>4. DOMAIN past = 0..row.version /\ \A v \in 0..row.version : past[v] \in Nat
  BY DEF TypeOK
<1>5. past' = [v \in 0..(row.version + 1) |-> IF v = row.version + 1 THEN value ELSE past[v]]
  <2>1. 0..row.version \cup {row.version + 1} = 0..(row.version + 1)
    BY <1>1
  <2> QED BY <1>4, <2>1 DEF Stores
<1>6. past' = [v \in 0..row.version + 1 |-> IF v \in 0..row.version THEN past[v] ELSE value]
  BY <1>1, <1>5
<1> QED BY <1>1, <1>2, <1>3, <1>4, <1>5, <1>6

\* A handler's write that matches stores the next version.
LEMMA WrittenAppends ==
  ASSUME TypeOK, NEW c \in Clients, UpdateMatches(c), Written(c)
  PROVE  /\ NewVersion(c) = row.version + 1
         /\ Stores(row.version + 1, writer[c].value)
         /\ row'.version = row.version + 1
         /\ row'.value = writer[c].value
         /\ row' \in [live : BOOLEAN, version : Nat, value : Nat]
         /\ past' \in [0..row'.version -> Nat]
         /\ past'[row'.version] = writer[c].value
         /\ \A v \in 0..row.version : past'[v] = past[v]
<1>1. NewVersion(c) = row.version + 1 /\ writer[c].value \in Nat
  BY DEF TypeOK, Writer, UpdateMatches, NewVersion
<1>2. Stores(row.version + 1, writer[c].value)
  BY <1>1 DEF Written
<1> QED BY <1>1, <1>2, StoresAppends

\* So does a dismissal.
LEMMA DismissalAppends ==
  ASSUME TypeOK, DismissFeedItem
  PROVE  /\ Stores(row.version + 1, writes + 1)
         /\ row'.version = row.version + 1
         /\ row' = [live |-> row.live, version |-> row.version + 1, value |-> writes + 1]
         /\ row' \in [live : BOOLEAN, version : Nat, value : Nat]
         /\ past' \in [0..row'.version -> Nat]
         /\ past'[row'.version] = row'.value
         /\ past' = [v \in 0..row.version + 1 |->
                       IF v \in 0..row.version THEN past[v] ELSE writes + 1]
         /\ \A v \in 0..row.version : past'[v] = past[v]
<1>1. writes + 1 \in Nat
  BY VersionedFieldAssumption DEF TypeOK
<1> QED BY <1>1, StoresAppends DEF DismissFeedItem

\* What was stored stays stored when the history only grows.
LEMMA StoredStays ==
  ASSUME row.version \in Nat, row'.version \in Nat, row'.version >= row.version,
         \A v \in 0..row.version : past'[v] = past[v]
  PROVE  \A pair : Stored(pair) => Stored(pair)'
  BY DEF Stored

\* Each action keeps the types.
LEMMA NextTypeOK == ASSUME TypeOK, [Next]_vars PROVE TypeOK'
<1>0. Nothing \in Pair /\ Current \in Pair /\ \A c \in Clients : writer[c].pair \in Pair
  BY DEF Nothing, Current, Pair, Writer, TypeOK
<1>a. \A c \in Clients, pc \in Points, pair \in Pair :
        Reply(c, pc, pair) => writer' \in [Clients -> Writer]
  <2> SUFFICES ASSUME NEW c \in Clients, NEW pc \in Points, NEW pair \in Pair,
                      Reply(c, pc, pair)
               PROVE  writer' \in [Clients -> Writer]
    OBVIOUS
  <2>1. [pc |-> pc, expected |-> writer[c].expected, value |-> writer[c].value,
         pair |-> pair] \in Writer
    BY DEF Writer, TypeOK
  <2> QED BY <2>1 DEF Reply, TypeOK
<1>1. ASSUME NEW c \in Clients, Request(c) PROVE TypeOK'
  <2>1. [pc |-> "read", expected |-> known[c].version, value |-> writes + 1,
         pair |-> Nothing] \in Writer
    BY <1>0 DEF TypeOK, Writer, Points, Pair
  <2>2. writer' \in [Clients -> Writer]
    BY <1>1, <2>1 DEF Request, TypeOK
  <2> QED BY <1>1, <2>2, VersionedFieldAssumption DEF Request, TypeOK
<1>2. ASSUME NEW c \in Clients, ReadRow(c) PROVE TypeOK'
  <2>1. writer' \in [Clients -> Writer]
    BY <1>0, <1>a, <1>2 DEF ReadRow, Points
  <2> QED BY <1>2, <2>1 DEF ReadRow, TypeOK
<1>3. ASSUME NEW c \in Clients, UpdateRow(c) PROVE TypeOK'
  <2>1. CASE UpdateMatches(c)
    <3>1. Written(c)
      BY <1>3, <2>1 DEF UpdateRow
    <3>2. /\ row' \in [live : BOOLEAN, version : Nat, value : Nat]
          /\ past' \in [0..row'.version -> Nat]
          /\ NewVersion(c) \in Nat
      BY <2>1, <3>1, WrittenAppends DEF TypeOK
    <3>3. [version |-> NewVersion(c), value |-> writer[c].value] \in Pair
      BY <3>2 DEF TypeOK, Writer, Pair
    <3>4. writer' \in [Clients -> Writer]
      BY <1>3, <2>1, <3>3, <1>a DEF UpdateRow, Points
    <3>5. wins' \subseteq [by : Clients, version : Nat, value : Nat]
      BY <1>3, <2>1, <3>3 DEF UpdateRow, TypeOK, Pair
    <3> QED BY <1>3, <3>2, <3>4, <3>5 DEF UpdateRow, TypeOK
  <2>2. CASE ~UpdateMatches(c)
    <3>1. writer' \in [Clients -> Writer]
      BY <1>0, <1>a, <1>3, <2>2 DEF UpdateRow, Points
    <3> QED BY <1>3, <2>2, <3>1 DEF UpdateRow, TypeOK
  <2> QED BY <2>1, <2>2
<1>4. ASSUME NEW c \in Clients, Refetch(c) PROVE TypeOK'
  <2>1. writer' \in [Clients -> Writer]
    BY <1>0, <1>a, <1>4 DEF Refetch, ReplyWithCurrent, Points
  <2> QED BY <1>4, <2>1 DEF Refetch, TypeOK
<1>5. ASSUME NEW c \in Clients, Announce(c) PROVE TypeOK'
  <2>1. writer' \in [Clients -> Writer]
    BY <1>0, <1>a, <1>5 DEF Announce, Points
  <2>2. updates' \in [Clients -> Seq(Pair)]
    BY <1>0, <1>5 DEF Announce, AnnouncedPair, TypeOK
  <2>3. told' \in Seq(Nat)
    BY <1>0, <1>5 DEF Announce, TypeOK, Pair
  <2> QED BY <1>5, <2>1, <2>2, <2>3 DEF Announce, TypeOK
<1>6. ASSUME NEW c \in Clients, HandlerFails(c) PROVE TypeOK'
  <2>1. writer' \in [Clients -> Writer]
    BY <1>0, <1>a, <1>6 DEF HandlerFails, Points
  <2>0. /\ failures' \in 0..MaxFailures
        /\ UNCHANGED <<policy, interested, updates, known, silent, wins, told, writes>>
    BY <1>6, VersionedFieldAssumption DEF HandlerFails, TypeOK
  <2>2. CASE UpdateMatches(c) /\ Written(c)
    <3>1. /\ row' \in [live : BOOLEAN, version : Nat, value : Nat]
          /\ past' \in [0..row'.version -> Nat]
      BY <2>2, WrittenAppends
    <3> QED BY <2>0, <2>1, <3>1 DEF TypeOK
  <2>3. CASE UNCHANGED <<row, past>>
    BY <2>0, <2>1, <2>3 DEF TypeOK
  <2> QED BY <1>6, <2>2, <2>3 DEF HandlerFails
<1>7. ASSUME DeleteRow PROVE TypeOK'
  BY <1>7 DEF DeleteRow, TypeOK
<1>b. ASSUME DismissFeedItem PROVE TypeOK'
  <2>1. row.version + 1 \in Nat /\ writes' \in 0..MaxWrites
    BY <1>b, VersionedFieldAssumption DEF DismissFeedItem, TypeOK
  <2> QED BY <1>b, <2>1, DismissalAppends DEF DismissFeedItem, TypeOK
<1>8. ASSUME NEW c \in Clients, TakeReply(c) PROVE TypeOK'
  <2>1. Newer(c, writer[c].pair) \in Pair
    BY <1>0 DEF Newer, TypeOK
  <2>2. writer' \in [Clients -> Writer]
    BY <1>0, <1>a, <1>8 DEF TakeReply, Points
  <2> QED BY <1>8, <2>1, <2>2 DEF TakeReply, TypeOK
<1>9. ASSUME NEW c \in Clients, TakeUpdate(c) PROVE TypeOK'
  <2>1. updates[c] \in Seq(Pair) /\ updates[c] # <<>>
    BY <1>9 DEF TakeUpdate, TypeOK
  <2>2. Head(updates[c]) \in Pair /\ Tail(updates[c]) \in Seq(Pair)
    BY <2>1, HeadTailProperties
  <2>3. Newer(c, Head(updates[c])) \in Pair
    BY <2>2 DEF Newer, TypeOK
  <2>4. known' \in [Clients -> Pair] /\ updates' \in [Clients -> Seq(Pair)]
    BY <1>9, <2>2, <2>3 DEF TakeUpdate, TypeOK
  <2> QED BY <1>9, <2>4 DEF TakeUpdate, TypeOK
<1>10. CASE UNCHANGED vars
  BY <1>10 DEF vars, TypeOK
<1> QED BY <1>1, <1>2, <1>3, <1>4, <1>5, <1>6, <1>7, <1>8, <1>9, <1>10, <1>b DEF Next, HandlerStep

\* In every step the row keeps its version or gets the next one, and the history
\* keeps what it had.
LEMMA NextGrows ==
  ASSUME TypeOK, Stored(row), [Next]_vars
  PROVE  /\ row'.version \in {row.version, row.version + 1}
         /\ \A v \in 0..row.version : past'[v] = past[v]
         /\ Stored(row)'
<1> USE DEF Stored
<1>0. row.version \in Nat
  BY DEF TypeOK
<1>1. ASSUME NEW c \in Clients, UpdateMatches(c), Written(c)
      PROVE  /\ row'.version \in {row.version, row.version + 1}
             /\ \A v \in 0..row.version : past'[v] = past[v]
             /\ Stored(row)'
  BY <1>0, <1>1, WrittenAppends
<1>2. CASE UNCHANGED <<row, past>>
  BY <1>2
<1>3. CASE DeleteRow
  BY <1>3 DEF DeleteRow
<1>d. ASSUME DismissFeedItem
      PROVE  /\ row'.version = row.version + 1
             /\ \A v \in 0..row.version : past'[v] = past[v]
             /\ Stored(row)'
  BY <1>0, <1>d, DismissalAppends
<1>4. \/ UNCHANGED <<row, past>>
      \/ DeleteRow \/ DismissFeedItem
      \/ \E c \in Clients : UpdateMatches(c) /\ Written(c)
  BY DEF Next, vars, HandlerStep, Request, ReadRow, UpdateRow, Refetch, Announce,
         HandlerFails, TakeReply, TakeUpdate
<1> QED BY <1>1, <1>2, <1>3, <1>4, <1>d

\* A pair that was stored still is after a step.
LEMMA NextStoredStays ==
  ASSUME TypeOK, Stored(row), [Next]_vars, NEW pair, Stored(pair)
  PROVE  Stored(pair)'
<1>1. row.version \in Nat
  BY DEF TypeOK
<1> QED BY <1>1, NextGrows DEF Stored

\* Whatever a step hands to a client, in a reply or in an update, was stored.
LEMMA NextPairsStored ==
  ASSUME TypeOK, PairsStored, [Next]_vars
  PROVE  PairsStored'
<1> DEFINE Kept(p) == p.version \in 0..row'.version /\ past'[p.version] = p.value
<1>1. row.version \in Nat /\ past[0] = 0 /\ Stored(row)
  BY DEF TypeOK, PairsStored
<1>2. /\ row'.version \in {row.version, row.version + 1}
      /\ \A v \in 0..row.version : past'[v] = past[v]
      /\ Kept(row')
  BY <1>1, NextGrows DEF Stored
<1>3. ASSUME NEW p, Stored(p) PROVE Kept(p)
  BY <1>1, <1>2, <1>3 DEF Stored
<1>4. Stored(Nothing) /\ Stored(Current)
  BY <1>1 DEF Stored, Nothing, Current
<1>5. SUFFICES \A d \in Clients :
                 /\ Kept(writer'[d].pair) /\ Kept(known'[d])
                 /\ \A i \in 1..Len(updates'[d]) : Kept(updates'[d][i])
  BY <1>1, <1>2, <1>5 DEF PairsStored, Stored
<1>6. \A d \in Clients : /\ Kept(writer[d].pair) /\ Kept(known[d])
                         /\ \A i \in 1..Len(updates[d]) : Kept(updates[d][i])
  BY <1>3 DEF PairsStored
<1>7. Kept(Nothing) /\ Kept(Current)
  BY <1>3, <1>4
<1> HIDE DEF Kept
<1>8. ASSUME NEW c \in Clients, NEW pc, NEW p, Reply(c, pc, p), Kept(p)
      PROVE  \A d \in Clients : Kept(writer'[d].pair)
  BY <1>6, <1>8 DEF Reply, TypeOK
<1>a. ASSUME NEW c \in Clients, Request(c)
      PROVE  \A d \in Clients : Kept(writer'[d].pair)
  BY <1>6, <1>7, <1>a DEF Request, TypeOK
<1>b. ASSUME NEW c \in Clients, ReadRow(c)
      PROVE  \A d \in Clients : Kept(writer'[d].pair)
  BY <1>7, <1>8, <1>b DEF ReadRow
<1>c. ASSUME NEW c \in Clients, UpdateRow(c)
      PROVE  \A d \in Clients : Kept(writer'[d].pair)
  <2>1. CASE UpdateMatches(c)
    <3>1. /\ row'.version = NewVersion(c) /\ past'[NewVersion(c)] = writer[c].value
          /\ NewVersion(c) \in 0..row'.version
      BY <1>1, <1>c, <2>1, WrittenAppends DEF UpdateRow
    <3>2. Kept([version |-> NewVersion(c), value |-> writer[c].value])
      BY <3>1 DEF Kept
    <3> QED BY <1>8, <1>c, <2>1, <3>2 DEF UpdateRow
  <2>2. CASE ~UpdateMatches(c)
    BY <1>6, <1>8, <1>c, <2>2 DEF UpdateRow
  <2> QED BY <2>1, <2>2
<1>d. ASSUME NEW c \in Clients, Refetch(c)
      PROVE  \A d \in Clients : Kept(writer'[d].pair)
  BY <1>7, <1>8, <1>d DEF Refetch, ReplyWithCurrent
<1>e. ASSUME NEW c \in Clients, Announce(c)
      PROVE  \A d \in Clients : /\ Kept(writer'[d].pair)
                                /\ \A i \in 1..Len(updates'[d]) : Kept(updates'[d][i])
  <2>1. \A d \in Clients : Kept(writer'[d].pair)
    BY <1>6, <1>8, <1>e DEF Announce
  <2>2. ASSUME NEW d \in Clients, NEW i \in 1..Len(updates'[d])
        PROVE  Kept(updates'[d][i])
    <3>1. updates[d] \in Seq(Pair) /\ writer[c].pair \in Pair
      BY DEF TypeOK, Writer
    <3>2. \/ updates'[d] = updates[d]
          \/ updates'[d] = Append(updates[d], writer[c].pair)
      BY <1>e DEF Announce, AnnouncedPair
    <3>3. updates'[d][i] = writer[c].pair \/ (i \in 1..Len(updates[d])
                                              /\ updates'[d][i] = updates[d][i])
      BY <2>2, <3>1, <3>2
    <3> QED BY <1>6, <3>3
  <2> QED BY <2>1, <2>2
<1>f. ASSUME NEW c \in Clients, HandlerFails(c)
      PROVE  \A d \in Clients : Kept(writer'[d].pair)
  BY <1>7, <1>8, <1>f DEF HandlerFails
<1>g. ASSUME NEW c \in Clients, TakeReply(c)
      PROVE  \A d \in Clients : Kept(writer'[d].pair) /\ Kept(known'[d])
  <2>1. Kept(Newer(c, writer[c].pair))
    BY <1>6 DEF Newer
  <2> QED BY <1>6, <1>7, <1>8, <1>g, <2>1 DEF TakeReply, TypeOK
<1>h. ASSUME NEW c \in Clients, TakeUpdate(c)
      PROVE  \A d \in Clients : /\ Kept(known'[d])
                                /\ \A i \in 1..Len(updates'[d]) : Kept(updates'[d][i])
  <2>1. updates[c] \in Seq(Pair) /\ updates[c] # <<>>
    BY <1>h DEF TakeUpdate, TypeOK
  <2>2. /\ Head(updates[c]) = updates[c][1] /\ 1 \in 1..Len(updates[c])
        /\ Len(Tail(updates[c])) = Len(updates[c]) - 1
        /\ \A i \in 1..Len(Tail(updates[c])) :
             i + 1 \in 1..Len(updates[c]) /\ Tail(updates[c])[i] = updates[c][i + 1]
    BY <2>1, HeadTailProperties
  <2>3. Kept(Newer(c, Head(updates[c])))
    BY <1>6, <2>2 DEF Newer
  <2>4. \A d \in Clients : Kept(known'[d])
    BY <1>6, <1>h, <2>3 DEF TakeUpdate, TypeOK
  <2>5. \A i \in 1..Len(Tail(updates[c])) : Kept(Tail(updates[c])[i])
    BY <1>6, <2>2
  <2>6. \A d \in Clients : updates'[d] = IF d = c THEN Tail(updates[c]) ELSE updates[d]
    BY <1>h DEF TakeUpdate, TypeOK
  <2> QED BY <1>6, <2>4, <2>5, <2>6
<1>i. /\ (\E c \in Clients : Request(c) \/ ReadRow(c) \/ UpdateRow(c) \/ Refetch(c)
                             \/ HandlerFails(c))
         => UNCHANGED <<known, updates>>
      /\ (\E c \in Clients : Announce(c)) => UNCHANGED known
      /\ (\E c \in Clients : TakeReply(c)) => UNCHANGED updates
      /\ (\E c \in Clients : TakeUpdate(c)) => UNCHANGED writer
      /\ DeleteRow \/ DismissFeedItem \/ UNCHANGED vars => UNCHANGED <<writer, known, updates>>
  BY DEF Request, ReadRow, UpdateRow, Refetch, HandlerFails, Announce, TakeReply,
         TakeUpdate, DeleteRow, DismissFeedItem, vars
<1>j. CASE \E c \in Clients : Request(c) \/ ReadRow(c) \/ UpdateRow(c) \/ Refetch(c)
                              \/ HandlerFails(c)
  <2>1. \A d \in Clients : Kept(writer'[d].pair)
    BY <1>a, <1>b, <1>c, <1>d, <1>f, <1>j
  <2> QED BY <1>6, <1>i, <1>j, <2>1
<1>k. CASE \E c \in Clients : Announce(c)
  <2>1. known' = known
    BY <1>i, <1>k
  <2> QED BY <1>6, <1>e, <1>k, <2>1
<1>l. CASE \E c \in Clients : TakeReply(c)
  <2>1. updates' = updates
    BY <1>i, <1>l
  <2> QED BY <1>6, <1>g, <1>l, <2>1
<1>m. CASE \E c \in Clients : TakeUpdate(c)
  <2>1. writer' = writer
    BY <1>i, <1>m
  <2> QED BY <1>6, <1>h, <1>m, <2>1
<1>n. CASE DeleteRow \/ DismissFeedItem \/ UNCHANGED vars
  BY <1>6, <1>i, <1>n
<1> QED BY <1>j, <1>k, <1>l, <1>m, <1>n DEF Next, HandlerStep

\* A successful write gets a version that no earlier one has.
LEMMA NextWins ==
  ASSUME TypeOK, PairsStored, WinsStored, WinsUnique, [Next]_vars
  PROVE  WinsStored' /\ WinsUnique'
<1> DEFINE Kept(p) == p.version \in 0..row'.version /\ past'[p.version] = p.value
<1>1. row.version \in Nat /\ Stored(row)
  BY DEF TypeOK, PairsStored
<1>2. /\ row'.version \in {row.version, row.version + 1}
      /\ \A v \in 0..row.version : past'[v] = past[v]
  BY <1>1, NextGrows
<1>3. \A w \in wins : Kept(w) /\ w.version \in 0..row.version
  BY <1>1, <1>2 DEF WinsStored, Stored
<1>4. CASE UNCHANGED wins
  BY <1>3, <1>4 DEF WinsStored, WinsUnique, Stored
<1>5. ASSUME NEW c \in Clients, UpdateRow(c), UpdateMatches(c)
      PROVE  WinsStored' /\ WinsUnique'
  <2> DEFINE new == [by |-> c, version |-> NewVersion(c), value |-> writer[c].value]
  <2>1. wins' = wins \cup {new} /\ Written(c)
    BY <1>5 DEF UpdateRow
  <2>2. /\ NewVersion(c) = row.version + 1 /\ row'.version = row.version + 1
        /\ past'[row'.version] = writer[c].value
    BY <1>5, <2>1, WrittenAppends
  <2>3. Kept(new) /\ new.version = row.version + 1
    BY <1>1, <2>2
  <2>4. \A w \in wins' : Kept(w)
    BY <1>3, <2>1, <2>3
  <2>5. \A w \in wins : w.version # new.version
    BY <1>1, <1>3, <2>3
  <2>6. \A w, x \in wins' : w.version = x.version => w = x
    BY <2>1, <2>5 DEF WinsUnique
  <2> QED BY <2>4, <2>6 DEF WinsStored, WinsUnique, Stored
<1>6. UNCHANGED wins \/ \E c \in Clients : UpdateRow(c) /\ UpdateMatches(c)
  BY DEF Next, vars, HandlerStep, Request, ReadRow, UpdateRow, Refetch, Announce,
         HandlerFails, DeleteRow, DismissFeedItem, TakeReply, TakeUpdate
<1> QED BY <1>4, <1>5, <1>6

\* The version a handler is about to announce is the one it made, and it is
\* announced before the handler replies: nobody announces it a second time.
LEMMA NextToldOnce ==
  ASSUME TypeOK, PairsStored, ToldOnce, [Next]_vars
  PROVE  ToldOnce'
<1> DEFINE Announces(d) == writer[d].pc = "announce"
           Version(d) == writer[d].pair.version
           AnnouncesNext(d) == writer'[d].pc = "announce"
           VersionNext(d) == writer'[d].pair.version
<1>1. row.version \in Nat /\ Stored(row) /\ told \in Seq(Nat)
  BY DEF TypeOK, PairsStored
<1>2. /\ row'.version \in {row.version, row.version + 1}
      /\ \A i \in 1..Len(told) : told[i] <= row'.version
  BY <1>1, NextGrows DEF ToldOnce
<1>3. \A d \in Clients : Version(d) \in 0..row.version
  BY DEF PairsStored, Stored
<1>5. ASSUME UNCHANGED told,
             \A d \in Clients : AnnouncesNext(d) => /\ Announces(d)
                                                    /\ VersionNext(d) = Version(d)
      PROVE  ToldOnce'
  BY <1>2, <1>5 DEF ToldOnce
<1>6. ASSUME NEW c \in Clients, UpdateRow(c), UpdateMatches(c), policy.announces
      PROVE  ToldOnce'
  <2>1. Written(c) /\ told' = told
    BY <1>6 DEF UpdateRow
  <2>2. NewVersion(c) = row.version + 1
    BY <1>6, <2>1, WrittenAppends
  <2>3. Reply(c, "announce", [version |-> row.version + 1, value |-> writer[c].value])
    BY <1>6, <2>2 DEF UpdateRow
  <2>4. AnnouncesNext(c) /\ VersionNext(c) = row.version + 1
    BY <2>3 DEF Reply, TypeOK
  <2>5. \A d \in Clients \ {c} : writer'[d] = writer[d]
    BY <2>3 DEF Reply, TypeOK
  <2>6. \A d \in Clients \ {c} : VersionNext(d) # row.version + 1
    BY <1>1, <1>3, <2>5
  <2>7. \A i \in 1..Len(told) : told[i] # row.version + 1
    BY <1>1 DEF ToldOnce
  <2> QED BY <1>2, <2>1, <2>4, <2>5, <2>6, <2>7 DEF ToldOnce
<1>7. ASSUME NEW c \in Clients, Announce(c)
      PROVE  ToldOnce'
  <2>1. /\ Announces(c) /\ told' = Append(told, Version(c)) /\ row' = row
        /\ Reply(c, "success", writer[c].pair)
    BY <1>7 DEF Announce
  <2>2. ~AnnouncesNext(c) /\ \A d \in Clients \ {c} : writer'[d] = writer[d]
    BY <2>1 DEF Reply, TypeOK
  <2>3. Version(c) \in Nat /\ Version(c) <= row.version
    BY <1>1, <1>3
  <2>4. /\ Len(told') = Len(told) + 1 /\ Len(told) \in Nat
        /\ told'[Len(told) + 1] = Version(c)
        /\ \A i \in 1..Len(told) : told'[i] = told[i]
    BY <1>1, <2>1, <2>3
  <2>5. \A i \in 1..Len(told') : i \in 1..Len(told) \/ i = Len(told) + 1
    BY <2>4
  <2>6. \A i \in 1..Len(told') : told'[i] <= row'.version
    BY <1>2, <2>1, <2>3, <2>4, <2>5
  <2>7. \A i \in 1..Len(told) : told[i] # Version(c)
    BY <2>1 DEF ToldOnce
  <2>8. \A i, j \in 1..Len(told') : told'[i] = told'[j] => i = j
    BY <2>4, <2>5, <2>7 DEF ToldOnce
  <2>9. ASSUME NEW d \in Clients, AnnouncesNext(d)
        PROVE  /\ d # c /\ Announces(d) /\ VersionNext(d) = Version(d)
               /\ Version(d) # Version(c)
    BY <2>1, <2>2, <2>9 DEF ToldOnce
  <2>10. ASSUME NEW d \in Clients, AnnouncesNext(d)
         PROVE  \A i \in 1..Len(told') : told'[i] # VersionNext(d)
    BY <2>4, <2>5, <2>9, <2>10 DEF ToldOnce
  <2>11. \A d, e \in Clients : AnnouncesNext(d) /\ AnnouncesNext(e)
                               /\ VersionNext(e) = VersionNext(d) => d = e
    BY <2>9 DEF ToldOnce
  <2> QED BY <2>6, <2>8, <2>10, <2>11 DEF ToldOnce
<1>8. ASSUME NEW c \in Clients, NEW pc, NEW p, Reply(c, pc, p), pc # "announce"
      PROVE  \A d \in Clients : AnnouncesNext(d) => Announces(d) /\ VersionNext(d) = Version(d)
  BY <1>8 DEF Reply, TypeOK
<1>9. ASSUME NEW c \in Clients,
             \/ Request(c) \/ ReadRow(c) \/ Refetch(c) \/ HandlerFails(c) \/ TakeReply(c)
             \/ TakeUpdate(c)
             \/ UpdateRow(c) /\ ~(UpdateMatches(c) /\ policy.announces)
      PROVE  ToldOnce'
  <2>1. told' = told
    BY <1>9 DEF Request, ReadRow, Refetch, HandlerFails, TakeReply, TakeUpdate, UpdateRow
  <2>2. CASE Request(c)
    BY <1>5, <2>1, <2>2 DEF Request, TypeOK
  <2>3. CASE ReadRow(c)
    BY <1>5, <1>8, <2>1, <2>3 DEF ReadRow
  <2>4. CASE Refetch(c)
    BY <1>5, <1>8, <2>1, <2>4 DEF Refetch, ReplyWithCurrent
  <2>5. CASE HandlerFails(c)
    BY <1>5, <1>8, <2>1, <2>5 DEF HandlerFails
  <2>6. CASE TakeReply(c)
    BY <1>5, <1>8, <2>1, <2>6 DEF TakeReply
  <2>7. CASE TakeUpdate(c)
    BY <1>5, <2>1, <2>7 DEF TakeUpdate
  <2>8. CASE UpdateRow(c) /\ ~(UpdateMatches(c) /\ policy.announces)
    BY <1>5, <1>8, <2>1, <2>8 DEF UpdateRow
  <2> QED BY <1>9, <2>2, <2>3, <2>4, <2>5, <2>6, <2>7, <2>8
<1>10. CASE DeleteRow \/ DismissFeedItem \/ UNCHANGED vars
  BY <1>5, <1>10 DEF DeleteRow, DismissFeedItem, vars
<1> QED BY <1>6, <1>7, <1>9, <1>10 DEF Next, HandlerStep

\* A handler that changes the row announces the new version, unless a call fails; a client
\* forgets a version only for a newer one.
LEMMA NextNewestComes ==
  ASSUME TypeOK, PairsStored, NewestComes, [Next]_vars
  PROVE  NewestComes'
<1> DEFINE Has(c, v) == v <= known[c].version
           Sent(c, v) == \E i \in 1..Len(updates[c]) : v <= updates[c][i].version
           Coming(d, v) == writer[d].pc = "announce" /\ v <= writer[d].pair.version
           Grown == \A c \in interested : \A v \in 1..row.version : Comes(c, v) => Comes(c, v)'
<1>1. /\ row.version \in Nat /\ failures \in Nat /\ interested \subseteq Clients
      /\ \A c \in Clients : /\ known[c] \in Pair /\ known[c].version \in Nat
                            /\ writer[c].pair \in Pair /\ writer[c].pair.version \in Nat
                            /\ updates[c] \in Seq(Pair)
                            /\ \A i \in 1..Len(updates[c]) : updates[c][i].version \in Nat
  BY VersionedFieldAssumption DEF TypeOK, PairsStored, Stored, Writer, Pair
<1>2. SUFFICES ASSUME failures' = 0, policy'.announces
               PROVE  \A c \in interested' : \A v \in 1..row'.version :
                         v \in silent' \/ Comes(c, v)'
  BY DEF NewestComes
<1>3. ~(\E c \in Clients : HandlerFails(c))
  BY <1>1, <1>2 DEF HandlerFails
<1>4. policy' = policy /\ interested' = interested /\ failures' = failures
      /\ silent \subseteq silent'
  BY <1>3 DEF Next, vars, HandlerStep, Request, ReadRow, UpdateRow, Refetch, Announce,
              DeleteRow, DismissFeedItem, TakeReply, TakeUpdate
<1>5. \A c \in interested : \A v \in 1..row.version : v \in silent \/ Comes(c, v)
  BY <1>2, <1>4 DEF NewestComes
<1>6. SUFFICES /\ Grown
               /\ \A v \in 1..row'.version :
                     \/ v \in 1..row.version
                     \/ v \in silent'
                     \/ \A c \in Clients : Comes(c, v)'
  BY <1>1, <1>4, <1>5, <1>6
<1>7. ASSUME NEW c \in Clients, NEW pc, NEW p, Reply(c, pc, p), writer[c].pc # "announce"
      PROVE  \A d \in Clients : writer[d].pc = "announce" => writer'[d] = writer[d]
  BY <1>7 DEF Reply, TypeOK
<1>8. ASSUME UNCHANGED <<known, updates>>,
             \A d \in Clients : writer[d].pc = "announce" => writer'[d] = writer[d]
      PROVE  Grown
  BY <1>1, <1>8 DEF Comes
<1>9. ASSUME NEW c \in Clients,
             Request(c) \/ ReadRow(c) \/ Refetch(c) \/ (UpdateRow(c) /\ ~UpdateMatches(c))
      PROVE  Grown /\ UNCHANGED row
  <2>1. UNCHANGED <<row, known, updates>> /\ writer[c].pc # "announce"
    BY <1>9 DEF Request, ReadRow, Refetch, UpdateRow
  <2>2. CASE Request(c)
    <3>1. \A d \in Clients : writer[d].pc = "announce" => writer'[d] = writer[d]
      BY <2>1, <2>2 DEF Request, TypeOK
    <3> QED BY <1>8, <2>1, <3>1
  <2>3. CASE ReadRow(c) \/ Refetch(c) \/ (UpdateRow(c) /\ ~UpdateMatches(c))
    <3>1. \E pc, p : Reply(c, pc, p)
      BY <2>3 DEF ReadRow, Refetch, ReplyWithCurrent, UpdateRow
    <3> QED BY <1>7, <1>8, <2>1, <3>1
  <2> QED BY <1>9, <2>2, <2>3
<1>10. ASSUME NEW c \in Clients, UpdateRow(c), UpdateMatches(c)
       PROVE  Grown /\ \A v \in 1..row'.version : \A b \in Clients : Comes(b, v)'
  <2>1. Written(c) /\ UNCHANGED <<known, updates>> /\ writer[c].pc # "announce"
    BY <1>10 DEF UpdateRow
  <2>2. row'.version = NewVersion(c) /\ row'.version \in Nat
    BY <1>1, <1>10, <2>1, WrittenAppends
  <2>3. Reply(c, "announce", [version |-> NewVersion(c), value |-> writer[c].value])
    BY <1>2, <1>4, <1>10 DEF UpdateRow
  <2>4. Grown
    BY <1>7, <1>8, <2>1, <2>3
  <2>5. writer'[c].pc = "announce" /\ writer'[c].pair.version = row'.version
    BY <2>2, <2>3 DEF Reply, TypeOK
  <2> QED BY <2>2, <2>4, <2>5 DEF Comes
<1>11. ASSUME NEW c \in Clients, Announce(c)
       PROVE  Grown /\ UNCHANGED row
  <2>1. /\ writer[c].pc = "announce" /\ UNCHANGED <<row, known>>
        /\ Reply(c, "success", writer[c].pair)
        /\ \A b \in interested : updates'[b] = Append(updates[b], writer[c].pair)
    BY <1>1, <1>11 DEF Announce, Listeners, AnnouncedPair
  <2>2. \A d \in Clients \ {c} : writer'[d] = writer[d]
    BY <2>1 DEF Reply, TypeOK
  <2>3. ASSUME NEW b \in interested
        PROVE  /\ Len(updates'[b]) = Len(updates[b]) + 1 /\ Len(updates[b]) \in Nat
               /\ updates'[b][Len(updates[b]) + 1] = writer[c].pair
               /\ \A i \in 1..Len(updates[b]) : updates'[b][i] = updates[b][i]
    <3>1. updates[b] \in Seq(Pair) /\ updates'[b] = Append(updates[b], writer[c].pair)
          /\ writer[c].pair \in Pair
      BY <1>1, <2>1
    <3> QED BY <3>1
  <2> SUFFICES ASSUME NEW b \in interested, NEW v \in 1..row.version, Comes(b, v)
               PROVE  Comes(b, v)'
    BY <2>1
  <2>4. CASE Has(b, v)
    BY <2>1, <2>4 DEF Comes
  <2>5. CASE Sent(b, v)
    <3>1. Sent(b, v)'
      BY <2>3, <2>5
    <3> QED BY <3>1 DEF Comes
  <2>6. ASSUME NEW d \in Clients, Coming(d, v) PROVE Comes(b, v)'
    <3>1. CASE d = c
      <4>1. Len(updates[b]) + 1 \in 1..Len(updates'[b])
        BY <2>3
      <4>2. Sent(b, v)'
        BY <2>3, <2>6, <3>1, <4>1
      <4> QED BY <4>2 DEF Comes
    <3>2. CASE d # c
      BY <2>2, <2>6, <3>2 DEF Comes
    <3> QED BY <3>1, <3>2
  <2> QED BY <2>4, <2>5, <2>6 DEF Comes
<1>12. ASSUME NEW c \in Clients, NEW p \in Pair, known' = [known EXCEPT ![c] = Newer(c, p)]
       PROVE  /\ \A b \in Clients : known[b].version <= known'[b].version
              /\ p.version <= known'[c].version
              /\ \A b \in Clients : known'[b].version \in Nat
  <2>1. /\ known[c].version <= Newer(c, p).version /\ p.version <= Newer(c, p).version
        /\ Newer(c, p).version \in Nat
    BY <1>1 DEF Newer, Pair
  <2> QED BY <1>1, <1>12, <2>1 DEF TypeOK
<1>13. ASSUME NEW c \in Clients, TakeReply(c) PROVE Grown /\ UNCHANGED row
  <2>1. /\ UNCHANGED <<row, updates>> /\ writer[c].pc # "announce"
        /\ known' = [known EXCEPT ![c] = Newer(c, writer[c].pair)]
        /\ Reply(c, "idle", Nothing)
    BY <1>13 DEF TakeReply
  <2>2. \A d \in Clients : writer[d].pc = "announce" => writer'[d] = writer[d]
    BY <1>7, <2>1
  <2>3. \A b \in Clients : /\ known[b].version <= known'[b].version
                            /\ known'[b].version \in Nat
    BY <1>1, <1>12, <2>1
  <2>4. \A b \in Clients, v \in 1..row.version : Has(b, v) => Has(b, v)'
    BY <1>1, <2>3
  <2> QED BY <1>1, <2>1, <2>2, <2>4 DEF Comes
<1>14. ASSUME NEW c \in Clients, TakeUpdate(c) PROVE Grown /\ UNCHANGED row
  <2>1. updates[c] \in Seq(Pair) /\ updates[c] # <<>>
    BY <1>1, <1>14 DEF TakeUpdate
  <2>2. /\ Head(updates[c]) = updates[c][1] /\ 1 \in 1..Len(updates[c])
        /\ updates[c][1] \in Pair
        /\ Len(Tail(updates[c])) = Len(updates[c]) - 1 /\ Len(updates[c]) \in Nat
        /\ \A i \in 1..Len(Tail(updates[c])) : Tail(updates[c])[i] = updates[c][i + 1]
    BY <2>1, HeadTailProperties
  <2>3. /\ UNCHANGED <<row, writer>>
        /\ known' = [known EXCEPT ![c] = Newer(c, updates[c][1])]
        /\ \A b \in Clients : updates'[b] = IF b = c THEN Tail(updates[c]) ELSE updates[b]
    BY <1>14, <2>2 DEF TakeUpdate, TypeOK
  <2>4. /\ updates[c][1].version <= known'[c].version
        /\ \A b \in Clients : /\ known[b].version <= known'[b].version
                                /\ known'[b].version \in Nat
    BY <1>12, <2>2, <2>3
  <2> SUFFICES ASSUME NEW b \in Clients, NEW v \in 1..row.version, Comes(b, v)
               PROVE  Comes(b, v)'
    BY <1>1, <2>3
  <2>5. CASE Has(b, v)
    BY <1>1, <2>4, <2>5 DEF Comes
  <2>6. ASSUME NEW i \in 1..Len(updates[b]), v <= updates[b][i].version PROVE Comes(b, v)'
    <3>1. CASE b # c
      BY <2>3, <2>6, <3>1 DEF Comes
    <3>2. CASE b = c /\ i = 1
      <4>1. v <= known'[b].version
        BY <1>1, <2>4, <2>6, <3>2
      <4> QED BY <4>1 DEF Comes
    <3>3. CASE b = c /\ i # 1
      <4>1. i - 1 \in 1..Len(Tail(updates[c])) /\ (i - 1) + 1 = i
        BY <2>2, <2>6, <3>3
      <4>2. v <= Tail(updates[c])[i - 1].version
        BY <2>2, <2>6, <3>3, <4>1
      <4> QED BY <2>3, <3>3, <4>1, <4>2 DEF Comes
    <3> QED BY <3>1, <3>2, <3>3
  <2>7. CASE \E d \in Clients : Coming(d, v)
    BY <2>3, <2>7 DEF Comes
  <2> QED BY <2>5, <2>6, <2>7 DEF Comes
<1>15. CASE DeleteRow \/ UNCHANGED vars
  <2>1. UNCHANGED <<known, updates, writer>> /\ row'.version = row.version
    BY <1>15 DEF DeleteRow, vars
  <2> QED BY <1>8, <2>1
<1>16. CASE DismissFeedItem
  <2>1. UNCHANGED <<known, updates, writer>> /\ silent' = silent \cup {row.version + 1}
        /\ row'.version = row.version + 1
    BY <1>16, DismissalAppends DEF DismissFeedItem
  <2> QED BY <1>1, <1>8, <2>1
<1> QED BY <1>3, <1>9, <1>10, <1>11, <1>13, <1>14, <1>15, <1>16 DEF Next, HandlerStep

\* A handler learns of the row by reading it, and the row's version only grows.
LEMMA NextCallsKnow ==
  ASSUME TypeOK, PairsStored, CallsKnow, [Next]_vars
  PROVE  CallsKnow'
<1> DEFINE Knows(d) ==
             /\ writer[d].pc \in {"read", "update", "refetch"}
                  => writer[d].expected <= row.version
             /\ writer[d].pc = "update" => writer[d].pair.version = writer[d].expected
             /\ writer[d].pc = "refetch" => ~(row.live /\ row.version = writer[d].expected)
<1>1. /\ row.version \in Nat /\ Stored(row)
      /\ \A d \in Clients : /\ writer[d].expected \in Nat
                            /\ known[d].version \in 0..row.version
  BY DEF TypeOK, PairsStored, Writer, Stored
<1>2. row'.version \in {row.version, row.version + 1} /\ (row'.live => row.live)
  <2>1. \/ UNCHANGED row
        \/ DeleteRow \/ DismissFeedItem
        \/ \E c \in Clients : Written(c)
    BY DEF Next, vars, HandlerStep, Request, ReadRow, UpdateRow, Refetch, Announce,
           HandlerFails, TakeReply, TakeUpdate
  <2>2. CASE UNCHANGED row
    BY <2>2
  <2>3. ASSUME NEW c \in Clients, Written(c) PROVE row'.live = row.live
    BY <2>3 DEF Written, Stores
  <2>4. CASE DeleteRow
    <3>1. row' = [live |-> FALSE, version |-> row.version, value |-> row.value]
      BY <2>4 DEF DeleteRow
    <3> QED BY <3>1
  <2>6. CASE DismissFeedItem
    BY <2>6 DEF DismissFeedItem, Stores
  <2>5. row'.live => row.live
    BY <2>1, <2>2, <2>3, <2>4, <2>6
  <2> QED BY <1>1, <2>5, NextGrows
<1>3. SUFFICES \A d \in Clients : Knows(d)'
  BY DEF CallsKnow, UpdateMatches
<1>4. \A d \in Clients : Knows(d)
  BY DEF CallsKnow, UpdateMatches
<1>5. ASSUME NEW d \in Clients, writer'[d] = writer[d] PROVE Knows(d)'
  BY <1>1, <1>2, <1>4, <1>5
<1>6. ASSUME NEW c \in Clients, NEW pc, NEW p, Reply(c, pc, p),
             pc \in {"read", "update", "refetch"} => writer[c].expected <= row.version,
             pc = "update" => p.version = writer[c].expected,
             pc = "refetch" => ~(row.live /\ row.version = writer[c].expected)
      PROVE  \A d \in Clients : Knows(d)'
  <2>1. /\ writer'[c].pc = pc /\ writer'[c].pair = p
        /\ writer'[c].expected = writer[c].expected
        /\ \A d \in Clients \ {c} : writer'[d] = writer[d]
    BY <1>6 DEF Reply, TypeOK
  <2>2. Knows(c)'
    BY <1>1, <1>2, <1>4, <1>6, <2>1
  <2> QED BY <1>5, <2>1, <2>2
<1> HIDE DEF Knows
<1>7. ASSUME NEW c \in Clients, Request(c) PROVE \A d \in Clients : Knows(d)'
  <2>1. /\ writer'[c].pc = "read" /\ writer'[c].expected = known[c].version
        /\ \A d \in Clients \ {c} : writer'[d] = writer[d]
    BY <1>7 DEF Request, TypeOK
  <2>2. Knows(c)'
    BY <1>1, <1>2, <2>1 DEF Knows
  <2> QED BY <1>5, <2>1, <2>2
<1>8. ASSUME NEW c \in Clients, ReadRow(c) PROVE \A d \in Clients : Knows(d)'
  <2>1. CASE Reply(c, "update", Current) /\ row.version = writer[c].expected
    BY <1>1, <1>6, <2>1 DEF Current
  <2>2. CASE \E p : \E pc \in {"error", "unanswered", "mismatch"} : Reply(c, pc, p)
    BY <1>6, <2>2
  <2> QED BY <1>8, <2>1, <2>2 DEF ReadRow
<1>9. ASSUME NEW c \in Clients, UpdateRow(c) PROVE \A d \in Clients : Knows(d)'
  <2>1. CASE UpdateMatches(c)
    <3>1. \E p : \E pc \in {"announce", "success"} : Reply(c, pc, p)
      BY <1>9, <2>1 DEF UpdateRow
    <3> QED BY <1>6, <3>1
  <2>2. CASE ~UpdateMatches(c)
    <3>1. writer[c].expected <= row.version
      BY <1>4, <1>9 DEF Knows, UpdateRow
    <3>2. \E p : \E pc \in {"refetch", "mismatch"} : Reply(c, pc, p)
      BY <1>9, <2>2 DEF UpdateRow
    <3> QED BY <1>6, <2>2, <3>1, <3>2 DEF UpdateMatches
  <2> QED BY <2>1, <2>2
<1>10. ASSUME NEW c \in Clients, Refetch(c) \/ Announce(c) \/ HandlerFails(c) \/ TakeReply(c)
       PROVE  \A d \in Clients : Knows(d)'
  <2>1. \E p : \E pc \in {"mismatch", "success", "error", "idle"} : Reply(c, pc, p)
    BY <1>10 DEF Refetch, ReplyWithCurrent, Announce, HandlerFails, TakeReply
  <2> QED BY <1>6, <2>1
<1>11. CASE (\E c \in Clients : TakeUpdate(c)) \/ DeleteRow \/ DismissFeedItem \/ UNCHANGED vars
  <2>1. writer' = writer
    BY <1>11 DEF TakeUpdate, DeleteRow, DismissFeedItem, vars
  <2> QED BY <1>5, <2>1
<1> QED BY <1>7, <1>8, <1>9, <1>10, <1>11 DEF Next, HandlerStep
-----------------------------------------------------------------------------
\* The invariant holds in every reachable state of the handlers.
THEOREM Invariance == Spec => []IInv
<1>1. Init => IInv
  BY InitIInv
<1>2. IInv /\ [Next]_vars => IInv'
  <2> SUFFICES ASSUME IInv, [Next]_vars PROVE IInv'
    OBVIOUS
  <2> QED BY NextTypeOK, NextPairsStored, NextWins, NextToldOnce, NextNewestComes,
             NextCallsKnow DEF IInv
<1> QED BY <1>1, <1>2, PTL DEF Spec, SafeSpec

\* Two writers are never told that their values became the same version
\* (the compare-and-set of updateMany in the six handlers).
THEOREM NoLostUpdateHolds == Spec => []NoLostUpdate
<1>1. IInv => NoLostUpdate
  BY DEF IInv, TypeOK, WinsStored, WinsUnique, Stored, NoLostUpdate
<1> QED BY <1>1, Invariance, PTL

\* A client holds no version with the value of another one (the pairs that the
\* replies and the update-session, update-machine and update-account events
\* carry).
THEOREM ReplicasTruthfulHolds == Spec => []ReplicasTruthful
<1>1. IInv => ReplicasTruthful
  BY DEF IInv, TypeOK, PairsStored, Stored, ReplicasTruthful
<1> QED BY <1>1, Invariance, PTL

\* No version is announced twice (allocateUserSeq and emitUpdate after a
\* successful updateMany).
THEOREM AnnouncedOnceHolds == Spec => []AnnouncedOnce
<1>1. IInv => AnnouncedOnce
  BY DEF IInv, TypeOK, ToldOnce, AnnouncedOnce
<1> QED BY <1>1, Invariance, PTL

\* Once everything sent has arrived and no call has failed, a client that is told of the
\* field lacks no version a request made, whatever the order in which the handlers announced
\* (the emitUpdate that follows the write after another await); what it lacks is silent
\* (feedRoutes.ts:146-152).
THEOREM ReplicasConvergeHolds == Spec => []ReplicasConverge
<1>1. IInv => ReplicasConverge
  <2> SUFFICES ASSUME IInv, Quiet, failures = 0, policy.announces, NEW c \in interested,
                      NEW v \in (known[c].version + 1)..row.version
               PROVE  v \in silent
    BY DEF ReplicasConverge
  <2>1. c \in Clients /\ known[c].version \in Nat /\ row.version \in Nat
    BY DEF IInv, TypeOK, Pair
  <2>2. v \in 1..row.version /\ ~(v <= known[c].version)
    BY <2>1
  <2>3. v \in silent \/ Comes(c, v)
    BY <2>2 DEF IInv, NewestComes
  <2>4. updates[c] = <<>> /\ \A d \in Clients : writer[d].pc # "announce"
    BY <2>1 DEF Quiet
  <2>5. ~Comes(c, v)
    BY <2>2, <2>4 DEF Comes
  <2> QED BY <2>3, <2>5
<1> QED BY <1>1, Invariance, PTL

\* The row's version grows by one or not at all, and a version keeps its value
\* (every write of the field goes through updateMany with the expected version).
THEOREM VersionsAreForGoodHolds == Spec => VersionsAreForGood
<1>1. IInv /\ [Next]_vars =>
        [/\ row'.version \in {row.version, row.version + 1}
         /\ \A v \in DOMAIN past : past'[v] = past[v]]_vars
  <2> SUFFICES ASSUME IInv, [Next]_vars
               PROVE  /\ row'.version \in {row.version, row.version + 1}
                      /\ \A v \in DOMAIN past : past'[v] = past[v]
    OBVIOUS
  <2>1. TypeOK /\ Stored(row) /\ DOMAIN past = 0..row.version
    BY DEF IInv, PairsStored, TypeOK
  <2> QED BY <2>1, NextGrows
<1> QED BY <1>1, Invariance, PTL DEF Spec, SafeSpec, VersionsAreForGood
-----------------------------------------------------------------------------
(* The refinement: each step of a handler is a step of the register, or one *)
(* that its clients do not see.                                             *)

\* What a client sees of a reply: nothing, or the answer of its call.
LEMMA ReplySeen ==
  ASSUME TypeOK, NEW c \in Clients, NEW pc, NEW p, Reply(c, pc, p)
  PROVE  LET w == [pc |-> pc, expected |-> writer[c].expected,
                   value |-> writer[c].value, pair |-> p]
         IN  Register!Answered(c, Call(w).state, Call(w).pair)
<1> DEFINE w == [pc |-> pc, expected |-> writer[c].expected, value |-> writer[c].value, pair |-> p]
           k == [state |-> Call(w).state, expected |-> call[c].expected,
                 value |-> call[c].value, pair |-> Call(w).pair]
<1>1. writer' = [writer EXCEPT ![c] = w]
  BY DEF Reply
<1>2. \A d \in Clients : writer'[d] = IF d = c THEN w ELSE writer[d]
  BY <1>1 DEF TypeOK
<1>3. Call(w) = k
  BY DEF Call, call
<1> HIDE DEF w, k
<1>4. \A d \in Clients : call'[d] = IF d = c THEN k ELSE call[d]
  BY <1>2, <1>3 DEF call
<1>5. call' = [call EXCEPT ![c] = k]
  BY <1>4 DEF call
<1> QED BY <1>5 DEF w, k, Register!Answered

\* A reply is an answer, and a step between two awaits is hidden.
LEMMA ReplyAnswers ==
  ASSUME TypeOK, NEW c \in Clients, NEW p
  PROVE  /\ Reply(c, "idle", p) => Register!Answered(c, "idle", p)
         /\ Reply(c, "error", p) => Register!Answered(c, "error", p)
         /\ Reply(c, "unanswered", p) => Register!Answered(c, "unanswered", p)
         /\ Reply(c, "mismatch", p) => Register!Answered(c, "refused", p)
         /\ Reply(c, "success", p) => Register!Answered(c, "set", p)
         /\ Reply(c, "announce", p) => Register!Answered(c, "set", p)
         /\ Reply(c, "update", p) => Register!Answered(c, "asked", Nothing)
         /\ Reply(c, "refetch", p) => Register!Answered(c, "asked", Nothing)
<1> DEFINE w(pc) == [pc |-> pc, expected |-> writer[c].expected, value |-> writer[c].value,
                     pair |-> p]
<1>1. \A pc : Reply(c, pc, p) => Register!Answered(c, Call(w(pc)).state, Call(w(pc)).pair)
  BY ReplySeen
<1>2. /\ Call(w("idle")).state = "idle" /\ Call(w("idle")).pair = p
      /\ Call(w("error")).state = "error" /\ Call(w("error")).pair = p
      /\ Call(w("unanswered")).state = "unanswered" /\ Call(w("unanswered")).pair = p
      /\ Call(w("mismatch")).state = "refused" /\ Call(w("mismatch")).pair = p
      /\ Call(w("success")).state = "set" /\ Call(w("success")).pair = p
      /\ Call(w("announce")).state = "set" /\ Call(w("announce")).pair = p
      /\ Call(w("update")).state = "asked" /\ Call(w("update")).pair = Nothing
      /\ Call(w("refetch")).state = "asked" /\ Call(w("refetch")).pair = Nothing
  BY DEF Call, Asked
<1> HIDE DEF w
<1> QED BY <1>1, <1>2

\* A call that is answered with what it shows already has not changed.
LEMMA AnsweredSame ==
  ASSUME NEW c \in Clients, Register!Answered(c, call[c].state, call[c].pair)
  PROVE  call' = call
<1>1. call[c] = [state |-> call[c].state, expected |-> call[c].expected,
                 value |-> call[c].value, pair |-> call[c].pair]
  BY DEF call, Call
<1> QED BY <1>1 DEF Register!Answered, call

\* A request is a call of the register.
LEMMA RequestAsks ==
  ASSUME IInv, NEW c \in Clients, Request(c)
  PROVE  Register!Ask(c)
<1>1. /\ writer[c].pc = "idle" /\ UNCHANGED <<row, past>>
      /\ known[c].version \in 0..row.version /\ writes + 1 \in 1..MaxWrites
  BY VersionedFieldAssumption DEF Request, IInv, TypeOK, PairsStored, Stored
<1> DEFINE w == [pc |-> "read", expected |-> known[c].version, value |-> writes + 1,
                 pair |-> Nothing]
           k == [state |-> "asked", expected |-> known[c].version, value |-> writes + 1,
                 pair |-> Nothing]
<1>2. call[c].state = "idle"
  BY <1>1 DEF call, Call, Asked
<1>3. Call(w) = k
  BY DEF Call, Asked
<1>4. \A d \in Clients : writer'[d] = IF d = c THEN w ELSE writer[d]
  BY DEF Request, IInv, TypeOK
<1> HIDE DEF w
<1>5. \A d \in Clients : call'[d] = IF d = c THEN Call(w) ELSE call[d]
  BY <1>4 DEF call
<1>6. call' = [call EXCEPT ![c] = k]
  BY <1>3, <1>5 DEF call
<1> QED BY <1>1, <1>2, <1>6 DEF Register!Ask

\* An update that matches is the moment at which the register takes the value.
LEMMA WrittenTakes ==
  ASSUME IInv, NEW c \in Clients, writer[c].pc = "update", UpdateMatches(c), Written(c)
  PROVE  Register!Takes(c)
<1>1. TypeOK
  BY DEF IInv
<1>2. /\ NewVersion(c) = row.version + 1 /\ row.version = writer[c].expected /\ row.live
      /\ row.version \in Nat
  BY <1>1, WrittenAppends DEF UpdateMatches, TypeOK
<1>3. call[c].state = "asked" /\ call[c].expected = writer[c].expected
      /\ call[c].value = writer[c].value
  BY DEF call, Call, Asked
<1>4. Stores(row.version + 1, writer[c].value) /\ writer[c].value \in Nat
  BY <1>1, WrittenAppends DEF TypeOK, Writer
<1>5. /\ row' = [live |-> row.live, version |-> row.version + 1, value |-> writer[c].value]
      /\ past' = [v \in 0..row.version + 1 |-> IF v \in 0..row.version THEN past[v]
                                               ELSE writer[c].value]
  BY <1>1, <1>4, StoresAppends
<1> QED BY <1>2, <1>3, <1>4, <1>5 DEF Register!Takes

\* The read finds the row gone, with another version, or as expected.
LEMMA ReadRowRefines ==
  ASSUME IInv, NEW c \in Clients, ReadRow(c)
  PROVE  Register!Vanished(c) \/ Register!Refuse(c) \/ UNCHANGED Register!vars
<1>1. /\ TypeOK /\ writer[c].pc = "read" /\ UNCHANGED <<row, past>>
      /\ writer[c].expected \in Nat /\ writer[c].expected <= row.version /\ row.version \in Nat
      /\ past[row.version] = row.value
  BY DEF ReadRow, IInv, CallsKnow, TypeOK, Writer, PairsStored, Stored
<1>2. /\ call[c].state = "asked" /\ call[c].expected = writer[c].expected
      /\ call[c].pair = Nothing
  BY <1>1 DEF call, Call, Asked
<1>3. CASE ~row.live
  <2>1. Reply(c, "error", Nothing) \/ Reply(c, "unanswered", Nothing)
    BY <1>3 DEF ReadRow
  <2>2. Register!Answered(c, "error", Nothing) \/ Register!Answered(c, "unanswered", Nothing)
    BY <1>1, <2>1, ReplyAnswers
  <2> QED BY <1>1, <1>2, <1>3, <2>2 DEF Register!Vanished
<1>4. CASE row.live /\ row.version # writer[c].expected
  <2>1. Reply(c, "mismatch", Current)
    BY <1>4 DEF ReadRow
  <2>2. Register!Answered(c, "refused", [version |-> row.version, value |-> past[row.version]])
    BY <1>1, <2>1, ReplyAnswers DEF Current
  <2>3. row.version \in call[c].expected..row.version
    BY <1>1, <1>2
  <2> QED BY <1>1, <1>2, <1>4, <2>2, <2>3 DEF Register!Refuse
<1>5. CASE Reply(c, "update", Current)
  <2>1. call' = call
    BY <1>1, <1>2, <1>5, ReplyAnswers, AnsweredSame
  <2> QED BY <1>1, <2>1 DEF Register!vars
<1> QED BY <1>3, <1>4, <1>5 DEF ReadRow

\* An update that matches sets the register; one that misses has found another version,
\* or no row.
LEMMA UpdateRowRefines ==
  ASSUME IInv, NEW c \in Clients, UpdateRow(c)
  PROVE  Register!Set(c) \/ Register!Refuse(c) \/ UNCHANGED Register!vars
<1>1. /\ TypeOK /\ writer[c].pc = "update" /\ Stored(writer[c].pair)
      /\ writer[c].expected \in Nat /\ writer[c].expected <= row.version /\ row.version \in Nat
      /\ writer[c].pair.version = writer[c].expected /\ writer[c].pair \in Pair
  BY DEF UpdateRow, IInv, CallsKnow, TypeOK, Writer, PairsStored
<1>2. /\ call[c].state = "asked" /\ call[c].expected = writer[c].expected
      /\ call[c].value = writer[c].value /\ call[c].pair = Nothing
  BY <1>1 DEF call, Call, Asked
<1>3. CASE UpdateMatches(c)
  <2>1. Written(c)
    BY <1>3 DEF UpdateRow
  <2>2. Register!Takes(c) /\ NewVersion(c) = writer[c].expected + 1
    BY <1>1, <1>3, <2>1, WrittenTakes DEF NewVersion
  <2> DEFINE p == [version |-> NewVersion(c), value |-> writer[c].value]
  <2>3. Reply(c, "announce", p) \/ Reply(c, "success", p)
    BY <1>3 DEF UpdateRow
  <2>4. Register!Answered(c, "set", p)
    BY <1>1, <2>3, ReplyAnswers
  <2> QED BY <1>2, <2>2, <2>4 DEF Register!Set
<1>4. CASE ~UpdateMatches(c)
  <2>1. UNCHANGED <<row, past>>
    BY <1>4 DEF UpdateRow
  <2>2. CASE Reply(c, "refetch", writer[c].pair)
    <3>1. call' = call
      BY <1>1, <1>2, <2>2, ReplyAnswers, AnsweredSame
    <3> QED BY <2>1, <3>1 DEF Register!vars
  <2>3. CASE Reply(c, "mismatch", writer[c].pair)
    <3>1. Register!Answered(c, "refused", writer[c].pair)
      BY <1>1, <2>3, ReplyAnswers
    <3>2. writer[c].pair = [version |-> writer[c].expected, value |-> past[writer[c].expected]]
      BY <1>1 DEF Stored, Pair
    <3>3. call[c].expected \in call[c].expected..row.version
      BY <1>1, <1>2
    <3> QED BY <1>2, <1>4, <2>1, <3>1, <3>2, <3>3 DEF Register!Refuse, UpdateMatches
  <2> QED BY <1>4, <2>2, <2>3 DEF UpdateRow
<1> QED BY <1>3, <1>4

\* By the time the row is read again its version has moved on for good.
LEMMA RefetchRefines ==
  ASSUME IInv, NEW c \in Clients, Refetch(c)
  PROVE  Register!Vanished(c) \/ Register!Refuse(c)
<1>1. /\ TypeOK /\ writer[c].pc = "refetch" /\ UNCHANGED <<row, past>> /\ ~UpdateMatches(c)
      /\ writer[c].expected \in Nat /\ writer[c].expected <= row.version /\ row.version \in Nat
      /\ past[row.version] = row.value
  BY DEF Refetch, IInv, CallsKnow, TypeOK, Writer, PairsStored, Stored
<1>2. call[c].state = "asked" /\ call[c].expected = writer[c].expected
  BY <1>1 DEF call, Call, Asked
<1>3. CASE row.live
  <2>1. Reply(c, "mismatch", Current)
    BY <1>3 DEF Refetch, ReplyWithCurrent
  <2>2. Register!Answered(c, "refused", [version |-> row.version, value |-> past[row.version]])
    BY <1>1, <2>1, ReplyAnswers DEF Current
  <2>3. row.version \in call[c].expected..row.version
    BY <1>1, <1>2
  <2> QED BY <1>1, <1>2, <2>2, <2>3 DEF Register!Refuse, UpdateMatches
<1>4. CASE ~row.live
  <2>1. Reply(c, "mismatch", Nothing)
    BY <1>4 DEF Refetch, ReplyWithCurrent
  <2>2. Register!Answered(c, "refused", Nothing)
    BY <1>1, <2>1, ReplyAnswers
  <2> QED BY <1>1, <1>2, <1>4, <2>2 DEF Register!Vanished
<1> QED BY <1>3, <1>4

\* Announcing is not seen by the caller, whose write is done.
LEMMA AnnounceStutters ==
  ASSUME IInv, NEW c \in Clients, Announce(c)
  PROVE  UNCHANGED Register!vars
<1>1. /\ TypeOK /\ writer[c].pc = "announce" /\ UNCHANGED <<row, past>>
      /\ Reply(c, "success", writer[c].pair)
  BY DEF Announce, IInv
<1>2. call[c].state = "set" /\ call[c].pair = writer[c].pair
  BY <1>1 DEF call, Call, Asked
<1>3. call' = call
  BY <1>1, <1>2, ReplyAnswers, AnsweredSame
<1> QED BY <1>1, <1>3 DEF Register!vars

\* A failing database call: the register may have taken the value.
LEMMA HandlerFailsRefines ==
  ASSUME IInv, NEW c \in Clients, HandlerFails(c)
  PROVE  Register!Fail(c)
<1>1. /\ TypeOK /\ writer[c].pc \in {"read", "update", "refetch", "announce"}
      /\ Reply(c, "error", Nothing)
  BY DEF HandlerFails, IInv
<1>2. call[c].state \in {"asked", "set"}
  BY <1>1 DEF call, Call, Asked
<1>3. Register!Answered(c, "error", Nothing)
  BY <1>1, ReplyAnswers
<1>4. UNCHANGED <<row, past>> \/ Register!Takes(c)
  BY WrittenTakes DEF HandlerFails
<1> QED BY <1>2, <1>3, <1>4 DEF Register!Fail

\* Every behaviour of the handlers is one of a register with compare-and-set: each request
\* takes effect at one point, on the version it names, or is refused for a reason
\* (sessionUpdateHandler.ts:12, machineUpdateHandler.ts:53, accountRoutes.ts:97,
\* accessKeysRoutes.ts:210).
THEOREM Refinement == Spec => ImplementsRegister
<1>1. Init => Register!Init
  BY DEF Init, Register!Init, call, Call, Asked
<1>2. IInv /\ [Next]_vars => [Register!Next]_(Register!vars)
  <2> SUFFICES ASSUME IInv, [Next]_vars PROVE [Register!Next]_(Register!vars)
    OBVIOUS
  <2>1. ASSUME NEW c \in Clients, Request(c) PROVE Register!Next
    BY <2>1, RequestAsks DEF Register!Next
  <2>2. ASSUME NEW c \in Clients, ReadRow(c) PROVE [Register!Next]_(Register!vars)
    BY <2>2, ReadRowRefines DEF Register!Next
  <2>3. ASSUME NEW c \in Clients, UpdateRow(c) PROVE [Register!Next]_(Register!vars)
    BY <2>3, UpdateRowRefines DEF Register!Next
  <2>4. ASSUME NEW c \in Clients, Refetch(c) PROVE Register!Next
    BY <2>4, RefetchRefines DEF Register!Next
  <2>5. ASSUME NEW c \in Clients, Announce(c) PROVE UNCHANGED Register!vars
    BY <2>5, AnnounceStutters
  <2>6. ASSUME NEW c \in Clients, HandlerFails(c) PROVE Register!Next
    BY <2>6, HandlerFailsRefines DEF Register!Next
  <2>7. ASSUME NEW c \in Clients, TakeReply(c) PROVE Register!Next
    <3>1. /\ TypeOK /\ UNCHANGED <<row, past>> /\ Reply(c, "idle", Nothing)
          /\ writer[c].pc \in {"success", "mismatch", "error"}
      BY <2>7 DEF TakeReply, IInv
    <3>2. call[c].state \in {"set", "refused", "error"}
      BY <3>1 DEF call, Call, Asked
    <3>3. Register!Answered(c, "idle", Nothing)
      BY <3>1, ReplyAnswers
    <3> QED BY <3>1, <3>2, <3>3 DEF Register!Return, Register!Next
  <2>8. CASE DeleteRow
    <3>1. /\ row.live /\ UNCHANGED <<past, writer>>
          /\ row' = [live |-> FALSE, version |-> row.version, value |-> row.value]
      BY <2>8 DEF DeleteRow
    <3>2. call' = call
      BY <3>1 DEF call
    <3> QED BY <3>1, <3>2 DEF Register!Delete, Register!Next
  <2>10. CASE DismissFeedItem
    <3>1. /\ row' = [live |-> row.live, version |-> row.version + 1, value |-> writes + 1]
          /\ past' = [v \in 0..row.version + 1 |->
                        IF v \in 0..row.version THEN past[v] ELSE writes + 1]
      BY <2>10, DismissalAppends DEF IInv
    <3>2. writes + 1 \in 1..MaxWrites /\ UNCHANGED writer
      BY <2>10, VersionedFieldAssumption DEF DismissFeedItem, IInv, TypeOK
    <3>3. call' = call
      BY <3>2 DEF call
    <3> QED BY <3>1, <3>2, <3>3 DEF Register!Overwrite, Register!Next
  <2>9. CASE (\E c \in Clients : TakeUpdate(c)) \/ UNCHANGED vars
    <3>1. UNCHANGED <<row, past, writer>>
      BY <2>9 DEF TakeUpdate, vars
    <3> QED BY <3>1 DEF Register!vars, call
  <2> QED BY <2>1, <2>2, <2>3, <2>4, <2>5, <2>6, <2>7, <2>8, <2>9, <2>10
      DEF Next, HandlerStep
<1> QED BY <1>1, <1>2, Invariance, PTL DEF Spec, SafeSpec, ImplementsRegister, Register!Spec
=============================================================================
