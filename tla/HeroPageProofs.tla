--------------------------- MODULE HeroPageProofs ---------------------------
(***************************************************************************)
(* Proofs about HeroPage for any number of tasks, presses, changes and     *)
(* faults: a purchase asked for again is bought once, what is shown of a   *)
(* task never goes back, and a list read to its end is complete.  At the   *)
(* end, the rules of the buttons and of the offer (HeroRules).             *)
(***************************************************************************)
EXTENDS MCHeroPage, FiniteSetTheorems, TLAPS

\* The tasks are numbered as they are created, one for a key.
Numbered == \E n \in 0..MaxTasks : Made = 1..n
OneForKey == \A t, u \in Made : rows[t].key = rows[u].key => t = u

\* Counters and clocks.
InTime ==
    /\ keys <= presses /\ intent <= presses
    /\ \A t \in Made : rows[t].ver <= updates /\ rows[t].stamp <= updates

\* Key k was or may be sent to buy what i asks for, as the n-th intent.
IsUse(k, i, n) ==
    \/ \E t \in Made : rows[t].key = k /\ rows[t].input = i /\ rows[t].intent = n
    \/ creating # None /\ creating.key = k /\ creating.input = i /\ creating.intent = n
    \/ \E r \in stray : r.key = k /\ r.input = i /\ r.intent = n
    \/ pending # None /\ pending.key = k /\ pending.input = i /\ intent = n

\* A key stands for one intent and an intent for one key, wherever they are.
Linked ==
    \A k, l, m, n \in Keys : \A i, j \in Inputs :
        IsUse(k, i, m) /\ IsUse(l, j, n) => (k = l <=> m = n) /\ (k = l => i = j)
Issued == \A k, n \in Keys : \A i \in Inputs : IsUse(k, i, n) => k <= keys /\ n <= presses

\* Every view of a task that is on show, on its way or put together page by page.
SeenBy(t) ==
    {shown[t], list.page[t], list.loaded[t]}
    \cup (IF creating = None THEN {} ELSE {creating.view[t]})
    \cup {acting[u].view[t] : u \in {u \in Tasks : acting[u] # None}}
Seen(t) == SeenBy(t) \ {None}

\* They are of the task's past, and their times follow their true order, unless
\* the task's own time has gone back.
Past ==
    \A t \in Tasks : \A a \in Seen(t) :
        t \in Made /\ a.ver <= rows[t].ver /\ (a.stamp <= rows[t].stamp \/ rows[t].back)
InOrder ==
    \A t \in Tasks : \A a, b \in Seen(t) : a.ver < b.ver => a.stamp <= b.stamp \/ rows[t].back
\* A button is pressed on a task that there is, and a purchase that waits for its
\* answer was meant.
Pressed ==
    /\ \A t \in Tasks : acting[t] # None => t \in Made
    /\ pending # None => intent \in Keys

PageInv ==
    /\ TypeOK /\ Numbered /\ OneForKey /\ InTime /\ Linked /\ Issued
    /\ Past /\ InOrder /\ Pressed
-----------------------------------------------------------------------------
(* Views and rows *)

LEMMA ViewsOf ==
    ASSUME NEW row \in Row
    PROVE  /\ ViewOf(row) \in View /\ ViewOf(row) # None
           /\ ViewOf(row).ver = row.ver /\ ViewOf(row).stamp = row.stamp
           /\ ViewOf(row).messages = row.messages
  BY HeroPageAssumption DEF ViewOf, View, Row

LEMMA Rows ==
    ASSUME TypeOK
    PROVE  /\ Made \subseteq Tasks /\ \A t \in Made : rows[t] \in Row
           /\ \A t \in Tasks : t \notin Made => rows[t] = None
  BY DEF TypeOK, Made

LEMMA Numbers ==
    /\ MaxTasks \in Nat /\ PageSize \in Nat /\ MaxUpdates \in Nat /\ MaxLag \in Nat
    /\ MaxMessages \in Nat /\ MaxPresses \in Nat /\ MaxActions \in Nat /\ MaxFaults \in Nat
    /\ 1 <= MaxUpdates /\ 1 <= MaxPresses /\ None \notin Row /\ None \notin View
  BY HeroPageAssumption

\* Merging two views keeps the version of one of them, and every message.
LEMMA Merging ==
    ASSUME NEW old \in View \cup {None}, NEW new \in View \cup {None}
    PROVE  /\ MergeTask(old, new) \in View \cup {None}
           /\ MergeTask(old, new) # None =>
                 \E x \in {old, new} \ {None} : /\ MergeTask(old, new).ver = x.ver
                                                /\ MergeTask(old, new).stamp = x.stamp
           /\ old # None => /\ MergeTask(old, new) # None
                            /\ MergeTask(old, new).messages >= old.messages
           /\ (old # None /\ new # None /\ new.stamp >= old.stamp) => MergeTask(old, new).ver = new.ver
           /\ (old # None /\ (new = None \/ new.stamp < old.stamp)) => MergeTask(old, new).ver = old.ver
  <1>1. CASE old = None \/ new = None
    BY <1>1 DEF MergeTask, View
  <1>2. CASE old # None /\ new # None
    <2> DEFINE v == IF new.stamp < old.stamp THEN old ELSE new
    <2> DEFINE m == Newer(old, new)
    <2>0. old \in View /\ new \in View
      BY <1>2
    <2>1. m \in 0..MaxMessages /\ m >= old.messages
      BY <2>0, Numbers DEF Newer, View
    <2>2. v \in View /\ v \in {old, new} \ {None}
      BY <1>2, <2>0
    <2>3. MergeTask(old, new) = [v EXCEPT !.messages = m]
      BY <1>2 DEF MergeTask
    <2>4. /\ new.stamp >= old.stamp => v = new
          /\ new.stamp < old.stamp => v = old
      BY <2>0 DEF View, Stamps
    <2> HIDE DEF v, m
    <2>5. /\ [v EXCEPT !.messages = m] \in View /\ [v EXCEPT !.messages = m].ver = v.ver
          /\ [v EXCEPT !.messages = m].stamp = v.stamp /\ [v EXCEPT !.messages = m].messages = m
      BY <2>1, <2>2 DEF View
    <2> QED BY <1>2, <2>1, <2>2, <2>3, <2>4, <2>5, Numbers
  <1> QED BY <1>1, <1>2
-----------------------------------------------------------------------------
(* The server's steps *)

\* What a step of the server leaves true of the tasks there were.
Onward ==
    /\ Made \subseteq Made' /\ updates <= updates'
    /\ \A t \in Made :
          /\ rows'[t].ver >= rows[t].ver
          /\ rows'[t].stamp >= rows[t].stamp \/ rows'[t].back
          /\ rows[t].back => rows'[t].back
    /\ \A t \in Made' : rows'[t].ver <= updates' /\ rows'[t].stamp <= updates'
\* And of what they were bought for.
SamePurchases ==
    Made' = Made /\ \A t \in Made : /\ rows'[t].key = rows[t].key /\ rows'[t].input = rows[t].input
                                    /\ rows'[t].intent = rows[t].intent
ServerTypes == rows \in [Tasks -> Row \cup {None}] /\ updates \in 0..MaxUpdates

LEMMA Ticks ==
    ASSUME TypeOK, InTime, Tick
    PROVE  /\ updates' = updates + 1 /\ updates' \in 1..MaxUpdates /\ updates' \in 0..MaxUpdates
           /\ updates' \in Stamps /\ updates \in Nat
  BY Numbers DEF TypeOK, InTime, Tick, Stamps

\* One row gets a new version, with the time of the clock or, then marked, an earlier one.
LEMMA OneRow ==
    ASSUME TypeOK, InTime, Tick, NEW t \in Made, NEW row \in Row, rows' = [rows EXCEPT ![t] = row],
           row.ver = updates', row.stamp <= updates', row.stamp >= rows[t].stamp \/ row.back,
           rows[t].back => row.back,
           row.key = rows[t].key, row.input = rows[t].input, row.intent = rows[t].intent
    PROVE  ServerTypes' /\ Onward /\ SamePurchases
  <1>1. /\ t \in Tasks /\ rows \in [Tasks -> Row \cup {None}] /\ Made \subseteq Tasks
        /\ \A u \in Made : rows[u] \in Row
    BY Rows DEF TypeOK
  <1>2. /\ rows' \in [Tasks -> Row \cup {None}] /\ rows'[t] = row
        /\ \A u \in Tasks : u # t => rows'[u] = rows[u]
    BY <1>1
  <1>3. Made' = Made
    BY <1>1, <1>2, Numbers DEF Made
  <1>4. \A u \in Made : /\ rows[u].ver \in Nat /\ rows[u].stamp \in Nat
                        /\ rows[u].ver <= updates /\ rows[u].stamp <= updates
    BY <1>1 DEF InTime, Row, Stamps
  <1>5. row.ver \in Nat /\ row.stamp \in Nat
    BY DEF Row, Stamps
  <1>6. updates' = updates + 1 /\ updates \in Nat
    BY Ticks
  <1>8. Onward
    <2>1. ASSUME NEW u \in Made
          PROVE  /\ rows'[u].ver >= rows[u].ver
                 /\ rows'[u].stamp >= rows[u].stamp \/ rows'[u].back
                 /\ rows[u].back => rows'[u].back
                 /\ rows'[u].ver <= updates' /\ rows'[u].stamp <= updates'
      <3>1. CASE u = t
        BY <1>2, <1>4, <1>5, <1>6, <3>1
      <3>2. CASE u # t
        <4>1. rows'[u] = rows[u]
          BY <1>1, <1>2, <3>2
        <4> QED BY <1>4, <1>6, <4>1
      <3> QED BY <3>1, <3>2
    <2> QED BY <1>3, <1>6, <2>1 DEF Onward
  <1>9. SamePurchases
    BY <1>1, <1>2, <1>3 DEF SamePurchases
  <1> QED BY <1>2, <1>8, <1>9, Ticks DEF ServerTypes

\* However a row is changed: a new phase, one more message, an earlier stamp.
LEMMA Changing ==
    ASSUME TypeOK, InTime, NEW t \in Made, NEW phase \in Phases, NEW m \in 0..MaxMessages,
           Change(t, phase, m)
    PROVE  ServerTypes' /\ Onward /\ SamePurchases
  <1>1. rows[t] \in Row /\ Tick /\ rows \in [Tasks -> Row \cup {None}]
    BY Rows DEF Change, TypeOK
  <1>2. PICK stamp \in Stamps :
           /\ stamp <= updates'
           /\ rows' = [rows EXCEPT ![t].ver = updates', ![t].stamp = stamp, ![t].phase = phase,
                                   ![t].messages = m, ![t].back = @ \/ stamp < rows[t].stamp]
    BY DEF Change, Stampable
  <1> DEFINE b == rows[t].back \/ stamp < rows[t].stamp
  <1> DEFINE row == [rows[t] EXCEPT !.ver = updates', !.stamp = stamp, !.phase = phase,
                                    !.messages = m, !.back = b]
  <1>3. b \in BOOLEAN /\ updates' \in 1..MaxUpdates
    BY <1>1, Numbers, Ticks DEF Row
  <1>4. rows' = [rows EXCEPT ![t] = row]
    BY <1>1, <1>2
  <1>5. (rows[t].back => b) /\ (stamp >= rows[t].stamp \/ b)
    BY <1>1 DEF Row, Stamps
  <1> HIDE DEF b
  <1>6. /\ row \in Row /\ row.ver = updates' /\ row.stamp = stamp /\ row.key = rows[t].key
        /\ row.input = rows[t].input /\ row.intent = rows[t].intent
        /\ row.back = b
    BY <1>1, <1>3 DEF Row
  <1> HIDE DEF row
  <1>7. row.stamp <= updates'
    BY <1>2, <1>6
  <1>8. rows[t].back => row.back
    BY <1>5, <1>6
  <1>9. row.stamp >= rows[t].stamp \/ row.back
    BY <1>5, <1>6
  <1> QED BY <1>1, <1>4, <1>6, <1>7, <1>8, <1>9, OneRow

LEMMA Becoming ==
    ASSUME TypeOK, InTime, NEW t \in Made, NEW phase \in Phases, Becomes(t, phase)
    PROVE  ServerTypes' /\ Onward /\ SamePurchases
  <1>1. rows[t].messages \in 0..MaxMessages
    BY Rows DEF Row
  <1> QED BY <1>1, Changing DEF Becomes

LEMMA Messaging ==
    ASSUME TypeOK, InTime, NEW t \in Made, Message(t)
    PROVE  ServerTypes' /\ Onward /\ SamePurchases
  <1>1. rows[t].phase \in Phases /\ rows[t].messages + 1 \in 0..MaxMessages
    BY Rows, Numbers DEF Row, Message
  <1> QED BY <1>1, Changing DEF Message

LEMMA Standing ==
    ASSUME TypeOK, InTime, UNCHANGED serverVars
    PROVE  ServerTypes' /\ Onward /\ SamePurchases
  <1>1. rows' = rows /\ updates' = updates /\ Made' = Made
    BY DEF serverVars, Made
  <1>2. \A t \in Made : rows[t].ver \in Nat /\ rows[t].stamp \in Nat
    BY Rows DEF Row, Stamps
  <1> QED BY <1>1, <1>2 DEF TypeOK, InTime, ServerTypes, Onward, SamePurchases

\* Tasks that stay what they were bought for keep their numbers and their keys.
LEMMA Keeping ==
    ASSUME Numbered, OneForKey, SamePurchases
    PROVE  Numbered' /\ OneForKey'
  BY DEF Numbered, OneForKey, SamePurchases

\* A purchase that arrives at the server makes the next task, unless its key has one.
Created(r) ==
    \A t \in Made' :
        \/ /\ t \in Made /\ rows'[t].key = rows[t].key /\ rows'[t].input = rows[t].input
           /\ rows'[t].intent = rows[t].intent
        \/ rows'[t].key = r.key /\ rows'[t].input = r.input /\ rows'[t].intent = r.intent
LEMMA Creating ==
    ASSUME TypeOK, InTime, Numbered, OneForKey, NEW r, r.key \in Keys, r.input \in Inputs,
           r.intent \in Keys, Create(r)
    PROVE  ServerTypes' /\ Onward /\ Numbered' /\ OneForKey' /\ Created(r)
  <1>1. CASE Existing(r) # {} /\ UNCHANGED serverVars
    <2>1. ServerTypes' /\ Onward /\ SamePurchases
      BY <1>1, Standing
    <2> QED BY <2>1, Keeping DEF Created, SamePurchases
  <1>2. CASE Existing(r) = {} /\ Cardinality(Made) < MaxTasks /\ Tick
    <2> DEFINE row == [ver |-> updates', stamp |-> updates', phase |-> "waiting", messages |-> 0,
                       key |-> r.key, input |-> r.input, intent |-> r.intent, back |-> FALSE]
    <2> DEFINE new == Cardinality(Made) + 1
    <2>1. PICK n \in 0..MaxTasks : Made = 1..n
      BY DEF Numbered
    <2>2. Cardinality(Made) = n
      <3>0. n \in Int /\ 1 \in Int
        BY <2>1, Numbers
      <3> HIDE DEF row, new
      <3>1. Cardinality(1..n) = IF 1 > n THEN 0 ELSE n - 1 + 1
        BY <3>0, FS_Interval, Zenon
      <3> QED BY <2>1, <3>1, Numbers
    <2>3. new = n + 1 /\ new \in Tasks /\ new \notin Made /\ n + 1 \in 0..MaxTasks
      BY <1>2, <2>1, <2>2, Numbers DEF Tasks
    <2>4. /\ updates' = updates + 1 /\ updates' \in 1..MaxUpdates /\ updates' \in Stamps
          /\ updates \in Nat /\ updates' \in 0..MaxUpdates
      BY <1>2, Ticks
    <2>5. row \in Row /\ row.ver = updates' /\ row.stamp = updates' /\ row.key = r.key
          /\ row.input = r.input /\ row.intent = r.intent
      BY <2>4, Numbers DEF Row, Phases
    <2>6. rows' = [rows EXCEPT ![new] = row]
      BY <1>2 DEF Create
    <2> HIDE DEF row, new
    <2>7. rows' \in [Tasks -> Row \cup {None}] /\ rows'[new] = row
          /\ \A t \in Tasks : t # new => rows'[t] = rows[t]
      BY <2>3, <2>5, <2>6 DEF TypeOK
    <2>8. Made' = Made \cup {new}
      BY <2>3, <2>5, <2>7, Numbers DEF Made
    <2>9. Made' = 1..(n + 1)
      BY <2>1, <2>3, <2>8
    <2>10. \A t \in Made : t \in Tasks /\ t # new /\ rows'[t] = rows[t]
      BY <2>3, <2>7, Rows
    <2>11. OneForKey'
      <3>1. \A t \in Made : rows[t].key # r.key
        BY <1>2 DEF Existing
      <3> QED BY <2>5, <2>7, <2>8, <2>10, <3>1 DEF OneForKey
    <2>12. \A t \in Made : /\ rows[t].ver \in Nat /\ rows[t].stamp \in Nat
                           /\ rows[t].ver <= updates /\ rows[t].stamp <= updates
      BY Rows DEF InTime, Row, Stamps
    <2>13. Onward
      <3>1. \A t \in Made : /\ rows'[t].ver >= rows[t].ver /\ rows'[t].stamp >= rows[t].stamp
                            /\ rows[t].back => rows'[t].back
                            /\ rows'[t].ver <= updates' /\ rows'[t].stamp <= updates'
        BY <2>4, <2>10, <2>12 DEF Stamps
      <3>2. rows'[new].ver <= updates' /\ rows'[new].stamp <= updates'
        BY <2>4, <2>5, <2>7 DEF Stamps
      <3> QED BY <2>4, <2>8, <3>1, <3>2 DEF Onward, InTime
    <2>14. Created(r)
      BY <2>5, <2>7, <2>8, <2>10 DEF Created
    <2>15. Numbered'
      BY <2>3, <2>9 DEF Numbered
    <2> QED BY <2>4, <2>7, <2>11, <2>13, <2>14, <2>15 DEF ServerTypes
  <1> QED BY <1>1, <1>2 DEF Create

LEMMA Telling ==
    ASSUME TypeOK, InTime, NEW t \in Made, NEW verb, Told(t, verb)
    PROVE  ServerTypes' /\ Onward /\ SamePurchases
  <1>1. /\ "waiting" \in Phases /\ "leaving" \in Phases /\ "stopping" \in Phases
    BY DEF Phases
  <1> QED BY <1>1, Becoming, Standing DEF Told

LEMMA Advancing ==
    ASSUME TypeOK, InTime, NEW t \in Made, Advance(t)
    PROVE  ServerTypes' /\ Onward /\ SamePurchases
  <1>1. "active" \in Phases /\ "over" \in Phases
        /\ {"stopping", "stopped", "doubtful"} \subseteq Phases
    BY DEF Phases
  <1> QED BY <1>1, Becoming DEF Advance
-----------------------------------------------------------------------------
(* What a step leaves of the views and of the purchases *)

\* What is seen after a step was seen before it, or is the row as it is now.
SeenFrom ==
    \A t \in Tasks : \A b \in Seen(t)' :
        \/ \E a \in Seen(t) : b.ver = a.ver /\ b.stamp = a.stamp
        \/ t \in Made' /\ b.ver = rows'[t].ver /\ b.stamp = rows'[t].stamp
\* A key is for what it was for.
UsesKept == \A k, n \in Keys : \A i \in Inputs : IsUse(k, i, n)' => IsUse(k, i, n)
Counting == keys <= keys' /\ presses <= presses' /\ keys' <= presses' /\ intent' <= presses'

LEMMA SeenTypes ==
    ASSUME TypeOK, NEW t \in Tasks, NEW a \in Seen(t)
    PROVE  a \in View /\ a.ver \in Nat /\ a.stamp \in Nat
  <1>1. /\ shown[t] \in View \cup {None} /\ list.page[t] \in View \cup {None}
        /\ list.loaded[t] \in View \cup {None}
    BY DEF TypeOK, Views
  <1>2. creating # None => creating.view[t] \in View \cup {None}
    BY DEF TypeOK, Views
  <1>3. \A u \in Tasks : acting[u] # None => acting[u].view[t] \in View \cup {None}
    BY DEF TypeOK, Views
  <1>4. a \in View
    BY <1>1, <1>2, <1>3 DEF Seen, SeenBy
  <1> QED BY <1>4 DEF View, Stamps

LEMMA Looking ==
    ASSUME TypeOK, TypeOK', InTime, Past, InOrder, Onward, SeenFrom
    PROVE  Past' /\ InOrder'
  <1> DEFINE Old(t, b) == \E a \in Seen(t) : b.ver = a.ver /\ b.stamp = a.stamp
  <1> DEFINE Now(t, b) == t \in Made' /\ b.ver = rows'[t].ver /\ b.stamp = rows'[t].stamp
  <1>1. \A t \in Made : /\ rows[t].ver \in Nat /\ rows[t].stamp \in Nat /\ t \in Made'
                        /\ rows'[t].ver \in Nat /\ rows'[t].stamp \in Nat
    <2>1. \A t \in Made : rows[t] \in Row /\ t \in Made'
      BY Rows DEF Onward
    <2>2. \A t \in Made' : rows'[t] \in Row
      BY DEF TypeOK, Made
    <2> QED BY <2>1, <2>2 DEF Row, Stamps
  <1>2. \A t \in Made' : rows'[t].ver \in Nat /\ rows'[t].stamp \in Nat
    BY DEF TypeOK, Made, Row, Stamps
  <1>3. ASSUME NEW t \in Tasks, NEW b \in Seen(t)', Old(t, b)
        PROVE  t \in Made' /\ b.ver <= rows'[t].ver /\ (b.stamp <= rows'[t].stamp \/ rows'[t].back)
    <2>1. PICK a \in Seen(t) : b.ver = a.ver /\ b.stamp = a.stamp
      BY <1>3
    <2>2. a.ver \in Nat /\ a.stamp \in Nat
      BY SeenTypes
    <2>3. t \in Made /\ a.ver <= rows[t].ver /\ (a.stamp <= rows[t].stamp \/ rows[t].back)
      BY DEF Past
    <2>4. /\ rows'[t].ver >= rows[t].ver /\ (rows'[t].stamp >= rows[t].stamp \/ rows'[t].back)
          /\ (rows[t].back => rows'[t].back)
      BY <2>3 DEF Onward
    <2>5. b.ver <= rows'[t].ver
      BY <1>1, <2>1, <2>2, <2>3, <2>4
    <2>6. (rows'[t].stamp >= rows[t].stamp /\ a.stamp <= rows[t].stamp) => b.stamp <= rows'[t].stamp
      BY <1>1, <2>1, <2>2, <2>3
    <2> QED BY <1>1, <2>3, <2>4, <2>5, <2>6
  <1>4. Past'
    <2>1. ASSUME NEW t \in Tasks, NEW b \in Seen(t)'
          PROVE  t \in Made' /\ b.ver <= rows'[t].ver /\ (b.stamp <= rows'[t].stamp \/ rows'[t].back)
      <3>1. CASE Old(t, b)
        BY <1>3, <3>1
      <3>2. CASE Now(t, b)
        BY <1>2, <3>2
      <3> QED BY <3>1, <3>2 DEF SeenFrom
    <2> QED BY <2>1 DEF Past
  <1>5. ASSUME NEW t \in Tasks, NEW b \in Seen(t)', NEW c \in Seen(t)', b.ver < c.ver
        PROVE  b.stamp <= c.stamp \/ rows'[t].back
    <2>1. /\ t \in Made' /\ b.ver <= rows'[t].ver /\ (b.stamp <= rows'[t].stamp \/ rows'[t].back)
          /\ c.ver <= rows'[t].ver
      BY <1>4 DEF Past
    <2>2. rows'[t].ver \in Nat /\ rows'[t].stamp \in Nat
      BY <1>2, <2>1
    <2>3. CASE Now(t, c)
      BY <2>1, <2>3
    <2>4. CASE Old(t, c) /\ Now(t, b)
      <3>1. PICK a \in Seen(t) : c.ver = a.ver /\ c.stamp = a.stamp
        BY <2>4
      <3>2. c.ver \in Nat
        BY <3>1, SeenTypes
      <3>3. b.ver = rows'[t].ver
        BY <2>4
      <3>4. FALSE
        BY <1>5, <2>1, <2>2, <3>2, <3>3
      <3> QED BY <3>4
    <2>5. CASE Old(t, c) /\ Old(t, b)
      <3>1. PICK a \in Seen(t) : c.ver = a.ver /\ c.stamp = a.stamp
        BY <2>5
      <3>2. PICK d \in Seen(t) : b.ver = d.ver /\ b.stamp = d.stamp
        BY <2>5
      <3>3. d.stamp <= a.stamp \/ rows[t].back
        BY <1>5, <3>1, <3>2 DEF InOrder
      <3>4. rows[t].back => rows'[t].back
        BY DEF Onward, Past
      <3> QED BY <3>1, <3>2, <3>3, <3>4
    <2> QED BY <2>3, <2>4, <2>5 DEF SeenFrom
  <1>6. InOrder'
    BY <1>5 DEF InOrder
  <1> QED BY <1>4, <1>6

LEMMA Together ==
    ASSUME PageInv, TypeOK', Numbered', OneForKey', Onward, SeenFrom, UsesKept, Counting, Pressed'
    PROVE  PageInv'
  <1>1. Past' /\ InOrder'
    BY Looking DEF PageInv
  <1>2. InTime'
    BY DEF Onward, Counting, InTime
  <1>3. Linked'
    BY DEF PageInv, Linked, UsesKept
  <1>4. Issued'
    <2>1. keys \in Nat /\ presses \in Nat /\ keys' \in Nat /\ presses' \in Nat
      BY Numbers DEF PageInv, TypeOK
    <2>2. ASSUME NEW k \in Keys, NEW n \in Keys, NEW i \in Inputs, IsUse(k, i, n)'
          PROVE  k <= keys' /\ n <= presses'
      <3>1. k <= keys /\ n <= presses
        BY <2>2 DEF UsesKept, PageInv, Issued
      <3>2. k \in Nat /\ n \in Nat
        BY DEF Keys
      <3> QED BY <2>1, <3>1, <3>2 DEF Counting
    <2> QED BY <2>2 DEF Issued
  <1> QED BY <1>1, <1>2, <1>3, <1>4 DEF PageInv
-----------------------------------------------------------------------------
(* Every step *)

LEMMA UsesStay ==
    ASSUME \A t \in Made' :
               \/ /\ t \in Made /\ rows'[t].key = rows[t].key /\ rows'[t].input = rows[t].input
                  /\ rows'[t].intent = rows[t].intent
               \/ IsUse(rows'[t].key, rows'[t].input, rows'[t].intent),
           creating' # None => /\ creating # None /\ creating'.key = creating.key
                               /\ creating'.input = creating.input
                               /\ creating'.intent = creating.intent,
           \A r \in stray' : \/ r \in stray
                             \/ /\ creating # None /\ r.key = creating.key
                                /\ r.input = creating.input /\ r.intent = creating.intent,
           pending' # None => pending' = pending /\ intent' = intent
    PROVE  UsesKept
  <1>1. ASSUME NEW k \in Keys, NEW n \in Keys, NEW i \in Inputs, IsUse(k, i, n)'
        PROVE  IsUse(k, i, n)
    <2>1. CASE \E t \in Made' : rows'[t].key = k /\ rows'[t].input = i /\ rows'[t].intent = n
      BY <2>1 DEF IsUse
    <2>2. CASE creating' # None /\ creating'.key = k /\ creating'.input = i /\ creating'.intent = n
      BY <2>2 DEF IsUse
    <2>3. CASE \E r \in stray' : r.key = k /\ r.input = i /\ r.intent = n
      BY <2>3 DEF IsUse
    <2>4. CASE pending' # None /\ pending'.key = k /\ pending'.input = i /\ intent' = n
      BY <2>4 DEF IsUse
    <2> QED BY <1>1, <2>1, <2>2, <2>3, <2>4 DEF IsUse
  <1> QED BY <1>1 DEF UsesKept

LEMMA ServerStep ==
    ASSUME PageInv, ServerTypes', Onward, SamePurchases,
           UNCHANGED <<shown, buyVars, acting, listVars, actions, faults>>
    PROVE  PageInv'
  <1>0. /\ shown' = shown /\ pending' = pending /\ keys' = keys /\ intent' = intent
        /\ creating' = creating /\ stray' = stray /\ presses' = presses /\ acting' = acting
        /\ list' = list /\ begun' = begun /\ actions' = actions /\ faults' = faults
    BY DEF buyVars, listVars
  <1>1. TypeOK'
    BY <1>0 DEF PageInv, TypeOK, ServerTypes
  <1>2. SeenFrom
    BY <1>0 DEF SeenFrom, Seen, SeenBy
  <1>3. UsesKept
    BY <1>0, UsesStay DEF SamePurchases
  <1>4. Pressed' /\ Counting
    <2>1. keys \in Nat /\ presses \in Nat
      BY Numbers DEF PageInv, TypeOK
    <2> QED BY <1>0, <2>1 DEF PageInv, Pressed, Counting, InTime, SamePurchases
  <1> QED BY <1>1, <1>2, <1>3, <1>4, Keeping, Together DEF PageInv

LEMMA WorkStep ==
    ASSUME PageInv, Work
    PROVE  PageInv'
  <1>1. PICK t \in Made : Advance(t) \/ Message(t)
    BY DEF Work
  <1>2. ServerTypes' /\ Onward /\ SamePurchases
    BY <1>1, Advancing, Messaging DEF PageInv
  <1> QED BY <1>2, ServerStep DEF Work

LEMMA ServeCreateStep ==
    ASSUME PageInv, ServeCreate
    PROVE  PageInv'
  <1>0. /\ shown' = shown /\ pending' = pending /\ keys' = keys /\ intent' = intent
        /\ stray' = stray /\ presses' = presses /\ acting' = acting
        /\ list' = list /\ begun' = begun /\ actions' = actions /\ faults' = faults
        /\ creating # None
    BY DEF ServeCreate, listVars
  <1>1. /\ creating \in [input : Inputs, key : Keys, intent : Keys,
                          at : {"sent", "answered", "refused"}, view : Views]
        /\ TypeOK /\ InTime /\ Numbered /\ OneForKey /\ Pressed
    BY <1>0 DEF PageInv, TypeOK
  <1>2. Counting
    <2>1. keys \in Nat /\ presses \in Nat
      BY <1>1, Numbers DEF TypeOK
    <2> QED BY <1>0, <1>1, <2>1 DEF Counting, InTime
  <1>3. CASE creating' = [creating EXCEPT !.at = "refused"] /\ UNCHANGED serverVars
    <2>1. ServerTypes' /\ Onward /\ SamePurchases
      BY <1>1, <1>3, Standing
    <2>2. /\ creating' \in [input : Inputs, key : Keys, intent : Keys,
                             at : {"sent", "answered", "refused"}, view : Views]
          /\ creating'.view = creating.view /\ creating'.key = creating.key
          /\ creating'.input = creating.input /\ creating'.intent = creating.intent
      BY <1>1, <1>3
    <2>3. TypeOK'
      BY <1>0, <1>1, <2>1, <2>2 DEF TypeOK, ServerTypes
    <2>4. SeenFrom
      BY <1>0, <2>2 DEF SeenFrom, Seen, SeenBy
    <2>5. UsesKept
      BY <1>0, <2>1, <2>2, UsesStay DEF SamePurchases
    <2>6. Pressed'
      BY <1>0, <1>1, <2>1 DEF Pressed, SamePurchases
    <2> QED BY <1>1, <1>2, <2>1, <2>3, <2>4, <2>5, <2>6, Keeping, Together
  <1>4. CASE /\ Create(creating)
             /\ creating' = [creating EXCEPT !.at = "answered", !.view =
                   [t \in Tasks |-> IF rows'[t] # None /\ rows'[t].key = creating.key
                                      THEN ViewOf(rows'[t]) ELSE None]]
    <2> DEFINE view == [t \in Tasks |-> IF rows'[t] # None /\ rows'[t].key = creating.key
                                         THEN ViewOf(rows'[t]) ELSE None]
    <2>1. ServerTypes' /\ Onward /\ Numbered' /\ OneForKey' /\ Created(creating)
      BY <1>1, <1>4, Creating
    <2>2. ASSUME NEW t \in Tasks, view[t] # None
          PROVE  /\ t \in Made' /\ view[t] \in View /\ view[t].ver = rows'[t].ver
                 /\ view[t].stamp = rows'[t].stamp
      <3>1. rows'[t] \in Row /\ view[t] = ViewOf(rows'[t]) /\ t \in Made'
        BY <2>1, <2>2 DEF ServerTypes, Made
      <3> HIDE DEF view
      <3> QED BY <3>1, ViewsOf
    <2>3. view \in Views
      BY <2>2 DEF Views
    <2>4. creating' = [creating EXCEPT !.at = "answered", !.view = view]
      BY <1>4
    <2> HIDE DEF view
    <2>5. /\ creating' \in [input : Inputs, key : Keys, intent : Keys,
                             at : {"sent", "answered", "refused"}, view : Views]
          /\ creating'.view = view /\ creating'.key = creating.key
          /\ creating'.input = creating.input /\ creating'.intent = creating.intent
      BY <1>1, <2>3, <2>4
    <2>6. TypeOK'
      BY <1>0, <1>1, <2>1, <2>5 DEF TypeOK, ServerTypes
    <2>7. SeenFrom
      <3>1. ASSUME NEW t \in Tasks, NEW b \in Seen(t)'
            PROVE  b \in Seen(t) \/ (b = view[t] /\ view[t] # None)
        <4>1. b # None /\ \/ b \in {shown'[t], list'.page[t], list'.loaded[t]}
                          \/ b = creating'.view[t]
                          \/ b \in {acting'[u].view[t] : u \in {u \in Tasks : acting'[u] # None}}
          BY DEF Seen, SeenBy
        <4> QED BY <1>0, <2>5, <4>1 DEF Seen, SeenBy
      <3> QED BY <2>2, <3>1 DEF SeenFrom
    <2>8. UsesKept
      <3>1. ASSUME NEW t \in Made'
            PROVE \/ /\ t \in Made /\ rows'[t].key = rows[t].key /\ rows'[t].input = rows[t].input
                     /\ rows'[t].intent = rows[t].intent
                  \/ IsUse(rows'[t].key, rows'[t].input, rows'[t].intent)
        BY <1>0, <2>1 DEF Created, IsUse
      <3> QED BY <1>0, <2>5, <3>1, UsesStay
    <2>9. Pressed'
      BY <1>0, <1>1, <2>1 DEF Pressed, Onward
    <2> QED BY <1>1, <1>2, <2>1, <2>6, <2>7, <2>8, <2>9, Together
  <1> QED BY <1>3, <1>4 DEF ServeCreate

LEMMA ServeStrayStep ==
    ASSUME PageInv, NEW r \in stray, ServeStray(r)
    PROVE  PageInv'
  <1>0. /\ shown' = shown /\ pending' = pending /\ keys' = keys /\ intent' = intent
        /\ stray' = stray \ {r} /\ presses' = presses /\ acting' = acting
        /\ list' = list /\ begun' = begun /\ actions' = actions /\ faults' = faults
        /\ creating' = creating
    BY DEF ServeStray, listVars
  <1>1. /\ r \in [input : Inputs, key : Keys, intent : Keys]
        /\ TypeOK /\ InTime /\ Numbered /\ OneForKey /\ Pressed
    BY DEF PageInv, TypeOK
  <1>2. Counting
    <2>1. keys \in Nat /\ presses \in Nat
      BY <1>1, Numbers DEF TypeOK
    <2> QED BY <1>0, <1>1, <2>1 DEF Counting, InTime
  <1>3. ServerTypes' /\ Onward /\ Numbered' /\ OneForKey' /\ Created(r)
    <2>1. Create(r) /\ r.key \in Keys /\ r.input \in Inputs /\ r.intent \in Keys
      BY <1>1 DEF ServeStray
    <2> QED BY <1>1, <2>1, Creating
  <1>4. TypeOK'
    BY <1>0, <1>1, <1>3 DEF TypeOK, ServerTypes
  <1>5. SeenFrom
    BY <1>0 DEF SeenFrom, Seen, SeenBy
  <1>6. UsesKept
    <2>1. ASSUME NEW t \in Made'
          PROVE \/ /\ t \in Made /\ rows'[t].key = rows[t].key /\ rows'[t].input = rows[t].input
                   /\ rows'[t].intent = rows[t].intent
                \/ IsUse(rows'[t].key, rows'[t].input, rows'[t].intent)
      BY <1>3 DEF Created, IsUse
    <2> QED BY <1>0, <2>1, UsesStay
  <1>7. Pressed'
    BY <1>0, <1>1, <1>3 DEF Pressed, Onward
  <1> QED BY <1>1, <1>2, <1>3, <1>4, <1>5, <1>6, <1>7, Together

\* The page's steps leave the server alone.
LEMMA PageStep ==
    ASSUME PageInv, UNCHANGED serverVars, TypeOK', SeenFrom, UsesKept, Counting, Pressed'
    PROVE  PageInv'
  <1>1. TypeOK /\ InTime /\ Numbered /\ OneForKey
    BY DEF PageInv
  <1>2. Onward /\ SamePurchases
    BY <1>1, Standing
  <1> QED BY <1>1, <1>2, Keeping, Together

\* Steps that buy nothing and answer no purchase.
LEMMA NoPurchase ==
    ASSUME PageInv, UNCHANGED serverVars, UNCHANGED buyVars,
           \A t \in Tasks : acting'[t] # None => t \in Made
    PROVE  UsesKept /\ Counting /\ Pressed' /\ rows' = rows /\ Made' = Made
  <1>1. /\ rows' = rows /\ Made' = Made /\ pending' = pending /\ keys' = keys
        /\ intent' = intent /\ creating' = creating /\ stray' = stray /\ presses' = presses
    BY DEF serverVars, buyVars, Made
  <1>2. UsesKept
    BY <1>1, UsesStay
  <1>3. keys \in Nat /\ presses \in Nat
    BY Numbers DEF PageInv, TypeOK
  <1> QED BY <1>1, <1>2, <1>3 DEF PageInv, Pressed, Counting, InTime

\* A view of the task's that is seen, but for its messages.
FromSeen(t, x) ==
    /\ x \in View \cup {None}
    /\ x # None => \E a \in Seen(t) : x.ver = a.ver /\ x.stamp = a.stamp

LEMMA WhatIsSeen ==
    ASSUME TypeOK, NEW t \in Tasks
    PROVE  /\ FromSeen(t, None) /\ FromSeen(t, shown[t])
           /\ FromSeen(t, list.page[t]) /\ FromSeen(t, list.loaded[t])
           /\ creating # None => FromSeen(t, creating.view[t])
           /\ \A u \in Tasks : acting[u] # None => FromSeen(t, acting[u].view[t])
  <1>1. /\ shown[t] \in View \cup {None} /\ list.page[t] \in View \cup {None}
        /\ list.loaded[t] \in View \cup {None}
        /\ creating # None => creating.view[t] \in View \cup {None}
        /\ \A u \in Tasks : acting[u] # None => acting[u].view[t] \in View \cup {None}
    BY DEF TypeOK, Views
  <1>2. \A x \in SeenBy(t) : x \in View \cup {None} => FromSeen(t, x)
    BY DEF FromSeen, Seen
  <1>3. FromSeen(t, None)
    BY DEF FromSeen
  <1> QED BY <1>1, <1>2, <1>3 DEF SeenBy

LEMMA MergingSeen ==
    ASSUME NEW t, NEW x, NEW y, FromSeen(t, x), FromSeen(t, y)
    PROVE  FromSeen(t, MergeTask(x, y))
  <1>1. x \in View \cup {None} /\ y \in View \cup {None}
    BY DEF FromSeen
  <1>2. /\ MergeTask(x, y) \in View \cup {None}
        /\ MergeTask(x, y) # None =>
              \E z \in {x, y} \ {None} : /\ MergeTask(x, y).ver = z.ver
                                         /\ MergeTask(x, y).stamp = z.stamp
    BY <1>1, Merging
  <1> DEFINE m == MergeTask(x, y)
  <1> HIDE DEF m
  <1>3. /\ m \in View \cup {None}
        /\ m # None => \E z \in {x, y} \ {None} : m.ver = z.ver /\ m.stamp = z.stamp
    BY <1>2 DEF m
  <1>4. FromSeen(t, m)
    BY <1>3 DEF FromSeen
  <1> QED BY <1>4 DEF m

\* Everything seen after a step was seen before it.
LEMMA AllFromSeen ==
    ASSUME ASSUME NEW t \in Tasks, NEW b \in SeenBy(t)' PROVE FromSeen(t, b)
    PROVE  SeenFrom
  BY DEF SeenFrom, Seen, FromSeen

Requests == [verb : {"start", "stop"}, view : Views, at : {"sent", "answered", "refused"}]

LEMMA ServeActionStep ==
    ASSUME PageInv, NEW t \in Tasks, ServeAction(t)
    PROVE  PageInv'
  <1>0. /\ shown' = shown /\ pending' = pending /\ keys' = keys /\ intent' = intent
        /\ stray' = stray /\ presses' = presses /\ creating' = creating
        /\ list' = list /\ begun' = begun /\ actions' = actions /\ faults' = faults
        /\ acting[t] # None
    BY DEF ServeAction, listVars, buyVars
  <1>1. /\ TypeOK /\ InTime /\ Numbered /\ OneForKey /\ Pressed /\ t \in Made
        /\ acting \in [Tasks -> {None} \cup Requests] /\ acting[t] \in Requests
    BY <1>0 DEF PageInv, TypeOK, Pressed, Requests
  <1>2. Counting
    <2>1. keys \in Nat /\ presses \in Nat
      BY <1>1, Numbers DEF TypeOK
    <2> QED BY <1>0, <1>1, <2>1 DEF Counting, InTime
  <1>3. CASE /\ Told(t, acting[t].verb)
             /\ acting' = [acting EXCEPT ![t].at = "answered",
                                         ![t].view = Only(t, ViewOf(rows'[t]))]
    <2> DEFINE v == ViewOf(rows'[t])
    <2> DEFINE w == Only(t, v)
    <2> DEFINE request == [acting[t] EXCEPT !.at = "answered", !.view = w]
    <2>1. ServerTypes' /\ Onward /\ SamePurchases
      BY <1>1, <1>3, Telling
    <2>2. t \in Made' /\ v \in View /\ v.ver = rows'[t].ver /\ v.stamp = rows'[t].stamp
      <3>1. rows'[t] \in Row /\ t \in Made'
        BY <1>1, <2>1 DEF ServerTypes, SamePurchases, Made
      <3> QED BY <3>1, ViewsOf
    <2>3. acting' = [acting EXCEPT ![t] = request]
      BY <1>1, <1>3
    <2> HIDE DEF v
    <2>4. w \in Views /\ \A u \in Tasks : w[u] \in {v, None} /\ (w[u] # None => u = t)
      BY <2>2 DEF Views, Only, Nothing
    <2> HIDE DEF w
    <2>5. request \in Requests /\ request.view = w
      BY <1>1, <2>4 DEF Requests
    <2> HIDE DEF request
    <2>6. /\ acting' \in [Tasks -> {None} \cup Requests] /\ acting'[t] = request
          /\ \A u \in Tasks : u # t => acting'[u] = acting[u]
      BY <1>1, <2>3, <2>5
    <2>7. TypeOK'
      BY <1>0, <1>1, <2>1, <2>6 DEF TypeOK, ServerTypes, Requests
    <2>8. SeenFrom
      <3>1. ASSUME NEW u \in Tasks, NEW b \in Seen(u)'
            PROVE  b \in Seen(u) \/ (b = w[u] /\ w[u] # None)
        <4>1. b # None /\ \/ b \in SeenBy(u)
                          \/ \E s \in Tasks : acting'[s] # None /\ b = acting'[s].view[u]
          BY <1>0 DEF Seen, SeenBy
        <4>2. CASE \E s \in Tasks : acting'[s] # None /\ b = acting'[s].view[u]
          <5>1. PICK s \in Tasks : acting'[s] # None /\ b = acting'[s].view[u]
            BY <4>2
          <5>2. CASE s = t
            <6>1. acting'[s] = request
              BY <2>6, <5>2
            <6>2. b = w[u]
              BY <2>5, <5>1, <6>1
            <6>3. b # None
              BY <4>1
            <6> QED BY <6>2, <6>3
          <5>3. CASE s # t
            BY <2>6, <4>1, <5>1, <5>3 DEF Seen, SeenBy
          <5> QED BY <5>2, <5>3
        <4> QED BY <4>1, <4>2 DEF Seen
      <3> QED BY <2>2, <2>4, <3>1 DEF SeenFrom
    <2>9. UsesKept
      BY <1>0, <2>1, UsesStay DEF SamePurchases
    <2>10. Pressed'
      BY <1>0, <1>1, <2>1, <2>6 DEF Pressed, SamePurchases
    <2> QED BY <1>1, <1>2, <2>1, <2>7, <2>8, <2>9, <2>10, Keeping, Together
  <1>4. CASE acting' = [acting EXCEPT ![t].at = "refused"] /\ UNCHANGED serverVars
    <2> DEFINE request == [acting[t] EXCEPT !.at = "refused"]
    <2>1. acting' = [acting EXCEPT ![t] = request]
      BY <1>1, <1>4
    <2>2. request \in Requests /\ request.view = acting[t].view
      BY <1>1 DEF Requests
    <2> HIDE DEF request
    <2>3. /\ acting' \in [Tasks -> {None} \cup Requests] /\ acting'[t] = request
          /\ \A u \in Tasks : u # t => acting'[u] = acting[u]
      BY <1>1, <2>1, <2>2
    <2>4. TypeOK'
      BY <1>0, <1>1, <1>4, <2>3 DEF TypeOK, serverVars, Requests
    <2>5. SeenFrom
      <3>1. ASSUME NEW u \in Tasks, NEW b \in SeenBy(u)' PROVE b \in SeenBy(u)
        <4>1. b \in SeenBy(u) \/ \E s \in Tasks : acting'[s] # None /\ b = acting'[s].view[u]
          BY <1>0 DEF SeenBy
        <4>2. CASE \E s \in Tasks : acting'[s] # None /\ b = acting'[s].view[u]
          <5>1. PICK s \in Tasks : acting'[s] # None /\ b = acting'[s].view[u]
            BY <4>2
          <5>2. acting[s] # None /\ acting'[s].view = acting[s].view
            BY <1>0, <2>2, <2>3, <5>1
          <5> QED BY <5>1, <5>2 DEF SeenBy
        <4> QED BY <4>1, <4>2
      <3> QED BY <3>1 DEF SeenFrom, Seen
    <2>6. UsesKept
      BY <1>0, <1>4, UsesStay DEF serverVars, Made
    <2>7. Pressed'
      BY <1>0, <1>1, <1>4, <2>3 DEF Pressed, serverVars, Made
    <2> QED BY <1>2, <1>4, <2>4, <2>5, <2>6, <2>7, PageStep
  <1> QED BY <1>3, <1>4 DEF ServeAction

ListType == [at : {"idle", "sent", "rows", "answered"}, cursor : 0..MaxTasks,
             next : 0..MaxTasks, page : Views, loaded : Views]

\* A step of the list alone, to views that were seen or are rows as they are.
LEMMA ListStep ==
    ASSUME PageInv, UNCHANGED <<serverVars, buyVars, acting>>,
           shown' \in Views, list' \in ListType, begun' \in [Tasks -> 0..MaxUpdates],
           actions' \in 0..MaxActions, faults' \in 0..MaxFaults,
           ASSUME NEW t \in Tasks, NEW b \in {shown'[t], list'.page[t], list'.loaded[t]}
           PROVE  FromSeen(t, b) \/ (t \in Made /\ b.ver = rows[t].ver /\ b.stamp = rows[t].stamp)
    PROVE  PageInv'
  <1>1. /\ pending' = pending /\ keys' = keys /\ acting' = acting
        /\ intent' = intent /\ creating' = creating /\ stray' = stray /\ presses' = presses
        /\ rows' = rows /\ updates' = updates
        /\ UNCHANGED serverVars /\ UNCHANGED buyVars
    BY DEF serverVars, buyVars
  <1>2. UsesKept /\ Counting /\ Pressed' /\ Made' = Made
    <2>1. \A t \in Tasks : acting'[t] # None => t \in Made
      BY <1>1 DEF PageInv, Pressed
    <2> QED BY <1>1, <2>1, NoPurchase
  <1>3. TypeOK'
    BY <1>1 DEF PageInv, TypeOK, ListType
  <1>4. SeenFrom
    <2>1. ASSUME NEW t \in Tasks, NEW b \in Seen(t)'
          PROVE  b \in {shown'[t], list'.page[t], list'.loaded[t]} \/ b \in Seen(t)
      BY <1>1 DEF Seen, SeenBy
    <2>2. \A t \in Tasks : \A b : FromSeen(t, b) /\ b # None =>
             \E a \in Seen(t) : b.ver = a.ver /\ b.stamp = a.stamp
      BY DEF FromSeen
    <2>3. ASSUME NEW t \in Tasks, NEW b \in Seen(t)' PROVE b # None
      BY DEF Seen
    <2> QED BY <1>1, <1>2, <2>1, <2>2, <2>3 DEF SeenFrom
  <1> QED BY <1>1, <1>2, <1>3, <1>4, PageStep

LEMMA ServeRowsStep ==
    ASSUME PageInv, ServeRows
    PROVE  PageInv'
  <1> DEFINE newest == Cardinality(Made) - list.cursor
  <1> DEFINE page == {t \in Made : t <= newest /\ t + PageSize > newest}
  <1> DEFINE views == [t \in Tasks |-> IF t \in page THEN ViewOf(rows[t]) ELSE None]
  <1> DEFINE next == IF Cardinality(page) = PageSize /\ NextCursor(list.cursor) <= MaxTasks
                       THEN NextCursor(list.cursor) ELSE 0
  <1>1. /\ UNCHANGED <<serverVars, shown, buyVars, acting, begun, actions, faults>>
        /\ list' = [list EXCEPT !.at = "rows", !.page = views, !.next = next]
    BY DEF ServeRows
  <1>2. TypeOK /\ list \in ListType /\ shown \in Views /\ begun \in [Tasks -> 0..MaxUpdates]
        /\ actions \in 0..MaxActions /\ faults \in 0..MaxFaults
    BY DEF PageInv, TypeOK, ListType
  <1>3. next \in 0..MaxTasks
    BY <1>2, Numbers DEF ListType, NextCursor
  <1>4. page \subseteq Made
    OBVIOUS
  <1> HIDE DEF page, next
  <1>5. ASSUME NEW t \in Tasks
        PROVE  /\ views[t] \in View \cup {None}
               /\ views[t] # None => t \in Made /\ views[t].ver = rows[t].ver
                                    /\ views[t].stamp = rows[t].stamp
    <2>1. CASE t \in page
      <3>1. t \in Made /\ rows[t] \in Row /\ views[t] = ViewOf(rows[t])
        BY <1>2, <1>4, <2>1, Rows
      <3> HIDE DEF views
      <3> QED BY <3>1, ViewsOf
    <2>2. CASE t \notin page
      BY <2>2
    <2> QED BY <2>1, <2>2
  <1>6. views \in Views
    BY <1>5 DEF Views
  <1> HIDE DEF views
  <1>7. list' \in ListType /\ list'.page = views /\ list'.loaded = list.loaded
    BY <1>1, <1>2, <1>3, <1>6 DEF ListType
  <1>8. ASSUME NEW t \in Tasks, NEW b \in {shown'[t], list'.page[t], list'.loaded[t]}
        PROVE  FromSeen(t, b) \/ (t \in Made /\ b.ver = rows[t].ver /\ b.stamp = rows[t].stamp)
    BY <1>1, <1>2, <1>5, <1>7, WhatIsSeen DEF FromSeen
  <1> QED BY <1>1, <1>2, <1>7, <1>8, ListStep

LEMMA ServeMessagesStep ==
    ASSUME PageInv, ServeMessages
    PROVE  PageInv'
  <1> DEFINE WithMessages(t) == [list.page[t] EXCEPT !.messages = rows[t].messages]
  <1> DEFINE views == [t \in Tasks |-> IF list.page[t] = None THEN None ELSE WithMessages(t)]
  <1>1. /\ UNCHANGED <<serverVars, shown, buyVars, acting, begun, actions, faults>>
        /\ list' = [list EXCEPT !.at = "answered", !.page = views]
    BY DEF ServeMessages
  <1>2. TypeOK /\ list \in ListType /\ shown \in Views /\ begun \in [Tasks -> 0..MaxUpdates]
        /\ actions \in 0..MaxActions /\ faults \in 0..MaxFaults
    BY DEF PageInv, TypeOK, ListType
  <1>3. ASSUME NEW t \in Tasks
        PROVE  FromSeen(t, views[t])
    <2>1. CASE list.page[t] = None
      BY <2>1 DEF FromSeen
    <2>2. CASE list.page[t] # None
      <3>1. list.page[t] \in Seen(t) /\ list.page[t] \in View
        BY <1>2, <2>2 DEF Seen, SeenBy, ListType, Views
      <3>2. t \in Made
        BY <3>1 DEF PageInv, Past
      <3>3. rows[t].messages \in 0..MaxMessages
        BY <1>2, <3>2, Rows DEF Row
      <3> DEFINE p == list.page[t]
      <3> DEFINE m == rows[t].messages
      <3> HIDE DEF p, m
      <3>4. /\ [p EXCEPT !.messages = m] \in View /\ [p EXCEPT !.messages = m].ver = p.ver
            /\ [p EXCEPT !.messages = m].stamp = p.stamp
        BY <3>1, <3>3 DEF View, p, m
      <3>5. views[t] = [p EXCEPT !.messages = m]
        BY <2>2 DEF p, m
      <3> HIDE DEF views
      <3> QED BY <3>1, <3>4, <3>5 DEF FromSeen, p
    <2> QED BY <2>1, <2>2
  <1>4. views \in Views
    BY <1>3 DEF Views, FromSeen
  <1> HIDE DEF views
  <1>5. list' \in ListType /\ list'.page = views /\ list'.loaded = list.loaded
    BY <1>1, <1>2, <1>4 DEF ListType
  <1>6. ASSUME NEW t \in Tasks, NEW b \in {shown'[t], list'.page[t], list'.loaded[t]}
        PROVE  FromSeen(t, b)
    BY <1>1, <1>2, <1>3, <1>5, WhatIsSeen
  <1> QED BY <1>1, <1>2, <1>5, <1>6, ListStep

LEMMA NoViews == Nothing \in Views /\ Idle \in ListType /\ NotBegun \in [Tasks -> 0..MaxUpdates]
  BY Numbers DEF Nothing, Views, Idle, ListType, NotBegun

LEMMA PollStep ==
    ASSUME PageInv, Poll
    PROVE  PageInv'
  <1>1. /\ UNCHANGED <<serverVars, shown, buyVars, acting, actions, faults>>
        /\ list' = [Idle EXCEPT !.at = "sent"]
        /\ begun' = [t \in Tasks |-> IF t \in Made THEN rows[t].ver ELSE 0]
    BY DEF Poll
  <1>2. TypeOK /\ shown \in Views /\ actions \in 0..MaxActions /\ faults \in 0..MaxFaults
    BY DEF PageInv, TypeOK
  <1>3. list' \in ListType /\ list'.page = Nothing /\ list'.loaded = Nothing
    BY <1>1, NoViews DEF ListType, Idle
  <1>4. begun' \in [Tasks -> 0..MaxUpdates]
    <2>1. \A t \in Made : rows[t].ver \in 0..MaxUpdates
      BY <1>2, Rows, Numbers DEF Row
    <2> QED BY <1>1, <2>1, Numbers
  <1>5. ASSUME NEW t \in Tasks, NEW b \in {shown'[t], list'.page[t], list'.loaded[t]}
        PROVE  FromSeen(t, b)
    BY <1>1, <1>2, <1>3, WhatIsSeen DEF Nothing
  <1> QED BY <1>1, <1>2, <1>3, <1>4, <1>5, ListStep

LEMMA ListFailsStep ==
    ASSUME PageInv, ListFails
    PROVE  PageInv'
  <1>1. /\ UNCHANGED <<serverVars, shown, buyVars, acting, actions>>
        /\ list' = Idle /\ begun' = NotBegun /\ faults < MaxFaults /\ faults' = faults + 1
    BY DEF ListFails
  <1>2. TypeOK /\ shown \in Views /\ actions \in 0..MaxActions /\ faults \in 0..MaxFaults
    BY DEF PageInv, TypeOK
  <1>3. list' \in ListType /\ list'.page = Nothing /\ list'.loaded = Nothing
        /\ begun' \in [Tasks -> 0..MaxUpdates] /\ faults' \in 0..MaxFaults
    BY <1>1, <1>2, NoViews, Numbers DEF Idle
  <1>4. ASSUME NEW t \in Tasks, NEW b \in {shown'[t], list'.page[t], list'.loaded[t]}
        PROVE  FromSeen(t, b)
    BY <1>1, <1>2, <1>3, WhatIsSeen DEF Nothing
  <1> QED BY <1>1, <1>2, <1>3, <1>4, ListStep

LEMMA ListedStep ==
    ASSUME PageInv, Listed
    PROVE  PageInv'
  <1> DEFINE loaded == Merge(list.loaded, list.page)
  <1>1. /\ UNCHANGED <<serverVars, buyVars, acting, actions, faults>>
        /\ \/ /\ list' = [Idle EXCEPT !.at = "sent", !.cursor = list.next, !.loaded = loaded]
              /\ UNCHANGED <<shown, begun>>
           \/ shown' = Merge(shown, loaded) /\ list' = Idle /\ begun' = NotBegun
    BY DEF Listed
  <1>2. TypeOK /\ list \in ListType /\ shown \in Views /\ begun \in [Tasks -> 0..MaxUpdates]
        /\ actions \in 0..MaxActions /\ faults \in 0..MaxFaults
    BY DEF PageInv, TypeOK, ListType
  <1>3. ASSUME NEW t \in Tasks
        PROVE  FromSeen(t, loaded[t]) /\ FromSeen(t, MergeTask(shown[t], loaded[t]))
    <2>1. loaded[t] = MergeTask(list.loaded[t], list.page[t])
      BY DEF Merge
    <2>2. FromSeen(t, loaded[t])
      BY <1>2, <2>1, WhatIsSeen, MergingSeen
    <2> HIDE DEF loaded
    <2> QED BY <1>2, <2>2, WhatIsSeen, MergingSeen
  <1>4. loaded = [t \in Tasks |-> loaded[t]] /\ loaded \in Views
    BY <1>3 DEF Merge, Views, FromSeen
  <1> HIDE DEF loaded
  <1>5. CASE /\ list' = [Idle EXCEPT !.at = "sent", !.cursor = list.next, !.loaded = loaded]
             /\ UNCHANGED <<shown, begun>>
    <2>1. list' \in ListType /\ list'.page = Nothing /\ list'.loaded = loaded
      BY <1>2, <1>4, <1>5, NoViews DEF ListType, Idle
    <2>2. ASSUME NEW t \in Tasks, NEW b \in {shown'[t], list'.page[t], list'.loaded[t]}
          PROVE  FromSeen(t, b)
      BY <1>2, <1>3, <1>5, <2>1, WhatIsSeen DEF Nothing
    <2> QED BY <1>1, <1>2, <1>5, <2>1, <2>2, ListStep
  <1>6. CASE shown' = Merge(shown, loaded) /\ list' = Idle /\ begun' = NotBegun
    <2>1. shown' \in Views /\ \A t \in Tasks : shown'[t] = MergeTask(shown[t], loaded[t])
      BY <1>3, <1>6 DEF Merge, Views, FromSeen
    <2>2. list' \in ListType /\ list'.page = Nothing /\ list'.loaded = Nothing
          /\ begun' \in [Tasks -> 0..MaxUpdates]
      BY <1>6, NoViews DEF Idle
    <2>3. ASSUME NEW t \in Tasks, NEW b \in {shown'[t], list'.page[t], list'.loaded[t]}
          PROVE  FromSeen(t, b)
      BY <1>2, <1>3, <2>1, <2>2, WhatIsSeen DEF Nothing
    <2> QED BY <1>1, <1>2, <2>1, <2>2, <2>3, ListStep
  <1> QED BY <1>1, <1>5, <1>6

\* A step of the buttons alone.
LEMMA ActingStep ==
    ASSUME PageInv, UNCHANGED <<serverVars, buyVars, listVars>>, shown' \in Views,
           acting' \in [Tasks -> {None} \cup Requests],
           actions' \in 0..MaxActions, faults' \in 0..MaxFaults,
           \A t \in Tasks : acting'[t] # None => t \in Made,
           \A t \in Tasks : FromSeen(t, shown'[t]),
           \A t, u \in Tasks : acting'[u] # None => FromSeen(t, acting'[u].view[t])
    PROVE  PageInv'
  <1>1. /\ pending' = pending /\ keys' = keys /\ list' = list /\ begun' = begun
        /\ intent' = intent /\ creating' = creating /\ stray' = stray /\ presses' = presses
        /\ rows' = rows /\ updates' = updates
        /\ UNCHANGED serverVars /\ UNCHANGED buyVars /\ TypeOK
    BY DEF serverVars, buyVars, listVars, PageInv
  <1>2. UsesKept /\ Counting /\ Pressed' /\ Made' = Made
    BY <1>1, NoPurchase
  <1>3. TypeOK'
    BY <1>1 DEF TypeOK, Requests
  <1>4. ASSUME NEW t \in Tasks, NEW b \in SeenBy(t)' PROVE FromSeen(t, b)
    <2>1. CASE b \in {acting'[u].view[t] : u \in {u \in Tasks : acting'[u] # None}}
      BY <2>1
    <2>2. CASE b \in {shown'[t], list'.page[t], list'.loaded[t]}
      BY <1>1, <2>2, WhatIsSeen
    <2>3. CASE creating # None /\ b = creating.view[t]
      BY <1>1, <2>3, WhatIsSeen
    <2> QED BY <1>1, <1>4, <2>1, <2>2, <2>3 DEF SeenBy
  <1>5. SeenFrom
    BY <1>4, AllFromSeen
  <1> QED BY <1>1, <1>2, <1>3, <1>5, PageStep

LEMMA ClickStep ==
    ASSUME PageInv, NEW t \in Tasks, NEW verb \in {"start", "stop"}, Click(t, verb)
    PROVE  PageInv'
  <1> DEFINE request == [verb |-> verb, at |-> "sent", view |-> Nothing]
  <1>1. /\ UNCHANGED <<serverVars, shown, buyVars, listVars, faults>> /\ shown[t] # None
        /\ actions < MaxActions /\ actions' = actions + 1 /\ acting' = [acting EXCEPT ![t] = request]
    BY DEF Click
  <1>2. /\ TypeOK /\ shown \in Views /\ faults \in 0..MaxFaults /\ actions \in 0..MaxActions
        /\ acting \in [Tasks -> {None} \cup Requests]
    BY DEF PageInv, TypeOK, Requests
  <1>3. request \in Requests /\ request.view = Nothing
    BY NoViews DEF Requests
  <1> HIDE DEF request
  <1>4. /\ acting' \in [Tasks -> {None} \cup Requests] /\ acting'[t] = request
        /\ \A u \in Tasks : u # t => acting'[u] = acting[u]
    BY <1>1, <1>2, <1>3
  <1>5. t \in Made /\ \A u \in Tasks : acting[u] # None => u \in Made
    <2>1. shown[t] \in Seen(t)
      BY <1>1 DEF Seen, SeenBy
    <2> QED BY <2>1 DEF PageInv, Past, Pressed
  <1>6. \A u, v \in Tasks : acting'[v] # None => FromSeen(u, acting'[v].view[u])
    <2>1. \A u \in Tasks : Nothing[u] = None
      BY DEF Nothing
    <2> QED BY <1>2, <1>3, <1>4, <2>1, WhatIsSeen
  <1>7. actions' \in 0..MaxActions
    BY <1>1, <1>2, Numbers
  <1> QED BY <1>1, <1>2, <1>4, <1>5, <1>6, <1>7, WhatIsSeen, ActingStep

LEMMA ActedStep ==
    ASSUME PageInv, NEW t \in Tasks, Acted(t)
    PROVE  PageInv'
  <1>1. /\ UNCHANGED <<serverVars, buyVars, listVars, actions, faults>> /\ acting[t] # None
        /\ acting' = [acting EXCEPT ![t] = None] /\ shown' = Merge(shown, acting[t].view)
    BY DEF Acted
  <1>2. /\ TypeOK /\ faults \in 0..MaxFaults /\ actions \in 0..MaxActions
        /\ acting \in [Tasks -> {None} \cup Requests]
    BY DEF PageInv, TypeOK, Requests
  <1>3. /\ acting' \in [Tasks -> {None} \cup Requests]
        /\ \A u \in Tasks : acting'[u] # None => acting[u] # None /\ acting'[u] = acting[u]
    BY <1>1, <1>2
  <1>4. ASSUME NEW u \in Tasks
        PROVE  FromSeen(u, shown'[u]) /\ shown'[u] = MergeTask(shown[u], acting[t].view[u])
    <2>1. shown'[u] = MergeTask(shown[u], acting[t].view[u])
      BY <1>1 DEF Merge
    <2> QED BY <1>1, <1>2, <2>1, WhatIsSeen, MergingSeen
  <1>5. shown' \in Views
    BY <1>1, <1>4 DEF Merge, Views, FromSeen
  <1>6. \A u \in Tasks : acting'[u] # None => u \in Made
    BY <1>3 DEF PageInv, Pressed
  <1>7. \A u, v \in Tasks : acting'[v] # None => FromSeen(u, acting'[v].view[u])
    BY <1>2, <1>3, WhatIsSeen
  <1> QED BY <1>1, <1>2, <1>3, <1>4, <1>5, <1>6, <1>7, ActingStep

LEMMA ActionFailsStep ==
    ASSUME PageInv, NEW t \in Tasks, ActionFails(t)
    PROVE  PageInv'
  <1>1. /\ UNCHANGED <<serverVars, shown, buyVars, listVars, actions>>
        /\ acting' = [acting EXCEPT ![t] = None] /\ faults < MaxFaults /\ faults' = faults + 1
    BY DEF ActionFails
  <1>2. /\ TypeOK /\ faults \in 0..MaxFaults /\ actions \in 0..MaxActions /\ shown \in Views
        /\ acting \in [Tasks -> {None} \cup Requests]
    BY DEF PageInv, TypeOK, Requests
  <1>3. /\ acting' \in [Tasks -> {None} \cup Requests]
        /\ \A u \in Tasks : acting'[u] # None => acting[u] # None /\ acting'[u] = acting[u]
    BY <1>1, <1>2
  <1>4. \A u \in Tasks : acting'[u] # None => u \in Made
    BY <1>3 DEF PageInv, Pressed
  <1>5. \A u, v \in Tasks : acting'[v] # None => FromSeen(u, acting'[v].view[u])
    BY <1>2, <1>3, WhatIsSeen
  <1>6. faults' \in 0..MaxFaults
    BY <1>1, <1>2, Numbers
  <1>7. \A u \in Tasks : FromSeen(u, shown'[u])
    BY <1>1, <1>2, WhatIsSeen
  <1> QED BY <1>1, <1>2, <1>3, <1>4, <1>5, <1>6, <1>7, ActingStep

BuyRequests == [input : Inputs, key : Keys, intent : Keys,
                at : {"sent", "answered", "refused"}, view : Views]

\* A press asks again for what has no answer, or for something new.
LEMMA PressStep ==
    ASSUME PageInv, NEW input \in Inputs, Press(input)
    PROVE  PageInv'
  <1> DEFINE key == KeyFor(input)
  <1> DEFINE request == [input |-> input, key |-> key, intent |-> intent', at |-> "sent",
                         view |-> Nothing]
  <1> DEFINE wish == [input |-> input, key |-> key]
  <1>1. /\ UNCHANGED <<serverVars, shown, stray, acting, listVars, actions, faults>>
        /\ creating = None /\ presses < MaxPresses /\ presses' = presses + 1
        /\ intent' = (IF pending # None /\ pending.input = input THEN intent ELSE presses')
        /\ pending' = wish
    BY DEF Press
  <1>2. creating' = request /\ keys' = (IF key > keys THEN key ELSE keys)
    BY DEF Press
  <1>3. /\ rows' = rows /\ updates' = updates /\ shown' = shown /\ stray' = stray
        /\ acting' = acting /\ list' = list /\ begun' = begun /\ actions' = actions
        /\ faults' = faults /\ Made' = Made /\ UNCHANGED serverVars
    BY <1>1 DEF serverVars, listVars, Made
  <1>4. /\ TypeOK /\ InTime /\ Numbered /\ OneForKey /\ Past /\ InOrder /\ Pressed
        /\ Linked /\ Issued
    BY DEF PageInv
  <1>5. /\ keys \in Nat /\ presses \in Nat /\ keys <= presses /\ intent <= presses
        /\ intent \in Nat /\ presses' \in Keys /\ presses' = presses + 1 /\ presses' \in 0..MaxPresses
    BY <1>1, <1>4, Numbers DEF TypeOK, InTime, Keys
  <1>6. (pending # None => pending \in [input : Inputs, key : Keys]) /\ (pending # None => intent \in Keys)
    BY <1>4 DEF TypeOK, Pressed
  <1>7. \/ /\ pending # None /\ pending.input = input /\ key = pending.key /\ intent' = intent
           /\ key \in Keys /\ intent' \in Keys /\ IsUse(key, input, intent')
        \/ key = keys + 1 /\ intent' = presses + 1 /\ key \in Keys /\ intent' \in Keys
    <2>1. CASE pending # None /\ pending.input = input
      <3>1. key = pending.key /\ intent' = intent
        BY <1>1, <2>1 DEF KeyFor, Reuses
      <3> QED BY <1>6, <2>1, <3>1 DEF IsUse
    <2>2. CASE ~(pending # None /\ pending.input = input)
      <3>1. key = keys + 1 /\ intent' = presses + 1
        BY <1>1, <1>5, <2>2 DEF KeyFor, Reuses
      <3>2. keys + 1 \in Keys /\ presses + 1 \in Keys
        BY <1>1, <1>5, Numbers DEF Keys
      <3> QED BY <3>1, <3>2
    <2> QED BY <2>1, <2>2
  <1>8. key \in Keys /\ intent' \in Keys /\ key <= presses' /\ keys' >= keys /\ key <= keys'
        /\ keys' <= presses' /\ intent' <= presses' /\ keys' \in 0..MaxPresses /\ keys' \in Nat
    <2>1. key \in Keys /\ intent' \in Keys
      BY <1>7
    <2>2. key <= keys + 1
      <3>1. CASE key = keys + 1
        BY <1>5, <3>1
      <3>2. CASE IsUse(key, input, intent')
        <4>1. key <= keys
          BY <1>4, <2>1, <3>2 DEF Issued
        <4>2. key \in Nat
          BY <2>1 DEF Keys
        <4> QED BY <1>5, <4>1, <4>2
      <3> QED BY <1>7, <3>1, <3>2
    <2>3. intent' <= presses'
      BY <1>5, <1>7
    <2>4. key \in Nat /\ MaxPresses \in Nat
      BY <2>1, Numbers DEF Keys
    <2> HIDE DEF key
    <2> QED BY <1>2, <1>5, <2>1, <2>2, <2>3, <2>4
  <1> HIDE DEF key
  <1>9. /\ request \in BuyRequests /\ request.key = key /\ request.input = input
        /\ request.intent = intent' /\ request.view = Nothing
        /\ wish \in [input : Inputs, key : Keys] /\ wish.key = key /\ wish.input = input
    BY <1>8, NoViews DEF BuyRequests
  <1> HIDE DEF request, wish
  <1>10. TypeOK'
    <2>1. creating' \in BuyRequests /\ pending' \in [input : Inputs, key : Keys]
      BY <1>1, <1>2, <1>9
    <2>2. intent' \in 0..MaxPresses /\ presses' \in 0..MaxPresses
      BY <1>5, <1>8, Numbers DEF Keys
    <2> QED BY <1>3, <1>4, <1>8, <2>1, <2>2 DEF TypeOK, BuyRequests
  <1>11. SeenFrom
    <2>1. ASSUME NEW t \in Tasks, NEW b \in SeenBy(t)' PROVE FromSeen(t, b)
      <3>1. b \in SeenBy(t) \/ b = creating'.view[t]
        BY <1>3 DEF SeenBy
      <3>2. creating'.view[t] = None
        BY <1>2, <1>9 DEF Nothing
      <3>3. CASE b = None
        BY <3>3 DEF FromSeen
      <3>4. CASE b \in SeenBy(t) /\ b # None
        <4>1. b \in Seen(t)
          BY <3>4 DEF Seen
        <4> QED BY <1>4, <4>1, SeenTypes DEF FromSeen
      <3> QED BY <3>1, <3>2, <3>3, <3>4
    <2> QED BY <2>1, AllFromSeen
  <1>12. Onward /\ SamePurchases
    BY <1>3, <1>4, Standing
  <1>13. Past' /\ InOrder'
    BY <1>4, <1>10, <1>11, <1>12, Looking
  <1>14. Numbered' /\ OneForKey'
    BY <1>4, <1>12, Keeping
  <1>15. InTime'
    BY <1>8, <1>12 DEF Onward, InTime
  <1>16. ASSUME NEW k \in Keys, NEW n \in Keys, NEW i \in Inputs, IsUse(k, i, n)'
         PROVE  IsUse(k, i, n) \/ (k = key /\ i = input /\ n = intent')
    <2>1. CASE creating' # None /\ creating'.key = k /\ creating'.input = i /\ creating'.intent = n
      BY <1>2, <1>9, <2>1
    <2>2. CASE pending' # None /\ pending'.key = k /\ pending'.input = i /\ intent' = n
      BY <1>1, <1>9, <2>2
    <2>3. CASE \/ \E t \in Made' : rows'[t].key = k /\ rows'[t].input = i /\ rows'[t].intent = n
               \/ \E r \in stray' : r.key = k /\ r.input = i /\ r.intent = n
      BY <1>3, <2>3 DEF IsUse
    <2> QED BY <1>16, <2>1, <2>2, <2>3 DEF IsUse
  <1>17. Issued'
    <2>1. ASSUME NEW k \in Keys, NEW n \in Keys, NEW i \in Inputs, IsUse(k, i, n)'
          PROVE  k <= keys' /\ n <= presses'
      <3>1. CASE IsUse(k, i, n)
        <4>1. k <= keys /\ n <= presses /\ k \in Nat /\ n \in Nat
          BY <1>4, <3>1 DEF Issued, Keys
        <4> QED BY <1>5, <1>8, <4>1
      <3>2. CASE k = key /\ i = input /\ n = intent'
        BY <1>8, <3>2
      <3> QED BY <1>16, <2>1, <3>1, <3>2
    <2> QED BY <2>1 DEF Issued
  <1>18. Linked'
    <2>1. CASE IsUse(key, input, intent')
      BY <1>4, <1>8, <1>16, <2>1 DEF Linked
    <2>2. CASE key = keys + 1 /\ intent' = presses + 1
      <3>1. \A k, n \in Keys : \A i \in Inputs : IsUse(k, i, n) => k # key /\ n # intent'
        BY <1>4, <1>5, <2>2 DEF Issued, Keys
      <3> QED BY <1>4, <1>16, <3>1 DEF Linked
    <2> QED BY <1>7, <2>1, <2>2
  <1>19. Pressed'
    BY <1>3, <1>4, <1>8 DEF Pressed
  <1> QED BY <1>10, <1>13, <1>14, <1>15, <1>17, <1>18, <1>19 DEF PageInv

\* An answer or a failure ends the request of a purchase.
LEMMA BoughtStep ==
    ASSUME PageInv, Bought
    PROVE  PageInv'
  <1>1. /\ UNCHANGED <<serverVars, keys, intent, stray, presses, acting, listVars, actions, faults>>
        /\ creating # None /\ creating' = None
        /\ \/ pending' = None /\ shown' = Merge(shown, creating.view)
           \/ pending' = pending /\ shown' = shown
    BY DEF Bought
  <1>2. /\ rows' = rows /\ updates' = updates /\ keys' = keys /\ intent' = intent
        /\ stray' = stray /\ presses' = presses /\ acting' = acting /\ list' = list
        /\ begun' = begun /\ actions' = actions /\ faults' = faults /\ Made' = Made
        /\ UNCHANGED serverVars /\ TypeOK
    BY <1>1 DEF serverVars, listVars, Made, PageInv
  <1>3. ASSUME NEW t \in Tasks
        PROVE  FromSeen(t, MergeTask(shown[t], creating.view[t]))
    BY <1>1, <1>2, WhatIsSeen, MergingSeen
  <1>4. shown' \in Views /\ \A t \in Tasks : FromSeen(t, shown'[t])
    <2>1. CASE shown' = Merge(shown, creating.view)
      BY <1>3, <2>1 DEF Merge, Views, FromSeen
    <2>2. CASE shown' = shown
      BY <1>2, <2>2, WhatIsSeen DEF TypeOK
    <2> QED BY <1>1, <2>1, <2>2
  <1>5. TypeOK'
    BY <1>1, <1>2, <1>4 DEF TypeOK
  <1>6. SeenFrom
    <2>1. ASSUME NEW t \in Tasks, NEW b \in SeenBy(t)' PROVE FromSeen(t, b)
      <3>1. CASE b = shown'[t]
        BY <1>4, <3>1
      <3>2. CASE b \in {list.page[t], list.loaded[t]}
        BY <1>2, <3>2, WhatIsSeen
      <3>3. CASE \E u \in Tasks : acting[u] # None /\ b = acting[u].view[t]
        BY <1>2, <3>3, WhatIsSeen
      <3> QED BY <1>1, <1>2, <2>1, <3>1, <3>2, <3>3 DEF SeenBy
    <2> QED BY <2>1, AllFromSeen
  <1>7. UsesKept
    BY <1>1, <1>2, UsesStay
  <1>8. Pressed' /\ Counting
    <2>1. keys \in Nat /\ presses \in Nat
      BY <1>2, Numbers DEF TypeOK
    <2> QED BY <1>1, <1>2, <2>1 DEF PageInv, Pressed, Counting, InTime
  <1> QED BY <1>2, <1>5, <1>6, <1>7, <1>8, PageStep

LEMMA BuyFailsStep ==
    ASSUME PageInv, BuyFails
    PROVE  PageInv'
  <1> DEFINE late == [input |-> creating.input, key |-> creating.key, intent |-> creating.intent]
  <1>1. /\ UNCHANGED <<serverVars, shown, pending, keys, intent, presses, acting, listVars, actions>>
        /\ creating # None /\ creating' = None /\ faults < MaxFaults /\ faults' = faults + 1
        /\ stray' = stray \/ stray' = stray \cup {late}
    BY DEF BuyFails
  <1>2. /\ rows' = rows /\ updates' = updates /\ keys' = keys /\ intent' = intent
        /\ pending' = pending /\ presses' = presses /\ acting' = acting /\ list' = list
        /\ begun' = begun /\ actions' = actions /\ shown' = shown /\ Made' = Made
        /\ UNCHANGED serverVars /\ TypeOK /\ creating \in BuyRequests
    BY <1>1 DEF serverVars, listVars, Made, PageInv, TypeOK, BuyRequests
  <1>3. /\ late \in [input : Inputs, key : Keys, intent : Keys] /\ late.key = creating.key
        /\ late.input = creating.input /\ late.intent = creating.intent
    BY <1>2 DEF BuyRequests
  <1> HIDE DEF late
  <1>4. TypeOK'
    <2>1. stray' \subseteq [input : Inputs, key : Keys, intent : Keys]
      BY <1>1, <1>2, <1>3 DEF TypeOK
    <2>2. faults' \in 0..MaxFaults
      BY <1>1, <1>2, Numbers DEF TypeOK
    <2> QED BY <1>1, <1>2, <2>1, <2>2 DEF TypeOK
  <1>5. SeenFrom
    <2>1. ASSUME NEW t \in Tasks, NEW b \in SeenBy(t)' PROVE b \in SeenBy(t)
      BY <1>1, <1>2 DEF SeenBy
    <2> QED BY <2>1 DEF SeenFrom, Seen
  <1>6. UsesKept
    BY <1>1, <1>2, <1>3, UsesStay
  <1>7. Pressed' /\ Counting
    <2>1. keys \in Nat /\ presses \in Nat
      BY <1>2, Numbers DEF TypeOK
    <2> QED BY <1>1, <1>2, <2>1 DEF PageInv, Pressed, Counting, InTime
  <1> QED BY <1>2, <1>4, <1>5, <1>6, <1>7, PageStep
-----------------------------------------------------------------------------
(* The invariant *)

LEMMA Initially == Init => PageInv
  <1> SUFFICES ASSUME Init PROVE PageInv
    OBVIOUS
  <1>1. /\ keys = presses /\ intent = presses
        /\ shown = Nothing /\ pending = None /\ creating = None /\ stray = {}
        /\ acting = [t \in Tasks |-> None] /\ list = Idle /\ begun = NotBegun
        /\ actions = 0 /\ faults = 0
    BY DEF Init
  <1>2. \/ rows = [t \in Tasks |-> None] /\ updates = 0 /\ presses = 0
        \/ \E input \in Inputs :
              /\ rows = [t \in Tasks |-> IF t > 1 THEN None ELSE
                   [ver |-> 1, stamp |-> 1, phase |-> "active", messages |-> 0,
                    key |-> 1, input |-> input, intent |-> 1, back |-> FALSE]]
              /\ updates = 1 /\ presses = 1
    BY DEF Init, InitRows
  <1>3. /\ shown \in Views /\ list \in ListType /\ begun \in [Tasks -> 0..MaxUpdates]
        /\ list.page = Nothing /\ list.loaded = Nothing
    BY <1>1, NoViews DEF Idle
  <1>4. \A t \in Tasks : Seen(t) = {}
    BY <1>1, <1>3 DEF Seen, SeenBy, Nothing
  <1>5. Past /\ InOrder /\ Pressed
    BY <1>1, <1>4 DEF Past, InOrder, Pressed
  <1>6. CASE rows = [t \in Tasks |-> None] /\ updates = 0 /\ presses = 0
    <2>1. Made = {} /\ 0 \in 0..MaxTasks /\ Made = 1..0
      BY <1>6, Numbers DEF Made
    <2>2. Numbered /\ OneForKey /\ InTime
      BY <1>1, <1>6, <2>1, Numbers DEF Numbered, OneForKey, InTime
    <2>3. \A k, n \in Keys : \A i \in Inputs : ~IsUse(k, i, n)
      BY <1>1, <2>1 DEF IsUse
    <2>4. TypeOK
      BY <1>1, <1>3, <1>6, Numbers DEF TypeOK, ListType, Stamps
    <2> QED BY <1>5, <2>2, <2>3, <2>4 DEF PageInv, Linked, Issued
  <1>7. ASSUME NEW input \in Inputs,
               rows = [t \in Tasks |-> IF t > 1 THEN None ELSE
                   [ver |-> 1, stamp |-> 1, phase |-> "active", messages |-> 0,
                    key |-> 1, input |-> input, intent |-> 1, back |-> FALSE]],
               updates = 1, presses = 1
        PROVE  PageInv
    <2> DEFINE row == [ver |-> 1, stamp |-> 1, phase |-> "active", messages |-> 0,
                       key |-> 1, input |-> input, intent |-> 1, back |-> FALSE]
    <2>1. row \in Row /\ row.ver = 1 /\ row.stamp = 1 /\ row.key = 1 /\ row.intent = 1
      BY Numbers DEF Row, Stamps, Phases, Keys
    <2>2. rows = [t \in Tasks |-> IF t > 1 THEN None ELSE row]
      BY <1>7
    <2> HIDE DEF row
    <2>0. updates = 1 /\ presses = 1 /\ keys = 1 /\ intent = 1
      BY <1>1, <1>7
    <2>3. \A t \in Tasks : (t = 1 /\ rows[t] = row) \/ (t > 1 /\ rows[t] = None)
      <3>1. \A t \in Tasks : t = 1 \/ t > 1
        BY Numbers DEF Tasks
      <3> QED BY <2>2, <3>1
    <2>4. /\ rows \in [Tasks -> Row \cup {None}]
          /\ \A t \in Made : t = 1 /\ rows[t] = row
      BY <2>1, <2>2, <2>3 DEF Made
    <2>5. Numbered
      <3>1. CASE MaxTasks = 0
        <4>1. Made = 1..0
          BY <3>1 DEF Made, Tasks
        <4> QED BY <4>1, Numbers DEF Numbered
      <3>2. CASE MaxTasks # 0
        <4>1. 1 \in Tasks /\ 1 \in 0..MaxTasks
          BY <3>2, Numbers DEF Tasks
        <4>2. 1 \in Made
          BY <2>1, <2>3, <4>1, Numbers DEF Made
        <4>3. Made = 1..1
          BY <2>4, <4>2
        <4> QED BY <4>1, <4>3 DEF Numbered
      <3> QED BY <3>1, <3>2
    <2>6. OneForKey /\ InTime
      BY <2>0, <2>1, <2>4 DEF OneForKey, InTime
    <2>7. \A k, n \in Keys : \A i \in Inputs : IsUse(k, i, n) => k = 1 /\ n = 1 /\ i = row.input
      BY <1>1, <2>1, <2>4 DEF IsUse
    <2>8. TypeOK
      BY <1>1, <1>3, <2>0, <2>4, Numbers DEF TypeOK, ListType, Stamps
    <2>9. Linked /\ Issued
      BY <2>0, <2>7 DEF Linked, Issued
    <2> QED BY <1>5, <2>5, <2>6, <2>8, <2>9 DEF PageInv
  <1> QED BY <1>2, <1>6, <1>7

LEMMA Inductive == PageInv /\ [Next]_vars => PageInv'
  <1> SUFFICES ASSUME PageInv, [Next]_vars PROVE PageInv'
    OBVIOUS
  <1>1. CASE UNCHANGED vars
    <2>1. TypeOK /\ InTime /\ UNCHANGED serverVars
          /\ UNCHANGED <<shown, buyVars, acting, listVars, actions, faults>>
      BY <1>1 DEF vars, PageInv
    <2> QED BY <2>1, Standing, ServerStep
  <1>2. CASE Work
    BY <1>2, WorkStep
  <1>3. CASE ServeCreate
    BY <1>3, ServeCreateStep
  <1>4. CASE ServeRows \/ ServeMessages
    BY <1>4, ServeRowsStep, ServeMessagesStep
  <1>5. CASE \E r \in stray : ServeStray(r)
    BY <1>5, ServeStrayStep
  <1>6. CASE \E i \in Inputs : Press(i)
    BY <1>6, PressStep
  <1>7. CASE Bought \/ BuyFails
    BY <1>7, BoughtStep, BuyFailsStep
  <1>8. CASE Poll \/ Listed \/ ListFails
    BY <1>8, PollStep, ListedStep, ListFailsStep
  <1>9. CASE \E t \in Tasks :
                \/ \E verb \in {"start", "stop"} : Click(t, verb)
                \/ ServeAction(t) \/ Acted(t) \/ ActionFails(t)
    BY <1>9, ClickStep, ServeActionStep, ActedStep, ActionFailsStep
  <1> QED BY <1>1, <1>2, <1>3, <1>4, <1>5, <1>6, <1>7, <1>8, <1>9 DEF Next

\* Merging into what is shown something the task was.
LEMMA Showing ==
    ASSUME PageInv, NEW t \in Tasks, NEW x, FromSeen(t, x), shown[t] # None
    PROVE  /\ MergeTask(shown[t], x) # None
           /\ MergeTask(shown[t], x).messages >= shown[t].messages
           /\ \/ MergeTask(shown[t], x).ver >= shown[t].ver
              \/ MergeTask(shown[t], x).stamp = shown[t].stamp
              \/ rows[t].back
  <1> DEFINE old == shown[t]
  <1> DEFINE m == MergeTask(old, x)
  <1>1. TypeOK /\ InOrder /\ old \in Seen(t) /\ x \in View \cup {None}
    BY DEF PageInv, Seen, SeenBy, FromSeen
  <1>2. old \in View /\ old.ver \in Nat /\ old.stamp \in Nat
    BY <1>1, SeenTypes
  <1>3. /\ m \in View \cup {None} /\ m # None /\ m.messages >= old.messages
        /\ \E z \in {old, x} \ {None} : m.ver = z.ver /\ m.stamp = z.stamp
        /\ (x = None \/ x.stamp < old.stamp) => m.ver = old.ver
    <2>1. old # None
      OBVIOUS
    <2> HIDE DEF old
    <2> QED BY <1>1, <1>2, <2>1, Merging
  <1> HIDE DEF m
  <1>4. m.ver >= old.ver \/ m.stamp = old.stamp \/ rows[t].back
    <2>1. CASE m.ver = old.ver
      BY <1>2, <2>1
    <2>2. CASE x # None /\ m.ver = x.ver /\ m.stamp = x.stamp /\ ~(x.stamp < old.stamp)
      <3>1. PICK a \in Seen(t) : x.ver = a.ver /\ x.stamp = a.stamp
        BY <2>2 DEF FromSeen
      <3>2. x.ver \in Nat /\ x.stamp \in Nat
        BY <1>1, <3>1, SeenTypes
      <3>3. x.ver < old.ver => x.stamp <= old.stamp \/ rows[t].back
        BY <1>1, <3>1 DEF InOrder
      <3> HIDE DEF old
      <3> QED BY <1>2, <2>2, <3>2, <3>3
    <2> QED BY <1>3, <2>1, <2>2
  <1> QED BY <1>3, <1>4 DEF m

LEMMA Forward ==
    ASSUME PageInv, Next, NEW t \in Tasks, shown[t] # None
    PROVE  /\ shown'[t] # None /\ shown'[t].messages >= shown[t].messages
           /\ shown'[t].ver >= shown[t].ver \/ shown'[t].stamp = shown[t].stamp \/ rows[t].back
  <1>0. TypeOK
    BY DEF PageInv
  <1>1. CASE \E x : FromSeen(t, x) /\ shown'[t] = MergeTask(shown[t], x)
    BY <1>1, Showing
  <1>2. CASE UNCHANGED shown
    <2>1. shown[t] \in View
      BY <1>0 DEF TypeOK, Views
    <2>2. shown[t].ver \in Nat /\ shown[t].messages \in Nat
      BY <2>1, Numbers DEF View
    <2> QED BY <1>2, <2>2
  <1>3. CASE Bought /\ shown' # shown
    <2>1. creating # None /\ shown'[t] = MergeTask(shown[t], creating.view[t])
      BY <1>3 DEF Bought, Merge
    <2> QED BY <1>0, <1>1, <2>1, WhatIsSeen
  <1>4. CASE Listed /\ shown' # shown
    <2>1. shown'[t] = MergeTask(shown[t], MergeTask(list.loaded[t], list.page[t]))
      BY <1>4 DEF Listed, Merge
    <2> QED BY <1>0, <1>1, <2>1, WhatIsSeen, MergingSeen
  <1>5. CASE \E u \in Tasks : Acted(u)
    <2>1. PICK u \in Tasks : Acted(u)
      BY <1>5
    <2>2. acting[u] # None /\ shown'[t] = MergeTask(shown[t], acting[u].view[t])
      BY <2>1 DEF Acted, Merge
    <2> QED BY <1>0, <1>1, <2>2, WhatIsSeen
  <1>6. \/ UNCHANGED shown \/ (Bought /\ shown' # shown) \/ (Listed /\ shown' # shown)
        \/ \E u \in Tasks : Acted(u)
    BY DEF Next, Work, ServeCreate, ServeRows, ServeMessages, ServeStray, Press, BuyFails, Poll,
           ListFails, Click, ServeAction, ActionFails
  <1> QED BY <1>2, <1>3, <1>4, <1>5, <1>6
-----------------------------------------------------------------------------
(* Theorems *)

\* What links keys, purchases and the views of the tasks is true at every moment.
THEOREM PageInvariance == Spec => []PageInv
  <1>1. Init => PageInv
    BY Initially
  <1>2. PageInv /\ [Next]_vars => PageInv'
    BY Inductive
  <1> QED BY <1>1, <1>2, PTL DEF Spec

\* The page's state, the requests under way and the tasks are well formed.
THEOREM PageTypes == Spec => []TypeOK
  <1>1. PageInv => TypeOK
    BY DEF PageInv
  <1> QED BY <1>1, PageInvariance, PTL

\* A purchase asked for again is bought once, for any number of presses, lost
\* answers and late requests.
THEOREM BoughtOnce == Spec => []RetryBuysOnce
  <1>1. PageInv => RetryBuysOnce
    <2> SUFFICES ASSUME PageInv PROVE RetryBuysOnce
      OBVIOUS
    <2>1. \A t \in Made : /\ rows[t].key \in Keys /\ rows[t].input \in Inputs
                          /\ rows[t].intent \in Keys
                          /\ IsUse(rows[t].key, rows[t].input, rows[t].intent)
      BY Rows DEF PageInv, Row, IsUse
    <2>2. creating # None => /\ creating.key \in Keys /\ creating.input \in Inputs
                             /\ creating.intent \in Keys
                             /\ IsUse(creating.key, creating.input, creating.intent)
      BY DEF PageInv, TypeOK, IsUse
    <2>3. \A t, u \in Made : rows[t].intent = rows[u].intent => rows[t].key = rows[u].key
      BY <2>1 DEF PageInv, Linked
    <2>4. creating # None => \A t \in Existing(creating) : rows[t].input = creating.input
      BY <2>1, <2>2 DEF PageInv, Linked, Existing
    <2> QED BY <2>3, <2>4 DEF PageInv, OneForKey, RetryBuysOnce
  <1> QED BY <1>1, PageInvariance, PTL

\* What is shown of a task never goes back, for any number of answers under way.
THEOREM ShownGoesOn == Spec => ShownNeverOlder
  <1>1. PageInv /\ [Next]_vars
           => [\A t \in Tasks : shown[t] # None =>
                 /\ shown'[t] # None /\ shown'[t].messages >= shown[t].messages
                 /\ \/ shown'[t].ver >= shown[t].ver \/ shown'[t].stamp = shown[t].stamp
                    \/ rows[t].back]_vars
    BY Forward
  <1> QED BY <1>1, PageInvariance, PTL DEF Spec, ShownNeverOlder
-----------------------------------------------------------------------------
(* The pages of a list *)

\* What the list's pages have of a task so far.
Read(t) == list.page[t] # None \/ list.loaded[t] # None

\* The tasks there were when the list began are there still, and what was read of
\* them is from then or later.
Begun == \A t \in Tasks : begun[t] > 0 => t \in Made /\ begun[t] <= rows[t].ver
ReadLater ==
    \A t \in Tasks : /\ list.page[t] # None => list.page[t].ver >= begun[t]
                     /\ list.loaded[t] # None => list.loaded[t].ver >= begun[t]

\* A task bought meanwhile moves the others to later pages, never to earlier ones:
\* those the next page does not reach have been read.
SentCovers ==
    \A t \in Tasks : (begun[t] > 0 /\ list.at = "sent" /\ t + list.cursor > Cardinality(Made))
                         => list.loaded[t] # None
MoreCovers ==
    \A t \in Tasks : (begun[t] > 0 /\ list.at \in {"rows", "answered"} /\ list.next # 0
                      /\ t + list.next > Cardinality(Made)) => Read(t)
LastCovers ==
    \A t \in Tasks : (begun[t] > 0 /\ list.at \in {"rows", "answered"} /\ list.next = 0) => Read(t)
Reading == Begun /\ ReadLater /\ SentCovers /\ MoreCovers /\ LastCovers
ListInv == PageInv /\ Reading

LEMMA Counted == PageInv => \E k \in 0..MaxTasks : Made = 1..k /\ Cardinality(Made) = k
  <1> SUFFICES ASSUME PageInv PROVE \E k \in 0..MaxTasks : Made = 1..k /\ Cardinality(Made) = k
    OBVIOUS
  <1>1. PICK n \in 0..MaxTasks : Made = 1..n
    BY DEF PageInv, Numbered
  <1>2. n \in Int /\ 1 \in Int /\ n \in Nat
    BY Numbers
  <1>3. Cardinality(1..n) = IF 1 > n THEN 0 ELSE n - 1 + 1
    BY <1>2, FS_Interval, Zenon
  <1>4. Cardinality(1..n) = n
    BY <1>2, <1>3
  <1> QED BY <1>1, <1>4

\* The server goes on, and the list stays as it is.
LEMMA ReadingGoesOn ==
    ASSUME ListInv, PageInv', Onward, UNCHANGED listVars
    PROVE  Reading'
  <1>1. list' = list /\ begun' = begun /\ Reading /\ Made \subseteq Made' /\ TypeOK /\ TypeOK'
    BY DEF listVars, ListInv, Onward, PageInv
  <1>2. PICK n \in 0..MaxTasks : Made = 1..n /\ Cardinality(Made) = n
    BY Counted DEF ListInv
  <1>a. (\E k \in 0..MaxTasks : Made = 1..k /\ Cardinality(Made) = k)'
    BY Counted, PTL
  <1>3. PICK m \in 0..MaxTasks : Made' = 1..m /\ Cardinality(Made') = m
    BY <1>a
  <1>4. n <= m /\ n \in Nat /\ m \in Nat
    BY <1>1, <1>2, <1>3, Numbers
  <1>5. list.cursor \in Nat /\ list.next \in Nat /\ \A t \in Tasks : t \in Nat /\ begun[t] \in Nat
    <2>1. TypeOK
      BY <1>1
    <2>2. list \in ListType /\ begun \in [Tasks -> 0..MaxUpdates]
      BY <2>1 DEF TypeOK, ListType
    <2>3. Tasks \subseteq Nat /\ 0..MaxTasks \subseteq Nat /\ 0..MaxUpdates \subseteq Nat
      BY Numbers DEF Tasks
    <2> QED BY <2>2, <2>3 DEF ListType
  <1>6. Begun'
    <2>1. ASSUME NEW t \in Tasks, begun[t] > 0
          PROVE  t \in Made' /\ begun[t] <= rows'[t].ver
      <3>1. t \in Made /\ begun[t] <= rows[t].ver /\ rows'[t].ver >= rows[t].ver /\ t \in Made'
        BY <1>1, <2>1 DEF Reading, Begun, Onward
      <3>2. rows[t] \in Row
        BY <1>1, <3>1, Rows
      <3>3. rows'[t] \in Row
        BY <1>1, <3>1 DEF TypeOK, Made
      <3>4. rows[t].ver \in Nat /\ rows'[t].ver \in Nat /\ begun[t] \in Nat
        BY <1>5, <3>2, <3>3 DEF Row
      <3> QED BY <3>1, <3>4
    <2> QED BY <1>1, <2>1 DEF Begun
  <1>7. ReadLater' /\ LastCovers'
    BY <1>1 DEF Reading, ReadLater, LastCovers, Read
  <1>8. SentCovers'
    BY <1>1, <1>2, <1>3, <1>4, <1>5 DEF Reading, SentCovers
  <1>9. MoreCovers'
    BY <1>1, <1>2, <1>3, <1>4, <1>5 DEF Reading, MoreCovers, Read
  <1> QED BY <1>6, <1>7, <1>8, <1>9 DEF Reading

\* Every step but those of the list leaves it alone, and only takes tasks on.
LEMMA OtherSteps ==
    ASSUME PageInv,
           \/ Work \/ ServeCreate \/ (\E r \in stray : ServeStray(r)) \/ (\E i \in Inputs : Press(i))
           \/ Bought \/ BuyFails
           \/ \E t \in Tasks : \/ \E verb \in {"start", "stop"} : Click(t, verb)
                               \/ ServeAction(t) \/ Acted(t) \/ ActionFails(t)
    PROVE  Onward /\ UNCHANGED listVars
  <1>0. TypeOK /\ InTime /\ Numbered /\ OneForKey
    BY DEF PageInv
  <1>1. CASE Work
    <2>1. PICK t \in Made : Advance(t) \/ Message(t)
      BY <1>1 DEF Work
    <2> QED BY <1>0, <1>1, <2>1, Advancing, Messaging DEF Work
  <1>2. CASE ServeCreate
    <2>1. creating.key \in Keys /\ creating.input \in Inputs /\ creating.intent \in Keys
      BY <1>0, <1>2 DEF ServeCreate, TypeOK
    <2>2. UNCHANGED listVars /\ (Create(creating) \/ UNCHANGED serverVars)
      BY <1>2 DEF ServeCreate
    <2> QED BY <1>0, <2>1, <2>2, Creating, Standing
  <1>3. CASE \E r \in stray : ServeStray(r)
    <2>1. PICK r \in stray : ServeStray(r)
      BY <1>3
    <2>2. r.key \in Keys /\ r.input \in Inputs /\ r.intent \in Keys
      BY <1>0 DEF TypeOK
    <2>3. UNCHANGED listVars /\ Create(r)
      BY <2>1 DEF ServeStray
    <2> QED BY <1>0, <2>2, <2>3, Creating
  <1>4. CASE \E t \in Tasks : ServeAction(t)
    <2>1. PICK t \in Tasks : ServeAction(t)
      BY <1>4
    <2>2. t \in Made
      BY <2>1 DEF PageInv, Pressed, ServeAction
    <2>3. UNCHANGED listVars /\ (Told(t, acting[t].verb) \/ UNCHANGED serverVars)
      BY <2>1 DEF ServeAction
    <2> QED BY <1>0, <2>2, <2>3, Telling, Standing
  <1>5. CASE \/ (\E i \in Inputs : Press(i)) \/ Bought \/ BuyFails
             \/ \E t \in Tasks : \/ \E verb \in {"start", "stop"} : Click(t, verb)
                                 \/ Acted(t) \/ ActionFails(t)
    <2>1. UNCHANGED listVars /\ UNCHANGED serverVars
      BY <1>5 DEF Press, Bought, BuyFails, Click, Acted, ActionFails
    <2> QED BY <1>0, <2>1, Standing
  <1> QED BY <1>1, <1>2, <1>3, <1>4, <1>5

LEMMA PollReads ==
    ASSUME ListInv, Poll
    PROVE  Reading'
  <1>0. /\ UNCHANGED rows /\ list' = [Idle EXCEPT !.at = "sent"] /\ PageInv /\ TypeOK
        /\ begun' = [t \in Tasks |-> IF t \in Made THEN rows[t].ver ELSE 0]
    BY DEF Poll, serverVars, ListInv, PageInv
  <1>1. Made' = Made
    BY <1>0 DEF Made
  <1>2. /\ list'.at = "sent" /\ list'.cursor = 0 /\ list'.page = Nothing /\ list'.loaded = Nothing
    BY <1>0 DEF Idle
  <1>3. PICK n \in 0..MaxTasks : Made = 1..n /\ Cardinality(Made) = n
    BY <1>0, Counted
  <1>4. \A t \in Made : rows[t].ver \in Nat
    BY <1>0, Rows DEF Row
  <1>5. \A t \in Tasks : t \in Nat /\ (begun'[t] > 0 => t \in Made /\ begun'[t] = rows[t].ver)
    BY <1>0, Numbers DEF Tasks
  <1>6. Begun'
    BY <1>0, <1>1, <1>4, <1>5 DEF Begun
  <1>7. ReadLater' /\ MoreCovers' /\ LastCovers'
    BY <1>2 DEF ReadLater, MoreCovers, LastCovers, Nothing
  <1>8. ASSUME NEW t \in Tasks, begun'[t] > 0 PROVE ~(t + list'.cursor > Cardinality(Made'))
    BY <1>1, <1>2, <1>3, <1>5, <1>8, Numbers
  <1>9. SentCovers'
    BY <1>8 DEF SentCovers
  <1> QED BY <1>6, <1>7, <1>9 DEF Reading

\* A page that is not full is the last one: it reaches the first task.
LEMMA PageReaches ==
    ASSUME NEW n \in Nat, NEW cursor \in Nat, PageSize \in Nat,
           NEW page, page = {t \in 1..n : t <= n - cursor /\ t + PageSize > n - cursor},
           Cardinality(page) # PageSize
    PROVE  n < cursor + PageSize
  <1> SUFFICES ASSUME n >= cursor + PageSize PROVE Cardinality(page) = PageSize
    OBVIOUS
  <1> DEFINE a == n - cursor - PageSize + 1
  <1> DEFINE b == n - cursor
  <1>1. a \in Int /\ b \in Int /\ a >= 1 /\ b <= n /\ b - a + 1 = PageSize /\ b = a + PageSize - 1
    OBVIOUS
  <1>2. page = a..b
    <2>1. \A t \in page : t \in a..b
      OBVIOUS
    <2>2. \A t \in a..b : t \in page
      OBVIOUS
    <2> QED BY <2>1, <2>2
  <1>3. (a > b) => PageSize = 0
    BY <1>1
  <1> HIDE DEF a, b
  <1>4. Cardinality(a..b) = IF a > b THEN 0 ELSE b - a + 1
    BY <1>1, FS_Interval, Zenon
  <1> QED BY <1>1, <1>2, <1>3, <1>4
-----------------------------------------------------------------------------
LEMMA RowsRead ==
    ASSUME ListInv, ServeRows
    PROVE  Reading'
  <1> DEFINE newest == Cardinality(Made) - list.cursor
  <1> DEFINE page == {t \in Made : t <= newest /\ t + PageSize > newest}
  <1> DEFINE views == [t \in Tasks |-> IF t \in page THEN ViewOf(rows[t]) ELSE None]
  <1> DEFINE next == IF Cardinality(page) = PageSize /\ NextCursor(list.cursor) <= MaxTasks
                       THEN NextCursor(list.cursor) ELSE 0
  <1>1. /\ UNCHANGED <<serverVars, begun>> /\ list.at = "sent"
        /\ list' = [list EXCEPT !.at = "rows", !.page = views, !.next = next]
    BY DEF ServeRows
  <1>2. /\ PageInv /\ TypeOK /\ Reading /\ list \in ListType /\ list.cursor \in Nat
        /\ \A t \in Tasks : t \in Nat /\ t >= 1
        /\ Made \subseteq Tasks /\ \A t \in Made : rows[t] \in Row
    <2> HIDE DEF page, views, next, newest
    <2>1. PageInv /\ TypeOK /\ Reading
      BY DEF ListInv, PageInv
    <2>2. list \in ListType
      BY <2>1 DEF TypeOK, ListType
    <2>3. list.cursor \in Nat
      BY <2>2, Numbers DEF ListType
    <2> QED BY <2>1, <2>2, <2>3, Rows, Numbers DEF Tasks
  <1>3. PICK n \in 0..MaxTasks : Made = 1..n /\ Cardinality(Made) = n
    BY <1>2, Counted
  <1>4. n \in Nat /\ n <= MaxTasks /\ PageSize \in Nat
    BY Numbers
  <1>5. \A t \in Tasks : t \in page <=> (t <= n /\ t <= n - list.cursor /\ t + PageSize > n - list.cursor)
    BY <1>2, <1>3
  <1>6. page = {t \in 1..n : t <= n - list.cursor /\ t + PageSize > n - list.cursor}
    BY <1>3
  <1>7. next = 0 \/ (next = list.cursor + PageSize /\ Cardinality(page) = PageSize)
    BY DEF NextCursor
  <1>8. next = 0 => n < list.cursor + PageSize
    <2>1. ASSUME next = 0, Cardinality(page) # PageSize PROVE n < list.cursor + PageSize
      <3> HIDE DEF page, next
      <3> QED BY <1>2, <1>4, <1>6, <2>1, PageReaches
    <2>2. ASSUME next = 0, Cardinality(page) = PageSize PROVE n < list.cursor + PageSize
      <3>1. ~(NextCursor(list.cursor) <= MaxTasks) \/ NextCursor(list.cursor) = 0
        BY <2>2
      <3>2. NextCursor(list.cursor) = list.cursor + PageSize /\ PageSize > 0
        BY HeroPageAssumption DEF NextCursor
      <3> HIDE DEF page, next
      <3> QED BY <1>2, <1>4, <3>1, <3>2, Numbers
    <2> QED BY <2>1, <2>2
  <1>9. ASSUME NEW t \in Tasks
        PROVE  /\ t \in page => views[t] # None
               /\ views[t] # None => t \in Made /\ views[t].ver = rows[t].ver
    <2>1. CASE t \in page
      <3>1. t \in Made /\ rows[t] \in Row /\ views[t] = ViewOf(rows[t])
        BY <1>2, <2>1
      <3> HIDE DEF views
      <3> QED BY <3>1, ViewsOf
    <2>2. CASE t \notin page
      BY <2>2
    <2> QED BY <2>1, <2>2
  <1> HIDE DEF page, next, views
  <1>10. /\ list'.at = "rows" /\ list'.page = views /\ list'.next = next
         /\ list'.loaded = list.loaded /\ list'.cursor = list.cursor
    BY <1>1, <1>2 DEF ListType
  <1>11. Made' = Made /\ rows' = rows /\ begun' = begun
    BY <1>1 DEF serverVars, Made
  <1>12. Begun'
    BY <1>2, <1>11 DEF Reading, Begun
  <1>13. ReadLater'
    <2>1. ASSUME NEW t \in Tasks, views[t] # None PROVE views[t].ver >= begun[t]
      <3>1. t \in Made /\ views[t].ver = rows[t].ver /\ rows[t].ver \in Nat /\ begun[t] \in Nat
        BY <1>2, <1>9, <2>1, Numbers DEF Row, TypeOK
      <3>2. begun[t] > 0 => begun[t] <= rows[t].ver
        BY <1>2 DEF Reading, Begun
      <3> QED BY <3>1, <3>2
    <2> QED BY <1>2, <1>10, <1>11, <2>1 DEF Reading, ReadLater
  \* What the page does not reach was read before it.
  <1>14. ASSUME NEW t \in Tasks, begun[t] > 0, t + list.cursor + PageSize > n PROVE Read(t)'
    <2>1. t \in Made /\ t <= n
      BY <1>2, <1>3, <1>14 DEF Reading, Begun
    <2>2. CASE t + list.cursor > n
      <3>1. list.loaded[t] # None
        BY <1>1, <1>2, <1>3, <1>14, <2>2 DEF Reading, SentCovers
      <3> QED BY <1>10, <3>1 DEF Read
    <2>3. CASE t + list.cursor <= n
      <3>1. t \in page
        BY <1>2, <1>4, <1>5, <1>14, <2>1, <2>3
      <3> QED BY <1>9, <1>10, <3>1 DEF Read
    <2> QED BY <1>2, <1>4, <2>2, <2>3
  <1>15. MoreCovers'
    <2>1. ASSUME NEW t \in Tasks, begun[t] > 0, next # 0, t + next > n PROVE Read(t)'
      BY <1>2, <1>4, <1>7, <1>14, <2>1
    <2> QED BY <1>3, <1>10, <1>11, <2>1 DEF MoreCovers
  <1>16. LastCovers'
    <2>1. ASSUME NEW t \in Tasks, begun[t] > 0, next = 0 PROVE Read(t)'
      BY <1>2, <1>4, <1>8, <1>14, <2>1
    <2> QED BY <1>10, <1>11, <2>1 DEF LastCovers
  <1>17. SentCovers'
    BY <1>10 DEF SentCovers
  <1> QED BY <1>12, <1>13, <1>15, <1>16, <1>17 DEF Reading

LEMMA MessagesRead ==
    ASSUME ListInv, ServeMessages
    PROVE  Reading'
  <1> DEFINE views == [t \in Tasks |->
                         IF list.page[t] = None THEN None
                         ELSE [list.page[t] EXCEPT !.messages = rows[t].messages]]
  <1>1. /\ UNCHANGED <<serverVars, begun>> /\ list.at = "rows"
        /\ list' = [list EXCEPT !.at = "answered", !.page = views]
    BY DEF ServeMessages
  <1>2. PageInv /\ TypeOK /\ Reading /\ list \in ListType
    BY DEF ListInv, PageInv, TypeOK, ListType
  <1>3. ASSUME NEW t \in Tasks
        PROVE  /\ views[t] # None <=> list.page[t] # None
               /\ views[t] # None => views[t].ver = list.page[t].ver
    <2>1. CASE list.page[t] = None
      BY <2>1
    <2>2. CASE list.page[t] # None
      <3>0. list.page[t] \in Seen(t)
        BY <2>2 DEF Seen, SeenBy
      <3>1. t \in Made
        BY <1>2, <3>0 DEF PageInv, Past
      <3>2. list.page[t] \in View /\ rows[t] \in Row
        BY <1>2, <2>2, <3>1, Rows DEF ListType, Views
      <3>3. /\ [list.page[t] EXCEPT !.messages = rows[t].messages] \in View
            /\ [list.page[t] EXCEPT !.messages = rows[t].messages].ver = list.page[t].ver
        BY <3>2 DEF View, Row
      <3>4. views[t] = [list.page[t] EXCEPT !.messages = rows[t].messages]
        BY <2>2
      <3> HIDE DEF views
      <3> QED BY <2>2, <3>3, <3>4, Numbers
    <2> QED BY <2>1, <2>2
  <1> HIDE DEF views
  <1>4. /\ list'.at = "answered" /\ list'.page = views /\ list'.next = list.next
        /\ list'.loaded = list.loaded
    BY <1>1, <1>2 DEF ListType
  <1>5. Made' = Made /\ rows' = rows /\ begun' = begun
    BY <1>1 DEF serverVars, Made
  <1>6. \A t \in Tasks : Read(t) => Read(t)'
    BY <1>3, <1>4 DEF Read
  <1>7. Begun' /\ SentCovers'
    BY <1>2, <1>4, <1>5 DEF Reading, Begun, SentCovers
  <1>8. ReadLater'
    BY <1>2, <1>3, <1>4, <1>5 DEF Reading, ReadLater
  <1>9. MoreCovers' /\ LastCovers'
    BY <1>1, <1>2, <1>4, <1>5, <1>6 DEF Reading, MoreCovers, LastCovers
  <1> QED BY <1>7, <1>8, <1>9 DEF Reading

\* Merging what was read since the list began gives no older view.
LEMMA MergingLater ==
    ASSUME NEW x \in View \cup {None}, NEW y \in View \cup {None}, NEW n,
           x # None => x.ver >= n, y # None => y.ver >= n
    PROVE  /\ (x # None \/ y # None) => MergeTask(x, y) # None
           /\ MergeTask(x, y) # None => MergeTask(x, y).ver >= n
  <1>1. MergeTask(x, y) # None => \E z \in {x, y} \ {None} : MergeTask(x, y).ver = z.ver
    BY Merging
  <1>2. x # None => MergeTask(x, y) # None
    BY Merging
  <1>3. x = None => MergeTask(x, y) = y
    BY DEF MergeTask
  <1> QED BY <1>1, <1>2, <1>3

LEMMA ListedReads ==
    ASSUME ListInv, Listed
    PROVE  Reading'
  <1> DEFINE loaded == Merge(list.loaded, list.page)
  <1>1. UNCHANGED rows /\ list.at = "answered" /\ PageInv /\ TypeOK /\ Reading /\ list \in ListType
    BY DEF Listed, serverVars, ListInv, PageInv, TypeOK, ListType
  <1>2. Made' = Made
    BY <1>1 DEF Made
  <1>3. CASE list' = Idle /\ begun' = NotBegun
    <2>1. list'.at = "idle" /\ list'.page = Nothing /\ list'.loaded = Nothing
      BY <1>3 DEF Idle
    <2>2. \A t \in Tasks : begun'[t] = 0 /\ ~(0 > 0)
      BY <1>3 DEF NotBegun
    <2> QED BY <2>1, <2>2 DEF Reading, Begun, ReadLater, SentCovers, MoreCovers, LastCovers, Nothing
  <1>4. CASE /\ list.next # 0 /\ begun' = begun
             /\ list' = [Idle EXCEPT !.at = "sent", !.cursor = list.next, !.loaded = loaded]
    <2>1. ASSUME NEW t \in Tasks
          PROVE  /\ Read(t) => loaded[t] # None
                 /\ loaded[t] # None => loaded[t].ver >= begun[t]
      <3>1. /\ list.page[t] \in View \cup {None} /\ list.loaded[t] \in View \cup {None}
            /\ list.page[t] # None => list.page[t].ver >= begun[t]
            /\ list.loaded[t] # None => list.loaded[t].ver >= begun[t]
        BY <1>1 DEF ListType, Views, Reading, ReadLater
      <3>2. loaded[t] = MergeTask(list.loaded[t], list.page[t])
        BY DEF Merge
      <3> HIDE DEF loaded
      <3> QED BY <3>1, <3>2, MergingLater DEF Read
    <2> HIDE DEF loaded
    <2>2. /\ list'.at = "sent" /\ list'.cursor = list.next /\ list'.page = Nothing
          /\ list'.loaded = loaded
      BY <1>4 DEF Idle
    <2>3. Begun' /\ MoreCovers' /\ LastCovers'
      BY <1>1, <1>2, <1>4, <2>2 DEF Reading, Begun, MoreCovers, LastCovers
    <2>4. ReadLater'
      BY <1>4, <2>1, <2>2 DEF ReadLater, Nothing
    <2>5. SentCovers'
      BY <1>1, <1>2, <1>4, <2>1, <2>2 DEF Reading, MoreCovers, SentCovers
    <2> QED BY <2>3, <2>4, <2>5 DEF Reading
  <1> QED BY <1>3, <1>4 DEF Listed

LEMMA StillReading ==
    ASSUME ListInv, [Next]_vars
    PROVE  ListInv'
  <1>1. PageInv' /\ PageInv
    BY Inductive DEF ListInv
  <1>2. CASE UNCHANGED vars
    <2>1. Onward /\ UNCHANGED listVars
      BY <1>1, <1>2, Standing DEF vars, PageInv
    <2> QED BY <1>1, <2>1, ReadingGoesOn DEF ListInv
  <1>3. CASE \/ Work \/ ServeCreate \/ (\E r \in stray : ServeStray(r))
             \/ (\E i \in Inputs : Press(i)) \/ Bought \/ BuyFails
             \/ \E t \in Tasks : \/ \E verb \in {"start", "stop"} : Click(t, verb)
                                 \/ ServeAction(t) \/ Acted(t) \/ ActionFails(t)
    <2>1. Onward /\ UNCHANGED listVars
      BY <1>1, <1>3, OtherSteps
    <2> QED BY <1>1, <2>1, ReadingGoesOn DEF ListInv
  <1>4. CASE ServeRows \/ ServeMessages \/ Poll \/ Listed
    BY <1>1, <1>4, RowsRead, MessagesRead, PollReads, ListedReads DEF ListInv
  <1>5. CASE ListFails
    <2>1. list' = Idle /\ begun' = NotBegun
      BY <1>5 DEF ListFails
    <2>2. list'.at = "idle" /\ list'.page = Nothing /\ list'.loaded = Nothing
      BY <2>1 DEF Idle
    <2>3. \A t \in Tasks : begun'[t] = 0 /\ ~(0 > 0)
      BY <2>1 DEF NotBegun
    <2>4. Reading'
      BY <2>2, <2>3 DEF Reading, Begun, ReadLater, SentCovers, MoreCovers, LastCovers, Nothing
    <2> QED BY <1>1, <2>4 DEF ListInv
  <1> QED BY <1>2, <1>3, <1>4, <1>5 DEF Next

\* The last page of a list: everything there was is shown as it was or later.
LEMMA Completing ==
    ASSUME ListInv, Listed, list.next = 0, NEW t \in Tasks, begun[t] > 0
    PROVE  shown'[t] # None /\ (shown'[t].ver >= begun[t] \/ rows[t].back)
  <1> DEFINE loaded == Merge(list.loaded, list.page)
  <1>1. list.at = "answered" /\ PageInv /\ TypeOK /\ Reading /\ list \in ListType
    BY DEF Listed, ListInv, PageInv, TypeOK, ListType
  <1>2. /\ list.page[t] \in View \cup {None} /\ list.loaded[t] \in View \cup {None}
        /\ shown[t] \in View \cup {None} /\ begun[t] \in Nat
        /\ list.page[t] # None => list.page[t].ver >= begun[t]
        /\ list.loaded[t] # None => list.loaded[t].ver >= begun[t]
        /\ Read(t)
    <2>1. Read(t)
      BY <1>1 DEF Reading, LastCovers
    <2>2. begun[t] \in Nat /\ shown[t] \in View \cup {None}
      BY <1>1, Numbers DEF TypeOK, Views
    <2> QED BY <1>1, <2>1, <2>2 DEF ListType, Views, Reading, ReadLater
  <1>3. loaded[t] # None /\ loaded[t].ver >= begun[t] /\ FromSeen(t, loaded[t])
    <2>1. loaded[t] = MergeTask(list.loaded[t], list.page[t])
      BY DEF Merge
    <2> HIDE DEF loaded
    <2>2. FromSeen(t, loaded[t])
      BY <1>1, <2>1, WhatIsSeen, MergingSeen
    <2> QED BY <1>2, <2>1, <2>2, MergingLater DEF Read
  <1>4. shown'[t] = MergeTask(shown[t], loaded[t])
    BY DEF Listed, Merge
  <1> HIDE DEF loaded
  <1>5. CASE shown[t] = None
    BY <1>3, <1>4, <1>5 DEF MergeTask
  <1>6. CASE shown[t] # None
    <2> DEFINE old == shown[t]
    <2> DEFINE x == loaded[t]
    <2>1. old \in Seen(t) /\ InOrder
      BY <1>1, <1>6 DEF Seen, SeenBy, PageInv
    <2>2. PICK a \in Seen(t) : x.ver = a.ver /\ x.stamp = a.stamp
      BY <1>3 DEF FromSeen
    <2>3. /\ old.ver \in Nat /\ old.stamp \in Nat /\ x.ver \in Nat /\ x.stamp \in Nat
          /\ old \in View /\ x \in View \cup {None} /\ old # None /\ x # None
      BY <1>1, <1>3, <1>6, <2>1, <2>2, SeenTypes DEF FromSeen
    <2>4. old.ver < x.ver => old.stamp <= x.stamp \/ rows[t].back
      BY <2>1, <2>2 DEF InOrder
    <2> HIDE DEF old, x
    <2>5. /\ MergeTask(old, x) # None
          /\ x.stamp >= old.stamp => MergeTask(old, x).ver = x.ver
          /\ x.stamp < old.stamp => MergeTask(old, x).ver = old.ver
      BY <2>3, Merging
    <2>6. MergeTask(old, x).ver >= begun[t] \/ rows[t].back
      <3>1. x.ver >= begun[t]
        BY <1>3 DEF x
      <3> QED BY <1>2, <2>3, <2>4, <2>5, <3>1
    <2> QED BY <1>4, <2>5, <2>6 DEF old, x
  <1> QED BY <1>5, <1>6

\* A list that is read to its end is complete, for any number of tasks and pages.
THEOREM ReadToTheEnd == Spec => ListIsComplete
  <1>1. Init => ListInv
    <2> SUFFICES ASSUME Init PROVE ListInv
      OBVIOUS
    <2>1. PageInv
      BY Initially
    <2>2. list = Idle /\ begun = NotBegun
      BY DEF Init
    <2>3. list.at = "idle" /\ list.page = Nothing /\ list.loaded = Nothing
      BY <2>2 DEF Idle
    <2>4. \A t \in Tasks : begun[t] = 0 /\ ~(0 > 0)
      BY <2>2 DEF NotBegun
    <2>5. Reading
      BY <2>3, <2>4 DEF Reading, Begun, ReadLater, SentCovers, MoreCovers, LastCovers, Nothing
    <2> QED BY <2>1, <2>5 DEF ListInv
  <1>2. ListInv /\ [Next]_vars => ListInv'
    BY StillReading
  <1>3. ListInv /\ [Next]_vars
           => [(list.at = "answered" /\ list.next = 0 /\ list'.at = "idle" /\ faults' = faults) =>
                 \A t \in Tasks : begun[t] > 0 =>
                     /\ shown'[t] # None
                     /\ shown'[t].ver >= begun[t] \/ rows[t].back]_vars
    <2> SUFFICES ASSUME ListInv, Next, list.at = "answered", list.next = 0, list'.at = "idle",
                        faults' = faults
                 PROVE  \A t \in Tasks : begun[t] > 0 =>
                            /\ shown'[t] # None
                            /\ shown'[t].ver >= begun[t] \/ rows[t].back
      BY DEF vars
    <2>1. faults \in Nat
      BY Numbers DEF ListInv, PageInv, TypeOK
    <2>2. ~ListFails
      BY <2>1 DEF ListFails
    <2>3. ~UNCHANGED listVars
      BY DEF listVars
    <2>4. ~(ServeRows \/ ServeMessages \/ Poll)
      BY DEF ServeRows, ServeMessages, Poll
    <2>5. Listed
      BY <2>2, <2>3, <2>4, OtherSteps DEF Next, ListInv
    <2> QED BY <2>5, Completing
  <1> QED BY <1>1, <1>2, <1>3, PTL DEF Spec, ListIsComplete
-----------------------------------------------------------------------------
(* The rules that the page offers its buttons by *)

\* What the number tasks are like.
Unowned(t) ==
    /\ t.number = FALSE /\ t.token \in BOOLEAN /\ t.refund = "" /\ t.until = NoTime /\ t.expires = NoTime /\ t.messages = 0
    /\ t.status \in {"waiting_number", "purchasing", "purchase_unknown", "stopped"}
Owned(t) ==
    /\ t.number = TRUE /\ t.until \in Nat /\ t.expires \in Nat /\ t.messages \in {0, 1}
    /\ 0 < t.until /\ t.until <= t.expires
    /\ \/ t.status = "active" /\ (t.messages > 0 => t.refund = "unavailable")
       \/ t.status \in {"settling", "refunded", "settled", "expired"}
    /\ t.refund = "refundable" => t.status = "active"

IsBought(t, status, refunds) ==
    /\ t.number = TRUE /\ t.refund \in refunds /\ t.status = status
    /\ t.until \in Nat /\ t.expires \in Nat /\ t.messages \in {0, 1} /\ t.stop \in BOOLEAN
    /\ 0 < t.until /\ t.until <= t.expires

LEMMA Boughts ==
    ASSUME NEW status, NEW refunds, NEW t \in BoughtTasks(status, refunds)
    PROVE  IsBought(t, status, refunds)
  <1>1. PICK refund \in refunds, expires \in Instants, messages \in {0, 1}, stop \in BOOLEAN :
            t = [number |-> TRUE, token |-> TRUE, refund |-> refund, until |-> RefundableUntil(1, expires),
                 expires |-> expires, messages |-> messages, stop |-> stop, status |-> status]
    BY DEF BoughtTasks
  <1>2. /\ t.number = TRUE /\ t.refund = refund /\ t.until = RefundableUntil(1, expires)
        /\ t.expires = expires /\ t.messages = messages /\ t.stop = stop /\ t.status = status
    BY <1>1
  <1>3. expires \in Nat /\ expires > 0 /\ RefundWindow \in Nat
    BY HeroRulesAssumption DEF Instants
  <1>4. RefundableUntil(1, expires) \in Nat /\ 0 < RefundableUntil(1, expires)
        /\ RefundableUntil(1, expires) <= expires
    BY <1>3 DEF RefundableUntil, Earlier
  <1> QED BY <1>2, <1>3, <1>4 DEF IsBought

LEMMA TaskKinds ==
    ASSUME NEW t \in NumberTasks
    PROVE  t.stop \in BOOLEAN /\ (Unowned(t) \/ Owned(t))
  <1>1. CASE t \in Unbought
    BY <1>1 DEF Unbought, Unowned
  <1>2. CASE t \in BoughtTasks("active", {"refundable", "unavailable"})
             /\ (t.messages > 0 => t.refund = "unavailable")
    <2>1. IsBought(t, "active", {"refundable", "unavailable"})
      BY <1>2, Boughts, Zenon
    <2> QED BY <1>2, <2>1 DEF Owned, IsBought
  <1>3. ASSUME NEW status \in {"settling", "refunded", "settled", "expired"}, NEW refunds,
               "refundable" \notin refunds, t \in BoughtTasks(status, refunds)
        PROVE  t.stop \in BOOLEAN /\ Owned(t)
    <2>1. IsBought(t, status, refunds)
      BY <1>3, Boughts, Zenon
    <2> QED BY <1>3, <2>1 DEF Owned, IsBought
  <1>4. CASE t \in BoughtTasks("settling", {"requested", "unavailable"})
    BY <1>3, <1>4
  <1>5. CASE t \in BoughtTasks("refunded", {"refunded"})
    BY <1>3, <1>5
  <1>6. CASE t \in BoughtTasks("settled", {"settled"})
    BY <1>3, <1>6
  <1>7. CASE t \in BoughtTasks("expired", {"unavailable", "settled"})
    BY <1>3, <1>7
  <1> QED BY <1>1, <1>2, <1>4, <1>5, <1>6, <1>7 DEF NumberTasks

\* What the server says of a task at an instant.
Runs(t, at) == t.status \notin NumberTerminal /\ ~(t.expires # NoTime /\ t.expires <= at)
MayRefund(t, at) ==
    /\ t.number /\ t.refund = "refundable" /\ t.messages = 0
    /\ t.until # NoTime /\ at < t.until /\ Runs(t, at)
MayEnd(t, at) == Runs(t, at) /\ ~t.stop /\ t.status # "settling"

LEMMA ViewIs ==
    ASSUME NEW t, NEW at
    PROVE  LET v == NumberView(t, at) IN
           /\ v.task = t /\ v.running = Runs(t, at) /\ v.refundable = MayRefund(t, at)
           /\ v.start = (t.status = "stopped" /\ ~t.number /\ ~t.token)
           /\ v.stop = (MayEnd(t, at) /\ ~t.number)
           /\ v.cancel = (MayEnd(t, at) /\ t.number /\ MayRefund(t, at))
           /\ v.settle = (MayEnd(t, at) /\ t.number /\ ~MayRefund(t, at))
  <1> DEFINE v == NumberView(t, at)
  <1> DEFINE start == t.status = "stopped" /\ ~t.number /\ ~t.token
  <1> DEFINE stop == MayEnd(t, at) /\ ~t.number
  <1> DEFINE cancel == MayEnd(t, at) /\ t.number /\ MayRefund(t, at)
  <1> DEFINE settle == MayEnd(t, at) /\ t.number /\ ~MayRefund(t, at)
  <1>1. v = [task |-> t, running |-> Runs(t, at), refundable |-> MayRefund(t, at),
             start |-> start, stop |-> stop, cancel |-> cancel, settle |-> settle]
    BY DEF NumberView, Runs, MayRefund, MayEnd
  <1> HIDE DEF v, start, stop, cancel, settle
  <1>2. /\ v.task = t /\ v.running = Runs(t, at) /\ v.refundable = MayRefund(t, at)
        /\ v.start = start /\ v.stop = stop /\ v.cancel = cancel /\ v.settle = settle
    BY <1>1
  <1> QED BY <1>2 DEF v, start, stop, cancel, settle

LEMMA Buttons ==
    ASSUME NEW v, NEW at
    PROVE  /\ "cancel" \in ButtonsOf(v, at) <=> (v.cancel /\ RefundEligible(v, at))
           /\ "settle" \in ButtonsOf(v, at) <=> v.settle
           /\ "start" \in ButtonsOf(v, at) <=> v.start
           /\ "stop" \in ButtonsOf(v, at) <=> v.stop
           /\ ButtonsOf(v, at) \subseteq {"start", "stop", "cancel", "settle"}
  BY DEF ButtonsOf

LEMMA RefundsAgree == RefundAgrees
  <1> SUFFICES ASSUME NEW t \in NumberTasks, NEW at \in Instants, NEW later \in at..MaxTime
               PROVE  LET v == NumberView(t, at) IN
                      /\ ("cancel" \in ButtonsOf(v, later)) = (v.cancel /\ Refunds(t, later))
                      /\ "settle" \in ButtonsOf(v, later) => ~Refunds(t, later)
                      /\ ("start" \in ButtonsOf(v, later)) = Restarts(t)
                      /\ (v.running /\ ~t.stop /\ t.status # "settling")
                            => Cardinality(ButtonsOf(v, at)) = 1
    BY DEF RefundAgrees
  <1> DEFINE v == NumberView(t, at)
  <1>0. at \in Nat /\ later \in Nat /\ at <= later
    BY HeroRulesAssumption DEF Instants
  <1>1. t.stop \in BOOLEAN /\ (Unowned(t) \/ Owned(t))
    BY TaskKinds
  <1>2. /\ v.task = t /\ v.running = Runs(t, at) /\ v.refundable = MayRefund(t, at)
        /\ v.start = (t.status = "stopped" /\ ~t.number /\ ~t.token)
        /\ v.stop = (MayEnd(t, at) /\ ~t.number)
        /\ v.cancel = (MayEnd(t, at) /\ t.number /\ MayRefund(t, at))
        /\ v.settle = (MayEnd(t, at) /\ t.number /\ ~MayRefund(t, at))
    BY ViewIs
  <1> HIDE DEF v
  <1>3. ASSUME MayRefund(t, at)
        PROVE  /\ Owned(t) /\ t.status = "active" /\ t.messages = 0 /\ t.refund = "refundable"
               /\ at < t.until
    BY <1>1, <1>3 DEF MayRefund, Unowned, Owned
  \* A refund that was possible is possible until the window has passed.
  <1>4. ASSUME MayRefund(t, at) PROVE RefundEligible(v, later) <=> Refunds(t, later)
    <2>1. /\ t.number = TRUE /\ t.until \in Nat /\ t.expires \in Nat /\ 0 < t.until
          /\ t.until <= t.expires /\ t.messages = 0 /\ t.refund = "refundable" /\ t.status = "active"
      BY <1>3, <1>4 DEF Owned
    <2>2. Refunds(t, later) <=> later < t.until
      BY <1>0, <2>1 DEF Refunds, NoTime
    <2>3. RefundEligible(v, later) <=> ~(t.until <= later)
      <3>1. v.refundable /\ v.task = t
        BY <1>2, <1>4
      <3> QED BY <2>1, <3>1 DEF RefundEligible, Passed, NoTime
    <2> QED BY <1>0, <2>1, <2>2, <2>3
  <1>5. ("cancel" \in ButtonsOf(v, later)) <=> (v.cancel /\ Refunds(t, later))
    BY <1>2, <1>4, Buttons
  <1>6. ASSUME "settle" \in ButtonsOf(v, later), Refunds(t, later) PROVE FALSE
    <2>1. MayEnd(t, at) /\ ~MayRefund(t, at) /\ t.number
      BY <1>2, <1>6, Buttons
    <2>2. Runs(t, at) /\ Owned(t)
      BY <1>1, <2>1 DEF MayEnd, Unowned
    <2>3. t.messages = 0 /\ t.refund = "refundable" /\ t.until # NoTime /\ t.until > later
      BY <1>6 DEF Refunds
    <2>4. at < t.until
      <3>1. t.until \in Nat
        BY <2>2 DEF Owned
      <3> QED BY <1>0, <2>3, <3>1
    <2> QED BY <2>1, <2>2, <2>3, <2>4 DEF MayRefund
  <1>7. ASSUME v.running, ~t.stop, t.status # "settling"
        PROVE  Cardinality(ButtonsOf(v, at)) = 1
    <2>1. MayEnd(t, at) /\ t.status # "stopped"
      BY <1>2, <1>7 DEF MayEnd, Runs, NumberTerminal
    <2>2. ~v.start /\ v.stop = ~t.number /\ v.cancel = (t.number /\ MayRefund(t, at))
          /\ v.settle = (t.number /\ ~MayRefund(t, at)) /\ t.number \in BOOLEAN
      BY <1>1, <1>2, <2>1 DEF Unowned, Owned
    <2>3. MayRefund(t, at) => RefundEligible(v, at)
      <3>1. ASSUME MayRefund(t, at)
            PROVE  /\ t.number = TRUE /\ t.messages = 0 /\ t.refund = "refundable"
                   /\ ~(t.until <= at)
        <4>1. t.until \in Nat /\ t.number = TRUE
          BY <1>3, <3>1 DEF Owned
        <4> QED BY <1>0, <1>3, <3>1, <4>1
      <3> QED BY <1>2, <3>1 DEF RefundEligible, Passed
    <2>4. \E b \in {"stop", "cancel", "settle"} : ButtonsOf(v, at) = {b}
      <3>1. CASE ~t.number
        BY <2>2, <3>1, Buttons
      <3>2. CASE t.number /\ MayRefund(t, at)
        BY <2>2, <2>3, <3>2, Buttons
      <3>3. CASE t.number /\ ~MayRefund(t, at)
        BY <2>2, <3>3, Buttons
      <3> QED BY <2>2, <3>1, <3>2, <3>3
    <2> QED BY <2>4, FS_Singleton
  <1>8. ("cancel" \in ButtonsOf(v, later)) = (v.cancel /\ Refunds(t, later))
    BY <1>2, <1>5
  <1>9. ("start" \in ButtonsOf(v, later)) = Restarts(t)
    <2>1. "start" \in ButtonsOf(v, later) <=> v.start
      BY Buttons
    <2> DEFINE starts == t.status = "stopped" /\ ~t.number /\ ~t.token
    <2>2. v.start = starts /\ Restarts(t) = starts
      BY <1>2 DEF Restarts
    <2> HIDE DEF starts
    <2>3. starts \in BOOLEAN
      BY DEF starts
    <2> QED BY <2>1, <2>2, <2>3
  <1> QED BY <1>6, <1>7, <1>8, <1>9 DEF v
-----------------------------------------------------------------------------
(* The offer of a selection *)

LEMMA LeastIsZero ==
    ASSUME NEW S \in SUBSET Nat, 0 \in S
    PROVE  Min(S) = 0
  <1>1. \A x \in S : 0 <= x
    OBVIOUS
  <1>2. \A x \in S : (\A y \in S : x <= y) => x = 0
    OBVIOUS
  <1>3. (CHOOSE x \in S : \A y \in S : x <= y) = 0
    BY <1>1, <1>2
  <1> QED BY <1>3 DEF Min

LEMMA Forms ==
    ASSUME NEW country, NEW type, NEW hours
    PROVE  /\ HeroForm(country, type, hours).country = country
           /\ HeroForm(country, type, hours).type = type
           /\ HeroForm(country, type, hours).hours = hours
           /\ Offer(country, type, hours).country = country
           /\ Offer(country, type, hours).type = type
           /\ Offer(country, type, hours).hours = hours
           /\ \A x : [HeroForm(country, type, hours) EXCEPT !.type = x] = HeroForm(country, x, hours)
           /\ \A x : [HeroForm(country, type, hours) EXCEPT !.hours = x] = HeroForm(country, type, x)
           /\ \A c, t, h : Offer(c, t, h) = Offer(country, type, hours)
                              => c = country /\ t = type /\ h = hours
  <1> USE DEF HeroForm, Offer
  <1>1. /\ HeroForm(country, type, hours).country = country
        /\ HeroForm(country, type, hours).type = type
        /\ HeroForm(country, type, hours).hours = hours
        /\ Offer(country, type, hours).country = country
        /\ Offer(country, type, hours).type = type
        /\ Offer(country, type, hours).hours = hours
    OBVIOUS
  <1>2. ASSUME NEW x
        PROVE  [HeroForm(country, type, hours) EXCEPT !.type = x] = HeroForm(country, x, hours)
    OBVIOUS
  <1>3. ASSUME NEW x
        PROVE  [HeroForm(country, type, hours) EXCEPT !.hours = x] = HeroForm(country, type, x)
    OBVIOUS
  <1>4. ASSUME NEW c, NEW t, NEW h, Offer(c, t, h) = Offer(country, type, hours)
        PROVE  c = country /\ t = type /\ h = hours
    <2>1. /\ Offer(c, t, h).country = c /\ Offer(c, t, h).type = t /\ Offer(c, t, h).hours = h
      OBVIOUS
    <2> QED BY <1>1, <1>4, <2>1
  <1> QED BY <1>1, <1>2, <1>3, <1>4

LEMMA RentalIs ==
    ASSUME NEW rentals \in SUBSET Rentals, NEW o \in rentals
    PROVE  /\ o.type = "sms" /\ o.hours \in Nat /\ o.hours # 0 /\ o.hours # Unset
           /\ o.hours \in HeroHours /\ o = Offer(o.country, "sms", o.hours)
  <1>1. PICK c \in HeroCountries, h \in HeroHours : o = Offer(c, "sms", h)
    BY DEF Rentals
  <1>2. h \in Nat /\ h # 0 /\ h # Unset
    BY HeroRulesAssumption
  <1>3. o.country = c /\ o.type = "sms" /\ o.hours = h
    BY <1>1, Forms
  <1> QED BY <1>1, <1>2, <1>3

\* The duration that a form without one is given.
Picked(hours) == IF hours = Unset THEN 0 ELSE hours

\* A catalogue that was loaded for what is picked stands by the pick.
LEMMA LoadStands ==
    ASSUME NEW rentals \in SUBSET Rentals, NEW c \in HeroCountries, NEW type \in Types,
           NEW asked, asked = type \/ (asked = AnyType /\ type = "sms"),
           NEW hours \in {Unset, 0} \cup HeroHours,
           hours \in HeroHours => asked = "sms"
    PROVE  /\ Load(rentals, HeroForm(c, asked, hours)).form = HeroForm(c, type, Picked(hours))
           /\ ShowsWhatItBuys(Load(rentals, HeroForm(c, asked, hours)))
           /\ \A h \in DurationOptions(Load(rentals, HeroForm(c, asked, hours)).catalog,
                                       Load(rentals, HeroForm(c, asked, hours)).form) :
                 h = 0 \/ (type = "sms" /\ h \in HeroHours)
  <1> DEFINE form == HeroForm(c, asked, hours)
  <1> DEFINE catalog == Catalog(rentals, c, asked, hours)
  <1> DEFINE typed == HeroForm(c, type, hours)
  <1> DEFINE kept == IF asked = "call" THEN {} ELSE rentals
  <1> DEFINE h0 == Picked(hours)
  <1> DEFINE exact == Offer(c, type, h0)
  <1>0. /\ h0 \in Nat /\ h0 # Unset /\ (h0 # 0 => h0 \in HeroHours /\ type = "sms")
        /\ 0 # Unset /\ (hours # Unset => hours = h0) /\ (hours = Unset => h0 = 0)
    BY HeroRulesAssumption DEF Picked, Types, Unset
  <1>1. /\ form.country = c /\ form.type = asked /\ form.hours = hours
        /\ typed.country = c /\ typed.type = type /\ typed.hours = hours
        /\ exact.country = c /\ exact.type = type /\ exact.hours = h0
    BY Forms
  <1>2. asked # AnyType => asked = type
    OBVIOUS
  <1>3. /\ catalog.offers = kept \cup Exact(c, asked, hours)
        /\ catalog.durations = {o.hours : o \in kept}
    BY DEF Catalog
  <1>4. \A o \in Exact(c, asked, hours) : o.type = type => o = exact
    <2>1. CASE hours \notin {0, Unset}
      <3>1. Exact(c, asked, hours) = {Offer(c, "sms", hours)} /\ type = "sms" /\ hours = h0
        BY <1>0, <2>1 DEF Exact
      <3> QED BY <3>1
    <2>2. CASE hours \in {0, Unset}
      <3>1. h0 = 0
        BY <1>0, <2>2
      <3>2. \A o \in Exact(c, asked, hours) : \E t \in Types \cup {asked} : o = Offer(c, t, 0)
        BY <2>2 DEF Exact
      <3>3. \A t : Offer(c, t, 0).type = t
        BY Forms
      <3> QED BY <3>1, <3>2, <3>3
    <2> QED BY <2>1, <2>2
  <1>5. exact \in Exact(c, asked, hours)
    <2>1. CASE hours \notin {0, Unset}
      <3>1. Exact(c, asked, hours) = {Offer(c, "sms", hours)} /\ type = "sms" /\ hours = h0
        BY <1>0, <2>1 DEF Exact
      <3> QED BY <3>1
    <2>2. CASE hours \in {0, Unset}
      <3>1. Exact(c, asked, hours) = {Offer(c, t, 0) : t \in IF asked = AnyType THEN Types ELSE {asked}}
        BY <2>2 DEF Exact
      <3>2. h0 = 0 /\ type \in (IF asked = AnyType THEN Types ELSE {asked})
        BY <1>0, <1>2, <2>2
      <3> QED BY <3>1, <3>2
    <2> QED BY <2>1, <2>2
  <1>6. \A o \in kept : o \in rentals /\ (type = "call" => FALSE)
    BY DEF AnyType, Types
  <1> HIDE DEF form, catalog, typed, kept, h0, exact
  <1> DEFINE suits == Filtered(catalog, typed)
  <1>7. suits = {o \in kept \cup {exact} : o.country = c /\ o.type = type}
    <2>1. suits = {o \in catalog.offers : o.country = c /\ o.type = type}
      BY <1>1 DEF Filtered
    <2>2. \A o : (o \in catalog.offers /\ o.type = type) <=> (o \in kept \cup {exact} /\ o.type = type)
      BY <1>1, <1>3, <1>4, <1>5
    <2> QED BY <2>1, <2>2
  <1>8. exact \in suits
    BY <1>1, <1>7
  <1>9. \A o \in suits : /\ o.hours \in Nat /\ o.hours # Unset
                         /\ o = exact \/ (o.hours \in HeroHours /\ o = Offer(c, "sms", o.hours)
                                             /\ type = "sms")
    <2>1. ASSUME NEW o \in kept, o.country = c, o.type = type
          PROVE  /\ o.hours \in Nat /\ o.hours # Unset /\ o.hours \in HeroHours
                 /\ o = Offer(c, "sms", o.hours) /\ type = "sms"
      BY <1>6, <2>1, RentalIs
    <2> QED BY <1>0, <1>1, <1>7, <2>1
  <1> HIDE DEF suits
  <1> DEFINE options == DurationOptions(catalog, typed)
  <1>10. /\ h0 \in options /\ (h0 = 0 \/ hours = h0) /\ options \subseteq Nat /\ Unset \notin options
         /\ \A h \in options : h = 0 \/ (type = "sms" /\ h \in HeroHours)
    <2>1. CASE type = "call"
      <3>1. options = {0} /\ h0 = 0
        BY <1>0, <1>1, <2>1 DEF DurationOptions
      <3> QED BY <1>0, <3>1
    <2>2. CASE type # "call"
      <3>1. options = {o.hours : o \in suits}
        BY <1>1, <1>8, <2>2 DEF DurationOptions, suits
      <3>2. h0 \in options
        BY <1>1, <1>8, <3>1
      <3>3. options \subseteq Nat /\ Unset \notin options
        BY <1>9, <3>1
      <3>4. \A h \in options : h = 0 \/ (type = "sms" /\ h \in HeroHours)
        BY <1>0, <1>1, <1>9, <3>1
      <3> QED BY <1>0, <3>2, <3>3, <3>4
    <2> QED BY <2>1, <2>2
  <1> HIDE DEF options
  <1> DEFINE ensured == EnsureSelection(catalog, form)
  <1>11. ensured = HeroForm(c, type, h0)
    <2>1. [form EXCEPT !.type = IF @ = AnyType THEN "sms" ELSE @] = typed
      <3>1. (IF form.type = AnyType THEN "sms" ELSE form.type) = type
        BY <1>1, <1>2 DEF Types, AnyType
      <3>2. [form EXCEPT !.type = type] = typed
        BY Forms DEF form, typed
      <3> QED BY <3>1, <3>2
    <2>2. ensured = [typed EXCEPT !.hours = IF options = {} THEN Unset
                                            ELSE IF @ \in options THEN @ ELSE Min(options)]
      BY <2>1 DEF EnsureSelection, options
    <2>3. (IF options = {} THEN Unset ELSE IF typed.hours \in options THEN typed.hours
                                           ELSE Min(options)) = h0
      <3>1. CASE hours \in options
        <4>1. hours = h0
          BY <1>0, <1>10, <3>1
        <4> QED BY <1>1, <3>1, <4>1
      <3>2. CASE hours \notin options
        <4>1. h0 = 0
          BY <1>10, <3>2
        <4> QED BY <1>1, <1>10, <3>2, <4>1, LeastIsZero
      <3> QED BY <3>1, <3>2
    <2>4. \A x : [typed EXCEPT !.hours = x] = HeroForm(c, type, x)
      BY Forms DEF typed
    <2> QED BY <2>2, <2>3, <2>4
  <1> HIDE DEF ensured
  <1>12. ensured.country = c /\ ensured.type = type /\ ensured.hours = h0
    BY <1>11, Forms
  <1>13. Filtered(catalog, ensured) = suits
    BY <1>1, <1>12 DEF Filtered, suits
  <1>14. Matching(catalog, ensured) = {exact}
    <2>1. Matching(catalog, ensured) = {o \in suits : o.hours = h0}
      BY <1>0, <1>12, <1>13 DEF Matching
    <2>2. \A o \in suits : o.hours = h0 => o = exact
      BY <1>9 DEF exact
    <2> QED BY <1>1, <1>8, <2>1, <2>2
  <1>15. Asked(ensured) = exact
    BY <1>0, <1>12 DEF Asked, exact
  <1>16. DurationOptions(catalog, ensured) = options
    BY <1>1, <1>12, <1>13 DEF DurationOptions, options, suits
  <1>17. /\ Load(rentals, form).catalog = catalog /\ Load(rentals, form).form = ensured
    <2>1. Load(rentals, form) = [catalog |-> catalog, form |-> ensured]
      BY <1>1 DEF Load, catalog, ensured
    <2> QED BY <2>1
  <1>18. ShowsWhatItBuys(Load(rentals, form))
    BY <1>14, <1>15, <1>17 DEF ShowsWhatItBuys
  <1> QED BY <1>10, <1>11, <1>16, <1>17, <1>18 DEF form, h0

LEMMA OffersAreBought == OfferIsBought
  <1> SUFFICES ASSUME NEW rentals \in SUBSET Rentals, NEW c \in HeroCountries
               PROVE  LET first == Load(rentals, HeroForm(c, AnyType, Unset)) IN
                      /\ ShowsWhatItBuys(first)
                      /\ \A type \in Types :
                            LET second == Load(rentals, HeroForm(c, type, Unset)) IN
                            /\ second.form.type = type /\ ShowsWhatItBuys(second)
                            /\ \A hours \in DurationOptions(second.catalog, second.form) :
                                  LET third == Load(rentals, HeroForm(c, type, hours)) IN
                                  third.form = HeroForm(c, type, hours) /\ ShowsWhatItBuys(third)
    BY DEF OfferIsBought
  <1>1. ShowsWhatItBuys(Load(rentals, HeroForm(c, AnyType, Unset)))
    <2>1. "sms" \in Types /\ Unset \notin HeroHours
      BY HeroRulesAssumption DEF Types
    <2> QED BY <2>1, LoadStands
  <1>2. ASSUME NEW type \in Types
        PROVE  LET second == Load(rentals, HeroForm(c, type, Unset)) IN
               /\ second.form.type = type /\ ShowsWhatItBuys(second)
               /\ \A hours \in DurationOptions(second.catalog, second.form) :
                     hours = 0 \/ (type = "sms" /\ hours \in HeroHours)
    <2> DEFINE second == Load(rentals, HeroForm(c, type, Unset))
    <2>1. Unset \notin HeroHours
      BY HeroRulesAssumption
    <2>2. /\ second.form = HeroForm(c, type, Picked(Unset)) /\ ShowsWhatItBuys(second)
          /\ \A hours \in DurationOptions(second.catalog, second.form) :
                hours = 0 \/ (type = "sms" /\ hours \in HeroHours)
      BY <2>1, LoadStands
    <2> HIDE DEF second
    <2>3. second.form.type = type
      BY <2>2, Forms
    <2> QED BY <2>2, <2>3 DEF second
  <1>3. ASSUME NEW type \in Types, NEW hours, hours = 0 \/ (type = "sms" /\ hours \in HeroHours)
        PROVE  LET third == Load(rentals, HeroForm(c, type, hours)) IN
               third.form = HeroForm(c, type, hours) /\ ShowsWhatItBuys(third)
    <2>1. hours \in {Unset, 0} \cup HeroHours /\ (hours \in HeroHours => type = "sms")
          /\ Picked(hours) = hours
      BY <1>3, HeroRulesAssumption DEF Picked, Unset
    <2> QED BY <2>1, LoadStands
  <1> QED BY <1>1, <1>2, <1>3

\* While a task does not change, its refund and start buttons are what the server
\* would do, however long ago the page was told of it; a running task has one way to
\* end, and the offer on show is the one bought, for any instants, refund window,
\* countries and rental durations.
THEOREM RulesOfThePage == Spec => []RulesAgree
  <1>1. RulesAgree
    BY RefundsAgree, OffersAreBought DEF RulesAgree
  <1> QED BY <1>1, PTL
=============================================================================
