--------------------------- MODULE Sessions_proofs ---------------------------
(* Proofs about Sessions, for every machine: every set of places, whatever  *)
(* is in them at the start, and any number of writes.                       *)
EXTENDS Sessions, SequenceTheorems, TLAPS

-----------------------------------------------------------------------------
(* The order of the stores.  What is left of it is a number.                *)

Stores == 1..9
Names ==
  {"claude", "codex", "copilot", "agent_probe", "opencode", "codex_db", "hermes", "copilot_db",
   "extra"}
Left(n) == [i \in 1..n |-> StoreOrder[9 - n + i]]
At == 9 - Len(stores)

StoreOf(p) == IF p \in Extras THEN "extra" ELSE Info[p].agent
Rank(p) == CHOOSE i \in Stores : StoreOrder[i] = StoreOf(p)

-----------------------------------------------------------------------------
(* The inductive invariant.  Made are the records made so far, the one in   *)
(* hand among them.                                                         *)

Commands == [name : {"list", "delete"}, all : BOOLEAN, yes : BOOLEAN]
Made == listed \cup (IF pc = "record" THEN {current} ELSE {})

TypeInv ==
  /\ said \in [Places -> Texts \cup {Absent}]
  /\ active \subseteq Places /\ command \in Commands
  /\ pc \in {"store", "walk", "record", "prompt", "unlink", "done"}
  /\ Len(stores) \in 0..9 /\ stores = Left(Len(stores))
  /\ todo \subseteq Places
  /\ IF pc = "record" THEN current \in Records ELSE current = Absent
  /\ rollouts \subseteq {p \in LiveFiles : Info[p].agent = "codex"}
  /\ live \subseteq {Info[p].key : p \in Places}
  /\ listed \subseteq Records /\ matching \subseteq listed
  /\ steady \subseteq {p \in Places : said[p] # Absent}
  /\ checked \in [Places -> Texts \cup {<<>>, Absent}]

(* Where the walk is: what is found is of the store being walked, and what  *)
(* was reached is behind.                                                   *)
WalkInv ==
  /\ pc \notin {"walk", "record"} => todo = {}
  /\ Complete => stores = <<>>
  /\ \A p \in todo : Rank(p) = At
  /\ \A r \in Made : Rank(r.place) <= At /\ r.place \notin todo
  /\ pc = "record" => \A r \in listed : r.place # current.place

(* What a command may delete, and has.                                      *)
DeleteInv ==
  /\ matching # {} => command.name = "delete"
  /\ pc = "unlink" => command.yes
  /\ deleted # {} => pc \in {"unlink", "done"} /\ command.name = "delete" /\ command.yes
  /\ deleted \subseteq {r.place : r \in listed} \ Rows

(* A file and the one it is a backup of begin with the same message, while  *)
(* one of them is known to have begun with it.                              *)
Sources(q) == {p \in LiveFiles : q \in Extras /\ SameKey(p, q)}
BeginsSo(q, message, there, agents) ==
  \A p \in Sources(q) : Begun(p, message, there, agents)

TextInv ==
  /\ \A q \in Extras : said[q] # Absent => BeginsSo(q, said[q][1], said, active)
  /\ pc = "record" /\ current.first # Absent =>
       LET q == current.place IN
         /\ BeginsSo(q, current.first, said, active)
         /\ IF q \in Extras THEN said[q] # Absent => said[q][1] = current.first
                            ELSE Begun(q, current.first, said, active)

CheckInv ==
  \A p \in {r.place : r \in matching} \cup deleted :
    Info[p].agent \in {"claude", "codex"} => checked[p] = <<Message>>

(* What de-duplication goes by.                                             *)
NotedInv ==
  /\ \A r \in Made : r.place \in LiveFiles =>
       /\ Info[r.place].key \in live
       /\ Info[r.place].agent = "codex" => r.place \in rollouts
  /\ \A k \in live : \E r \in Made : r.place \in LiveFiles /\ Info[r.place].key = k
  /\ command.all => \A p \in rollouts : \E r \in Made : r.place = p

BaseInv == TypeInv /\ WalkInv /\ DeleteInv /\ TextInv /\ CheckInv /\ NotedInv

(* The two halves of SessionsAreListed, while the walk is under way.        *)
Apart ==
  \A r, o \in Made : ~KnownCopy(r.place, o.place) /\ (r # o => r.place # o.place)

Wanted(p) == (command.all \/ Info[p].ran \in {"here", "below"}) /\ ~Overlooked(p)
Found ==
  \A p \in steady : Wanted(p) =>
    \/ Info[p].session \in SessionsOf(Made)
    \/ p \in todo
    \/ Rank(p) > At

-----------------------------------------------------------------------------
(* Stores and records *)

LEMMA OrderIs ==
  /\ StoreOrder \in Seq(Names) /\ Len(StoreOrder) = 9 /\ StoreOrder = Left(9)
  /\ \A i, n \in Stores : StoreOrder[i] = StoreOrder[n] => i = n
<1>1. Len(StoreOrder) = 9 BY DEF StoreOrder
<1>7. StoreOrder \in Seq(Names) BY DEF StoreOrder, Names
<1>a. DOMAIN StoreOrder = 1..9 BY <1>1, <1>7
<1>2. \A i \in 1..9 : 9 - 9 + i = i OBVIOUS
<1>3. StoreOrder = [i \in 1..9 |-> StoreOrder[i]] BY <1>a, <1>7
<1>4. StoreOrder = Left(9) BY <1>2, <1>3 DEF Left
<1>5. \A i, n \in Stores : StoreOrder[i] = StoreOrder[n] => i = n BY DEF StoreOrder, Stores
<1>6. QED BY <1>1, <1>4, <1>5, <1>7

LEMMA LeftIs ==
  ASSUME NEW n \in 0..9
  PROVE  /\ Left(n) \in Seq(Names) /\ Len(Left(n)) = n
         /\ n # 0 => Left(n)[1] = StoreOrder[10 - n] /\ Tail(Left(n)) = Left(n - 1)
<1>1. \A i \in 1..n : 9 - n + i \in 1..9 OBVIOUS
<1>2. \A i \in 1..9 : StoreOrder[i] \in Names BY OrderIs
<1>3. Left(n) \in Seq(Names) /\ Len(Left(n)) = n
  <2>1. \A i \in 1..n : StoreOrder[9 - n + i] \in Names BY <1>1, <1>2
  <2>2. Left(n) \in [1..n -> Names] BY <2>1 DEF Left
  <2>3. QED BY <2>2
<1>4. ASSUME n # 0 PROVE Left(n)[1] = StoreOrder[10 - n] /\ Tail(Left(n)) = Left(n - 1)
  <2>1. n \in 1..9 /\ 1 \in 1..n /\ 9 - n + 1 = 10 - n BY <1>4
  <2>2. Left(n)[1] = StoreOrder[10 - n] BY <2>1 DEF Left
  <2>8. Left(n) # <<>> BY <1>3, <2>1
  <2>9. Tail(Left(n)) \in Seq(Names) /\ Len(Tail(Left(n))) = n - 1
        /\ \A i \in 1..(n - 1) : Tail(Left(n))[i] = Left(n)[i + 1]
    BY <1>3, <2>8, HeadTailProperties
  <2>b. \A t \in Seq(Names) : t \in [1..Len(t) -> Names] OBVIOUS
  <2>a. Tail(Left(n)) \in [1..(n - 1) -> Names] BY <2>9, <2>b
  <2>3. Tail(Left(n)) = [i \in 1..(n - 1) |-> Left(n)[i + 1]] BY <2>9, <2>a
  <2>4. \A i \in 1..(n - 1) : i + 1 \in 1..n /\ 9 - n + (i + 1) = 9 - (n - 1) + i BY <2>1
  <2>5. \A i \in 1..(n - 1) : Left(n)[i + 1] = StoreOrder[9 - (n - 1) + i] BY <2>4 DEF Left
  <2>6. Tail(Left(n)) = Left(n - 1) BY <2>3, <2>5 DEF Left
  <2>7. QED BY <2>2, <2>6
<1>5. QED BY <1>3, <1>4

LEMMA RankIs ==
  ASSUME NEW p \in Places
  PROVE  /\ Rank(p) \in Stores /\ StoreOrder[Rank(p)] = StoreOf(p)
         /\ \A i \in Stores : StoreOrder[i] = StoreOf(p) => i = Rank(p)
<1>1. \E i \in Stores : StoreOrder[i] = StoreOf(p)
  <2>1. CASE p \in Extras BY <2>1 DEF StoreOf, StoreOrder, Stores
  <2>2. CASE p \notin Extras
    <3>1. StoreOf(p) = Info[p].agent BY <2>2 DEF StoreOf
    <3>2. StoreOf(p) \in {"claude", "codex", "copilot", "agent_probe", "opencode", "codex_db",
                          "hermes", "copilot_db"}
      BY <3>1, KnownAgents
    <3>3. QED BY <3>2 DEF StoreOrder, Stores
  <2>3. QED BY <2>1, <2>2
<1>2. Rank(p) \in Stores /\ StoreOrder[Rank(p)] = StoreOf(p) BY <1>1 DEF Rank
<1>3. QED BY <1>2, OrderIs

(* Rollouts, then the rows that may name them, and extra folders last.      *)
LEMMA RanksAre ==
  ASSUME NEW p \in Places
  PROVE  /\ p \in Extras => Rank(p) = 9
         /\ p \notin Extras => Rank(p) \in 1..8
         /\ p \in LiveFiles /\ Info[p].agent = "codex" => Rank(p) = 2
         /\ Info[p].agent = "codex_db" => Rank(p) = 6
<1>1. Rank(p) \in Stores /\ StoreOrder[Rank(p)] = StoreOf(p)
      /\ \A i \in Stores : StoreOrder[i] = StoreOf(p) => i = Rank(p)
  BY RankIs
<1>2. StoreOrder[9] = "extra" /\ StoreOrder[2] = "codex" /\ StoreOrder[6] = "codex_db"
      /\ {2, 6, 9} \subseteq Stores
  BY DEF StoreOrder, Stores
<1>3. p \in Extras => Rank(p) = 9 BY <1>1, <1>2 DEF StoreOf
<1>4. ASSUME p \notin Extras PROVE Rank(p) \in 1..8
  <2>1. StoreOf(p) # "extra" BY <1>4, KnownAgents DEF StoreOf
  <2>2. Rank(p) # 9 BY <1>1, <1>2, <2>1
  <2>3. QED BY <1>1, <2>2 DEF Stores
<1>5. p \in LiveFiles /\ Info[p].agent = "codex" => Rank(p) = 2
  BY <1>1, <1>2 DEF StoreOf, LiveFiles
<1>6. Info[p].agent = "codex_db" => p \notin Extras BY ExtrasAreFiles DEF Rows
<1>7. Info[p].agent = "codex_db" => Rank(p) = 6 BY <1>1, <1>2, <1>6 DEF StoreOf
<1>8. QED BY <1>3, <1>4, <1>5, <1>7

-----------------------------------------------------------------------------
(* Steps *)

(* What is under way elsewhere leaves the command alone.                    *)
Writes == \/ \E p \in Places, m \in {Message, Other} : Say(p, m)
          \/ \E p, q \in Places : Backup(p, q)
          \/ \E p \in Places : Vanish(p)

LEMMA StepIsOf ==
  ASSUME Next
  PROVE  \/ OpenStore \/ CloseStore \/ Take \/ Listed \/ Confirm \/ Refuse \/ Unlinked \/ Writes
         \/ \E p \in Places : Reach(p)
         \/ \E r \in matching : Unlink(r)
BY DEF Next, Writes

LEMMA WritesKeep ==
  ASSUME Writes
  PROVE  UNCHANGED <<command, pc, walk, current, listed, matching, deleted, checked>>
BY DEF Writes, Say, Backup, Vanish, Elsewhere

LEMMA UnlinkKeeps ==
  ASSUME NEW r, Unlink(r)
  PROVE  /\ pc = "unlink" /\ UNCHANGED <<command, pc, walk, current, listed, checked>>
         /\ matching' \subseteq matching
BY DEF Unlink

(* A text grows or ends, and nothing else is said.                          *)
LEMMA TextsAre ==
  ASSUME NEW t \in Texts, NEW m \in {Message, Other}
  PROVE  /\ t[1] \in {Message, Other} /\ Append(t, m) \in Texts /\ Append(t, m)[1] = t[1]
         /\ <<m>> \in Texts /\ <<m>>[1] = m
         /\ t # Absent /\ Append(t, m) # Absent /\ <<m>> # Absent
         /\ Len(t) = 1 => t = <<t[1]>>
<1>1. t \in Seq({Message, Other}) /\ t # <<>> BY DEF Texts
<1>2. Len(t) \in Nat /\ Len(t) # 0 BY <1>1, EmptySeq
<1>3. 1 \in 1..Len(t) /\ t[1] \in {Message, Other} BY <1>1, <1>2
<1>4. Append(t, m) \in Seq({Message, Other}) /\ Len(Append(t, m)) = Len(t) + 1
      /\ Append(t, m)[1] = t[1]
  BY <1>1, <1>3
<1>5. Append(t, m) \in Texts BY <1>2, <1>4 DEF Texts
<1>6. <<m>> \in Seq({Message, Other}) /\ <<m>> # <<>> /\ <<m>>[1] = m OBVIOUS
<1>7. <<m>> \in Texts BY <1>6 DEF Texts
<1>8. ASSUME Len(t) = 1 PROVE t = <<t[1]>> BY <1>1, <1>8
<1>9. QED BY <1>3, <1>4, <1>5, <1>6, <1>7, <1>8, AbsentIsNoText

LEMMA FirstIs ==
  ASSUME TypeInv, NEW p \in Places
  PROVE  /\ First(p) \in {Message, Other, Absent}
         /\ First(p) # Absent => said[p] # Absent /\ First(p) = said[p][1]
<1>1. said[p] \in Texts \cup {Absent} BY DEF TypeInv
<1>2. said[p] # Absent => said[p][1] \in {Message, Other} BY <1>1, TextsAre
<1>3. QED BY <1>2 DEF First

(* What the world does keeps the types of the world.                        *)
LEMMA WorldType ==
  ASSUME TypeInv, Writes
  PROVE  /\ said' \in [Places -> Texts \cup {Absent}] /\ active' \subseteq active
         /\ steady' \subseteq steady /\ steady' \subseteq {p \in Places : said'[p] # Absent}
         /\ \A p \in Places : said[p] # Absent /\ said'[p] = Absent => p \notin active'
         /\ \A p \in Places : said[p] = Absent /\ said'[p] # Absent => p \in active \cup Extras
<1>1. said \in [Places -> Texts \cup {Absent}] /\ steady \subseteq {p \in Places : said[p] # Absent}
  BY DEF TypeInv
<1>2. CASE \E p \in Places, m \in {Message, Other} : Say(p, m)
  <2>1. PICK p \in Places, m \in {Message, Other} : Say(p, m) BY <1>2
  <2> DEFINE t == IF said[p] = Absent THEN <<m>> ELSE Append(said[p], m)
  <2>3. t \in Texts /\ t # Absent
    <3>1. CASE said[p] = Absent
      <4>1. <<m>> \in Texts BY DEF Texts
      <4>2. QED BY <3>1, <4>1, AbsentIsNoText
    <3>2. CASE said[p] # Absent
      <4>1. said[p] \in Texts BY <1>1, <3>2
      <4>2. QED BY <3>2, <4>1, TextsAre
    <3>3. QED BY <3>1, <3>2
  <2>4. said' = [said EXCEPT ![p] = t] /\ active' = active /\ steady' = steady /\ p \in active
    BY <2>1 DEF Say
  <2>5. QED BY <1>1, <2>3, <2>4
<1>3. CASE \E p, q \in Places : Backup(p, q)
  <2>1. PICK p, q \in Places : Backup(p, q) BY <1>3
  <2>2. said' = [said EXCEPT ![q] = said[p]] /\ said[p] # Absent /\ q \in Extras
        /\ active' = active /\ steady' = steady
    BY <2>1 DEF Backup
  <2>3. \A x \in Places : said'[x] = IF x = q THEN said[p] ELSE said[x] BY <1>1, <2>2
  <2>4. said' \in [Places -> Texts \cup {Absent}] BY <1>1, <2>2
  <2>5. QED BY <1>1, <2>2, <2>3, <2>4
<1>4. CASE \E p \in Places : Vanish(p)
  <2>1. PICK p \in Places : Vanish(p) BY <1>4
  <2>2. said' = [said EXCEPT ![p] = Absent] /\ active' = active \ {p} /\ steady' = steady \ {p}
    BY <2>1 DEF Vanish
  <2>3. \A x \in Places : said'[x] = IF x = p THEN Absent ELSE said[x] BY <1>1, <2>2
  <2>4. said' \in [Places -> Texts \cup {Absent}] BY <1>1, <2>2
  <2>5. QED BY <1>1, <2>2, <2>3, <2>4
<1>5. QED BY <1>2, <1>3, <1>4 DEF Writes

LEMMA UnlinkType ==
  ASSUME TypeInv, NEW r \in matching, Unlink(r)
  PROVE  /\ said' \in [Places -> Texts \cup {Absent}] /\ active' \subseteq active
         /\ steady' \subseteq steady /\ steady' \subseteq {p \in Places : said'[p] # Absent}
         /\ \A p \in Places : said'[p] # said[p] => said'[p] = Absent /\ p \notin active'
         /\ deleted' \subseteq deleted \cup {r.place} /\ (deleted' # deleted => r.place \notin Rows)
<1>1. said \in [Places -> Texts \cup {Absent}] /\ steady \subseteq {p \in Places : said[p] # Absent}
      /\ r.place \in Places
  BY DEF TypeInv, Records
<1>2. CASE Deletable(r.place)
  <2>1. said' = [said EXCEPT ![r.place] = Absent] /\ active' = active \ {r.place}
        /\ steady' = steady \ {r.place} /\ deleted' = deleted \cup {r.place}
    BY <1>2 DEF Unlink
  <2>3. \A x \in Places : said'[x] = IF x = r.place THEN Absent ELSE said[x] BY <1>1, <2>1
  <2>4. said' \in [Places -> Texts \cup {Absent}] BY <1>1, <2>1
  <2>2. QED BY <1>1, <1>2, <2>1, <2>3, <2>4 DEF Deletable
<1>3. CASE ~Deletable(r.place)
  <2>1. UNCHANGED <<said, active, steady, deleted>> BY <1>3 DEF Unlink
  <2>2. QED BY <1>1, <2>1
<1>4. QED BY <1>2, <1>3

LEMMA AtIs ==
  ASSUME TypeInv
  PROVE  At \in 0..9
<1>1. Len(stores) \in 0..9 BY DEF TypeInv
<1>2. \A n \in 0..9 : 9 - n \in 0..9 OBVIOUS
<1>3. QED BY <1>1, <1>2, Zenon DEF At

LEMMA OpenIs ==
  ASSUME TypeInv, OpenStore
  PROVE  /\ Len(stores) \in 1..9 /\ Len(stores') = Len(stores) - 1 /\ Len(stores') \in 0..9
         /\ stores' = Left(Len(stores')) /\ stores[1] = StoreOrder[At + 1] /\ At' = At + 1
         /\ At + 1 \in Stores
<1>1. Len(stores) \in 0..9 /\ stores = Left(Len(stores)) /\ stores # <<>> /\ stores' = Tail(stores)
  BY DEF TypeInv, OpenStore
<1>2. stores \in Seq(Names) BY <1>1, LeftIs
<1>3. Len(stores) # 0 BY <1>1, <1>2, EmptySeq
<1>4. stores[1] = StoreOrder[10 - Len(stores)] /\ stores' = Left(Len(stores) - 1)
  BY <1>1, <1>3, LeftIs
<1>5. Len(stores) - 1 \in 0..9 BY <1>1, <1>3
<1>6. Len(stores') = Len(stores) - 1 BY <1>4, <1>5, LeftIs
<1>7. 10 - Len(stores) = At + 1 /\ At' = At + 1 BY <1>1, <1>6 DEF At
<1>8. Len(stores) \in 1..9 BY <1>1, <1>3
<1>9. stores' = Left(Len(stores')) /\ stores[1] = StoreOrder[At + 1] BY <1>4, <1>6, <1>7, Zenon
<1>10. Len(stores') \in 0..9 BY <1>5, <1>6, Zenon
<1>12. \A n \in 1..9 : 10 - n \in Stores BY DEF Stores
<1>13. At + 1 \in Stores BY <1>7, <1>8, <1>12, Zenon
<1>11. QED BY <1>6, <1>7, <1>8, <1>9, <1>10, <1>13, Zenon

LEMMA TypeStep ==
  ASSUME TypeInv, [Next]_vars
  PROVE  TypeInv'
<1>1. CASE OpenStore
  <2>1. todo' \subseteq Places /\ pc = "store" /\ pc' = "walk" BY <1>1 DEF OpenStore
  <2>2. UNCHANGED <<said, active, command, steady, current, rollouts, live, listed, matching,
                    checked>>
    BY <1>1 DEF OpenStore, world
  <2>3. Len(stores') \in 0..9 /\ stores' = Left(Len(stores')) BY <1>1, OpenIs, Zenon
  <2>4. QED BY <2>1, <2>2, <2>3 DEF TypeInv
<1>2. CASE CloseStore \/ Listed \/ Refuse \/ Unlinked
  <2>1. UNCHANGED <<said, active, command, steady, current, stores, todo, rollouts, live, listed,
                    matching, checked>>
    BY <1>2 DEF CloseStore, Listed, Refuse, Unlinked, world, walk
  <2>2. pc # "record" /\ pc' \in {"store", "prompt", "unlink", "done"}
    BY <1>2 DEF CloseStore, Listed, Refuse, Unlinked
  <2>3. QED BY <2>1, <2>2 DEF TypeInv
<1>3. CASE Confirm
  <2>1. UNCHANGED <<said, active, steady, current, stores, todo, rollouts, live, listed, matching,
                    checked>>
    BY <1>3 DEF Confirm, world, walk
  <2>2. pc # "record" /\ pc' = "unlink" BY <1>3 DEF Confirm
  <2>3. command' \in Commands BY <1>3 DEF Confirm, TypeInv, Commands
  <2>4. QED BY <2>1, <2>2, <2>3 DEF TypeInv
<1>4. CASE Take
  <2>1. UNCHANGED <<said, active, command, steady, stores, todo, rollouts, live>>
    BY <1>4 DEF Take, world, walk
  <2>2. pc = "record" /\ pc' = "walk" /\ current' = Absent /\ current \in Records
    BY <1>4 DEF Take, TypeInv
  <2>3. current.place \in Places BY <2>2 DEF Records
  <2>4. listed' = listed \cup {current} /\ matching' \subseteq matching \cup {current}
        /\ matching' \subseteq listed'
    BY <1>4 DEF Take, TypeInv
  <2>5. listed' \subseteq Records BY <2>2, <2>4 DEF TypeInv
  <2>6. checked' \in [Places -> Texts \cup {<<>>, Absent}]
    <3>1. said[current.place] \in Texts \cup {<<>>, Absent} BY <2>3 DEF TypeInv
    <3>2. checked' = checked \/ checked' = [checked EXCEPT ![current.place] = said[current.place]]
      BY <1>4 DEF Take
    <3>3. QED BY <2>3, <3>1, <3>2 DEF TypeInv
  <2>7. QED BY <2>1, <2>2, <2>4, <2>5, <2>6 DEF TypeInv
<1>5. ASSUME NEW p \in Places, Reach(p) PROVE TypeInv'
  <2>1. UNCHANGED <<said, active, command, steady, stores, listed, matching, checked>>
    BY <1>5 DEF Reach, world
  <2>2. pc = "walk" /\ todo' = todo \ {p} BY <1>5 DEF Reach
  <2>3. rollouts' \subseteq {x \in LiveFiles : Info[x].agent = "codex"}
    <3>1. CASE Info[p].agent = "codex" /\ p \notin Extras
      <4>1. p \in LiveFiles BY <3>1 DEF LiveFiles, Rows
      <4>2. rollouts' = rollouts \cup {p} BY <1>5, <3>1 DEF Reach
      <4>3. QED BY <3>1, <4>1, <4>2 DEF TypeInv
    <3>2. CASE ~(Info[p].agent = "codex" /\ p \notin Extras)
      BY <1>5, <3>2 DEF Reach, TypeInv
    <3>3. QED BY <3>1, <3>2
  <2>4. live' \subseteq live \cup {KeyOf(p)} BY <1>5 DEF Reach
  <2>5. live' \subseteq {Info[x].key : x \in Places} BY <2>4 DEF KeyOf, TypeInv
  <2>6. CASE pc' = "record" /\ current' = [place |-> p, first |-> First(p)]
    <3>1. current' \in Records BY <2>6, FirstIs DEF Records
    <3>2. QED BY <2>1, <2>2, <2>3, <2>5, <2>6, <3>1 DEF TypeInv
  <2>7. CASE UNCHANGED <<pc, current>> BY <2>1, <2>2, <2>3, <2>5, <2>7 DEF TypeInv
  <2>8. QED BY <1>5, <2>6, <2>7 DEF Reach
<1>6. ASSUME NEW r \in matching, Unlink(r) PROVE TypeInv'
  <2>1. pc = "unlink" /\ UNCHANGED <<command, pc, stores, todo, rollouts, live, current, listed,
                                     checked>>
        /\ matching' \subseteq matching
    BY <1>6, UnlinkKeeps DEF walk
  <2>2. said' \in [Places -> Texts \cup {Absent}] /\ active' \subseteq active
        /\ steady' \subseteq {p \in Places : said'[p] # Absent}
    BY <1>6, UnlinkType
  <2>3. QED BY <2>1, <2>2 DEF TypeInv
<1>7. CASE Writes
  <2>1. UNCHANGED <<command, pc, stores, todo, rollouts, live, current, listed, matching, checked>>
    BY <1>7, WritesKeep DEF walk
  <2>2. said' \in [Places -> Texts \cup {Absent}] /\ active' \subseteq active
        /\ steady' \subseteq {p \in Places : said'[p] # Absent}
    BY <1>7, WorldType
  <2>3. QED BY <2>1, <2>2 DEF TypeInv
<1>8. CASE UNCHANGED vars BY <1>8 DEF vars, TypeInv
<1>9. QED BY <1>1, <1>2, <1>3, <1>4, <1>5, <1>6, <1>7, <1>8, StepIsOf

-----------------------------------------------------------------------------
(* What the walk has made *)

Yields(p) ==
  ~Skipped(p) /\ (command.all \/ (Info[p].agent = "claude" /\ p \notin Extras) \/ CwdMatches(p))
Rollout(p) == Info[p].agent = "codex" /\ p \notin Extras
RecordOf(p) == [place |-> p, first |-> First(p)]

LEMMA ReachIs ==
  ASSUME NEW p \in Places, Reach(p)
  PROVE  /\ pc = "walk" /\ p \in todo /\ todo' = todo \ {p} /\ Made = listed
         /\ UNCHANGED <<said, active, steady, writes, command, stores, listed, matching, deleted,
                        checked>>
         /\ rollouts' = IF Rollout(p) THEN rollouts \cup {p} ELSE rollouts
         /\ live' = IF Yields(p) /\ p \in LiveFiles THEN live \cup {Info[p].key} ELSE live
         /\ Yields(p) => pc' = "record" /\ current' = RecordOf(p) /\ Made' = Made \cup {RecordOf(p)}
         /\ ~Yields(p) => UNCHANGED <<pc, current>> /\ Made' = Made
<1>1. /\ pc = "walk" /\ p \in todo /\ todo' = todo \ {p}
      /\ UNCHANGED <<said, active, steady, writes, command, stores, listed, matching, deleted,
                     checked>>
  BY DEF Reach, world
<1>2. rollouts' = IF Rollout(p) THEN rollouts \cup {p} ELSE rollouts BY DEF Reach, Rollout
<1>3. live' = IF Yields(p) /\ p \in LiveFiles THEN live \cup {Info[p].key} ELSE live
  BY DEF Reach, Yields, KeyOf
<1>4. Yields(p) => pc' = "record" /\ current' = RecordOf(p) BY DEF Reach, Yields, RecordOf
<1>5. ~Yields(p) => UNCHANGED <<pc, current>> BY DEF Reach, Yields
<1>6. Made = listed BY <1>1 DEF Made
<1>7. Yields(p) => Made' = Made \cup {RecordOf(p)} BY <1>1, <1>4, <1>6 DEF Made
<1>8. ~Yields(p) => Made' = Made BY <1>1, <1>5 DEF Made
<1>9. QED BY <1>1, <1>2, <1>3, <1>4, <1>5, <1>6, <1>7, <1>8

LEMMA MadeStays ==
  ASSUME [Next]_vars, \A p \in Places : ~Reach(p)
  PROVE  Made' = Made
<1>1. CASE OpenStore \/ CloseStore \/ Listed \/ Confirm \/ Refuse \/ Unlinked
  BY <1>1 DEF OpenStore, CloseStore, Listed, Confirm, Refuse, Unlinked, Made
<1>2. CASE Take
  <2>1. pc = "record" /\ pc' = "walk" /\ listed' = listed \cup {current} BY <1>2 DEF Take
  <2>2. QED BY <2>1 DEF Made
<1>3. ASSUME NEW r \in matching, Unlink(r) PROVE Made' = Made BY <1>3, UnlinkKeeps DEF Made
<1>4. CASE Writes BY <1>4, WritesKeep DEF Made
<1>5. CASE UNCHANGED vars BY <1>5 DEF vars, Made
<1>6. QED BY <1>1, <1>2, <1>3, <1>4, <1>5, StepIsOf

LEMMA MadeAre ==
  ASSUME TypeInv
  PROVE  Made \subseteq Records /\ \A r \in Made : r.place \in Places
BY DEF TypeInv, Made, Records


LEMMA WalkStep ==
  ASSUME TypeInv, WalkInv, [Next]_vars
  PROVE  WalkInv'
<1>0. Made \subseteq Records /\ \A r \in Made : r.place \in Places BY MadeAre
<1>a. At \in 0..9 BY AtIs
<1>b. \A p \in Places : Rank(p) \in 1..9 BY RankIs DEF Stores
<1>1. CASE OpenStore
  <2>1. pc = "store" /\ pc' = "walk" /\ UNCHANGED <<current, listed>> BY <1>1 DEF OpenStore
  <2>2. At' = At + 1 /\ stores[1] = StoreOrder[At + 1] /\ Len(stores) \in 1..9
    BY <1>1, OpenIs, Zenon
  <2>3. At + 1 \in Stores BY <1>1, OpenIs, Zenon
  <2>4. ASSUME NEW p \in todo' PROVE Rank(p) = At'
    <3>1. p \in Places /\ InStore(p, stores[1]) BY <1>1, <2>4 DEF OpenStore
    <3>2. StoreOf(p) = stores[1] BY <3>1 DEF InStore, StoreOf
    <3>3. QED BY <2>2, <2>3, <3>1, <3>2, RankIs
  <2>5. Made' = Made BY <2>1 DEF Made
  <2>6. ASSUME NEW r \in Made PROVE Rank(r.place) <= At' /\ r.place \notin todo'
    <3>1. Rank(r.place) <= At /\ Rank(r.place) \in 1..9 BY <1>0, <1>b DEF WalkInv
    <3>2. Rank(r.place) <= At + 1 /\ Rank(r.place) # At + 1 BY <3>1, <1>a
    <3>3. QED BY <2>2, <2>4, <3>2
  <2>7. QED BY <2>1, <2>4, <2>5, <2>6 DEF WalkInv, Complete
<1>2. CASE CloseStore \/ Listed \/ Confirm \/ Refuse \/ Unlinked
  <2>1. UNCHANGED <<current, stores, todo, listed>> /\ pc # "record" /\ pc' # "record"
    BY <1>2 DEF CloseStore, Listed, Confirm, Refuse, Unlinked, walk
  <2>2. At' = At /\ Made' = Made BY <2>1 DEF At, Made
  <2>3. pc' \notin {"walk", "record"} => todo' = {}
    BY <1>2, <2>1 DEF CloseStore, Listed, Confirm, Refuse, Unlinked, WalkInv
  <2>4. Complete' => stores' = <<>>
    BY <1>2, <2>1 DEF CloseStore, Listed, Confirm, Refuse, Unlinked, WalkInv, Complete
  <2>5. QED BY <2>1, <2>2, <2>3, <2>4 DEF WalkInv
<1>3. CASE Take
  <2>1. pc = "record" /\ pc' = "walk" /\ UNCHANGED <<stores, todo>> BY <1>3 DEF Take, walk
  <2>2. At' = At /\ Made' = Made
    <3>1. listed' = listed \cup {current} BY <1>3 DEF Take
    <3>2. QED BY <2>1, <3>1 DEF At, Made
  <2>3. QED BY <2>1, <2>2 DEF WalkInv, Complete
<1>4. ASSUME NEW p \in Places, Reach(p) PROVE WalkInv'
  <2>1. /\ pc = "walk" /\ p \in todo /\ todo' = todo \ {p} /\ Made = listed
        /\ UNCHANGED <<stores, listed>>
        /\ Yields(p) => pc' = "record" /\ current' = RecordOf(p) /\ Made' = Made \cup {RecordOf(p)}
        /\ ~Yields(p) => UNCHANGED <<pc, current>> /\ Made' = Made
    BY <1>4, ReachIs
  <2>2. At' = At /\ Rank(p) = At /\ RecordOf(p).place = p BY <2>1 DEF At, WalkInv, RecordOf
  <2>3. ASSUME NEW r \in Made' PROVE Rank(r.place) <= At /\ r.place \notin todo'
    <3>1. CASE r \in Made BY <2>1, <3>1 DEF WalkInv
    <3>2. CASE r = RecordOf(p) BY <1>a, <2>1, <2>2, <3>2
    <3>3. QED BY <2>1, <2>3, <3>1, <3>2
  <2>4. pc' = "record" => \A r \in listed' : r.place # current'.place
    BY <2>1, <2>2 DEF WalkInv
  <2>5. pc' \in {"walk", "record"} BY <2>1
  <2>6. \A x \in todo' : Rank(x) = At' BY <2>1, <2>2 DEF WalkInv
  <2>7. QED BY <2>2, <2>3, <2>4, <2>5, <2>6 DEF WalkInv, Complete
<1>5. ASSUME NEW r \in matching, Unlink(r) PROVE WalkInv'
  <2>1. UNCHANGED <<pc, stores, todo, current, listed>> BY <1>5, UnlinkKeeps DEF walk
  <2>2. QED BY <2>1 DEF WalkInv, Made, At, Complete
<1>6. CASE Writes
  <2>1. UNCHANGED <<pc, stores, todo, current, listed>> BY <1>6, WritesKeep DEF walk
  <2>2. QED BY <2>1 DEF WalkInv, Made, At, Complete
<1>7. CASE UNCHANGED vars BY <1>7 DEF vars, WalkInv, Made, At, Complete
<1>8. QED BY <1>1, <1>2, <1>3, <1>4, <1>5, <1>6, <1>7, StepIsOf

-----------------------------------------------------------------------------
(* What is deleted *)

LEMMA DeleteStep ==
  ASSUME TypeInv, DeleteInv, [Next]_vars
  PROVE  DeleteInv'
<1>1. CASE OpenStore \/ CloseStore \/ Listed \/ Refuse \/ Unlinked
  <2>1. UNCHANGED <<command, matching, deleted, listed>>
    BY <1>1 DEF OpenStore, CloseStore, Listed, Refuse, Unlinked
  <2>2. pc \notin {"unlink", "done"} \/ pc' = "done"
    BY <1>1 DEF OpenStore, CloseStore, Listed, Refuse, Unlinked
  <2>3. pc' = "unlink" => command.yes
    BY <1>1 DEF OpenStore, CloseStore, Listed, Refuse, Unlinked
  <2>4. QED BY <2>1, <2>2, <2>3 DEF DeleteInv
<1>2. CASE Confirm
  <2>1. pc = "prompt" /\ pc' = "unlink" /\ UNCHANGED <<matching, deleted, listed>>
    BY <1>2 DEF Confirm
  <2>2. command'.name = command.name /\ command'.yes
    BY <1>2 DEF Confirm, TypeInv, Commands
  <2>3. deleted = {} BY <2>1 DEF DeleteInv
  <2>4. QED BY <2>1, <2>2, <2>3 DEF DeleteInv
<1>3. CASE Take
  <2>1. pc = "record" /\ pc' = "walk" /\ UNCHANGED <<command, deleted>> BY <1>3 DEF Take
  <2>2. matching' # matching => command.name = "delete" BY <1>3 DEF Take
  <2>3. deleted = {} BY <2>1 DEF DeleteInv
  <2>4. QED BY <2>1, <2>2, <2>3 DEF DeleteInv
<1>4. ASSUME NEW p \in Places, Reach(p) PROVE DeleteInv'
  <2>1. pc = "walk" /\ pc' \in {"walk", "record"}
        /\ UNCHANGED <<command, listed, matching, deleted>>
    BY <1>4, ReachIs
  <2>2. QED BY <2>1 DEF DeleteInv
<1>5. ASSUME NEW r \in matching, Unlink(r) PROVE DeleteInv'
  <2>1. pc = "unlink" /\ UNCHANGED <<command, pc, listed>> /\ matching' \subseteq matching
    BY <1>5, UnlinkKeeps
  <2>2. deleted' \subseteq deleted \cup {r.place} /\ (deleted' # deleted => r.place \notin Rows)
    BY <1>5, UnlinkType
  <2>3. command.name = "delete" /\ command.yes BY <1>5, <2>1 DEF DeleteInv
  <2>4. r \in listed BY <1>5 DEF TypeInv
  <2>5. deleted' \subseteq {x.place : x \in listed'} \ Rows BY <2>1, <2>2, <2>4 DEF DeleteInv
  <2>6. QED BY <2>1, <2>3, <2>5 DEF DeleteInv
<1>6. CASE Writes
  <2>1. UNCHANGED <<command, pc, listed, matching, deleted>> BY <1>6, WritesKeep
  <2>2. QED BY <2>1 DEF DeleteInv
<1>7. CASE UNCHANGED vars BY <1>7 DEF vars, DeleteInv
<1>8. QED BY <1>1, <1>2, <1>3, <1>4, <1>5, <1>6, <1>7, StepIsOf

(* A file that begins with a message goes on beginning with it, or is gone; *)
(* so do those that what is there may be a copy of.                         *)
LEMMA BegunStays ==
  ASSUME TypeInv, TextInv, Writes \/ \E r \in matching : Unlink(r),
         NEW p \in Places, p \notin Extras, NEW f, Begun(p, f, said, active)
  PROVE  Begun(p, f, said', active')
<1>0. said \in [Places -> Texts \cup {Absent}] BY DEF TypeInv
<1>1. ASSUME NEW x \in Places, NEW m \in {Message, Other}, Say(x, m)
      PROVE  Begun(p, f, said', active')
  <2>1. x \in active /\ active' = active
        /\ said' = [said EXCEPT ![x] = IF said[x] = Absent THEN <<m>> ELSE Append(said[x], m)]
    BY <1>1 DEF Say
  <2>2. CASE x # p BY <1>0, <2>1, <2>2 DEF Begun
  <2>3. CASE x = p
    <3>1. said[p] # Absent /\ said[p] \in Texts BY <1>0, <2>1, <2>3 DEF Begun
    <3>2. said'[p] = Append(said[p], m) BY <1>0, <2>1, <2>3, <3>1
    <3>3. said'[p] # Absent /\ said'[p][1] = said[p][1] BY <3>1, <3>2, TextsAre
    <3>4. QED BY <3>1, <3>3 DEF Begun
  <2>4. QED BY <2>2, <2>3
<1>2. ASSUME NEW x \in Places, NEW q \in Places, Backup(x, q) PROVE Begun(p, f, said', active')
  <2>1. q \in Extras /\ active' = active /\ said' = [said EXCEPT ![q] = said[x]] BY <1>2 DEF Backup
  <2>2. said'[p] = said[p] BY <1>0, <2>1
  <2>3. QED BY <2>1, <2>2 DEF Begun
<1>3. ASSUME NEW x \in Places, Vanish(x) PROVE Begun(p, f, said', active')
  <2>1. active' = active \ {x} /\ said' = [said EXCEPT ![x] = Absent] BY <1>3 DEF Vanish
  <2>2. \A y \in Places : said'[y] = IF y = x THEN Absent ELSE said[y] BY <1>0, <2>1
  <2>3. QED BY <2>1, <2>2 DEF Begun
<1>4. ASSUME NEW r \in matching, Unlink(r) PROVE Begun(p, f, said', active')
  <2>1. /\ active' \subseteq active
        /\ \A y \in Places : said'[y] # said[y] => said'[y] = Absent /\ y \notin active'
    BY <1>4, UnlinkType
  <2>2. QED BY <2>1 DEF Begun
<1>5. QED BY <1>1, <1>2, <1>3, <1>4 DEF Writes

LEMMA TextStep ==
  ASSUME TypeInv, WalkInv, TextInv, [Next]_vars
  PROVE  TextInv'
<1>0. said \in [Places -> Texts \cup {Absent}] BY DEF TypeInv
<1>a. \A q : Sources(q) \subseteq Places /\ Sources(q) \cap Extras = {} BY DEF Sources, LiveFiles
<1>1. CASE UNCHANGED <<said, active>> /\ (pc' = "record" => pc = "record" /\ current' = current)
  BY <1>1 DEF TextInv, BeginsSo
<1>2. ASSUME NEW p \in Places, Reach(p) PROVE TextInv'
  <2>1. /\ UNCHANGED <<said, active>> /\ pc = "walk"
        /\ Yields(p) => pc' = "record" /\ current' = RecordOf(p)
        /\ ~Yields(p) => UNCHANGED <<pc, current>>
    BY <1>2, ReachIs
  <2>2. CASE ~Yields(p) BY <1>1, <2>1, <2>2
  <2>3. CASE Yields(p) /\ First(p) # Absent
    <3>1. First(p) = said[p][1] /\ said[p] # Absent BY <2>3, FirstIs
    <3>2. p \in Extras => BeginsSo(p, said[p][1], said, active) BY <3>1 DEF TextInv
    <3>3. p \notin Extras => Sources(p) = {} BY DEF Sources
    <3>4. BeginsSo(p, said[p][1], said, active) BY <3>2, <3>3 DEF BeginsSo
    <3>5. Begun(p, said[p][1], said, active) BY <3>1 DEF Begun
    <3>6. current'.place = p /\ current'.first = said[p][1] BY <2>1, <2>3, <3>1 DEF RecordOf
    <3>7. QED BY <2>1, <3>1, <3>4, <3>5, <3>6 DEF TextInv, BeginsSo
  <2>4. CASE Yields(p) /\ First(p) = Absent
    <3>1. current'.first = Absent BY <2>1, <2>4 DEF RecordOf
    <3>2. QED BY <2>1, <3>1 DEF TextInv, BeginsSo
  <2>5. QED BY <2>2, <2>3, <2>4
<1>3. ASSUME Writes \/ \E r \in matching : Unlink(r) PROVE TextInv'
  <2>1. UNCHANGED <<pc, current>> BY <1>3, WritesKeep, UnlinkKeeps
  <2>2. ASSUME NEW q, NEW f, BeginsSo(q, f, said, active) PROVE BeginsSo(q, f, said', active')
    BY <1>3, <1>a, <2>2, BegunStays DEF BeginsSo
  <2>3. ASSUME NEW q \in Extras
        PROVE  \/ said'[q] = Absent \/ said'[q] = said[q]
               \/ \E x \in Sources(q) : said[x] # Absent /\ said'[q] = said[x]
    <3>1. q \in Places BY DEF Extras
    <3>2. ASSUME NEW x \in Places, NEW m \in {Message, Other}, Say(x, m) PROVE said'[q] = said[q]
      BY <1>0, <3>1, <3>2 DEF Say
    <3>3. ASSUME NEW x \in Places, NEW y \in Places, Backup(x, y)
          PROVE  said'[q] = said[q] \/ (x \in Sources(q) /\ said[x] # Absent /\ said'[q] = said[x])
      <4>1. said' = [said EXCEPT ![y] = said[x]]
            /\ x \in LiveFiles /\ SameKey(x, y) /\ said[x] # Absent
        BY <3>3 DEF Backup
      <4>2. CASE y = q
        <5>1. x \in Sources(q) BY <4>1, <4>2 DEF Sources
        <5>2. QED BY <1>0, <3>1, <4>1, <4>2, <5>1
      <4>3. CASE y # q BY <1>0, <3>1, <4>1, <4>3
      <4>4. QED BY <4>2, <4>3
    <3>4. ASSUME NEW x \in Places, Vanish(x) PROVE said'[q] = said[q] \/ said'[q] = Absent
      BY <1>0, <3>1, <3>4 DEF Vanish
    <3>5. ASSUME NEW r \in matching, Unlink(r) PROVE said'[q] = said[q] \/ said'[q] = Absent
      BY <3>1, <3>5, UnlinkType
    <3>6. QED BY <1>3, <3>2, <3>3, <3>4, <3>5 DEF Writes
  <2>4. ASSUME NEW q \in Extras, NEW f, BeginsSo(q, f, said, active),
               said[q] # Absent => said[q][1] = f,
               said'[q] # Absent
        PROVE  said'[q][1] = f
    <3>1. CASE said'[q] = said[q] BY <2>4, <3>1
    <3>2. CASE \E x \in Sources(q) : said[x] # Absent /\ said'[q] = said[x]
      BY <2>4, <3>2 DEF BeginsSo, Begun
    <3>3. QED BY <2>3, <2>4, <3>1, <3>2
  <2>5. ASSUME NEW q \in Extras, said'[q] # Absent PROVE BeginsSo(q, said'[q][1], said', active')
    <3>1. CASE said'[q] = said[q]
      <4>1. BeginsSo(q, said[q][1], said, active) BY <2>5, <3>1 DEF TextInv
      <4>2. QED BY <2>2, <3>1, <4>1
    <3>2. CASE \E x \in Sources(q) : said[x] # Absent /\ said'[q] = said[x]
      <4>1. PICK x \in Sources(q) : said[x] # Absent /\ said'[q] = said[x] BY <3>2
      <4>2. Sources(q) = {x}
        <5>1. ASSUME NEW y \in Sources(q) PROVE y = x
          <6>1. x \in LiveFiles /\ y \in LiveFiles /\ SameKey(x, y) BY DEF Sources, SameKey
          <6>2. QED BY <6>1, KeysIdentify
        <5>2. QED BY <5>1
      <4>3. Begun(x, said[x][1], said, active) BY <4>1 DEF Begun
      <4>4. BeginsSo(q, said[x][1], said, active) BY <4>2, <4>3 DEF BeginsSo
      <4>5. QED BY <2>2, <4>1, <4>4
    <3>3. QED BY <2>3, <2>5, <3>1, <3>2
  <2>6. ASSUME pc' = "record", current'.first # Absent
        PROVE  LET q == current'.place IN
                 /\ BeginsSo(q, current'.first, said', active')
                 /\ IF q \in Extras THEN said'[q] # Absent => said'[q][1] = current'.first
                                    ELSE Begun(q, current'.first, said', active')
    <3> DEFINE q == current.place
               f == current.first
    <3>1. /\ pc = "record" /\ current' = current /\ BeginsSo(q, f, said, active)
          /\ IF q \in Extras THEN said[q] # Absent => said[q][1] = f ELSE Begun(q, f, said, active)
      BY <2>1, <2>6 DEF TextInv
    <3>2. q \in Places BY <3>1 DEF TypeInv, Records
    <3> HIDE DEF q, f
    <3>3. \A x \in Sources(q) : Begun(x, f, said', active')
      BY <1>3, <1>a, <3>1, BegunStays DEF BeginsSo
    <3>4. CASE q \in Extras BY <2>4, <3>1, <3>3, <3>4 DEF q, f, BeginsSo
    <3>5. CASE q \notin Extras
      <4>1. Begun(q, f, said', active') BY <1>3, <3>1, <3>2, <3>5, BegunStays
      <4>2. QED BY <3>1, <3>3, <3>5, <4>1 DEF q, f, BeginsSo
    <3>6. QED BY <3>4, <3>5
  <2>7. QED BY <2>5, <2>6 DEF TextInv
<1>4. CASE \/ OpenStore \/ CloseStore \/ Take \/ Listed \/ Confirm \/ Refuse \/ Unlinked
           \/ UNCHANGED vars
  <2>1. UNCHANGED <<said, active>> /\ (pc' = "record" => pc = "record" /\ current' = current)
    BY <1>4 DEF OpenStore, CloseStore, Take, Listed, Confirm, Refuse, Unlinked, vars, world
  <2>2. QED BY <1>1, <2>1
<1>5. QED BY <1>2, <1>3, <1>4, StepIsOf

LEMMA CheckStep ==
  ASSUME TypeInv, WalkInv, DeleteInv, TextInv, CheckInv, [Next]_vars
  PROVE  CheckInv'
<1>1. CASE Take
  <2> DEFINE p == current.place
             picked == command.name = "delete" /\ current.first = Message /\ IsSingle(p)
  <2>1. /\ pc = "record" /\ deleted' = deleted
        /\ matching' = IF picked THEN matching \cup {current} ELSE matching
        /\ checked' = IF command.name = "delete" THEN [checked EXCEPT ![p] = said[p]] ELSE checked
    BY <1>1, Zenon DEF Take
  <2>2. p \in Places BY <2>1 DEF TypeInv, Records
  <2>3. deleted = {} BY <2>1 DEF DeleteInv
  <2>a. checked \in [Places -> Texts \cup {<<>>, Absent}] BY DEF TypeInv
  <2>b. DOMAIN checked = Places BY <2>a
  <2>4. \A x \in Places : x # p => checked'[x] = checked[x] BY <2>1, <2>b
  <2>5. ASSUME NEW r \in matching, Info[r.place].agent \in {"claude", "codex"}
        PROVE  checked'[r.place] = <<Message>>
    <3>1. r \in listed /\ r.place \in Places BY DEF TypeInv, Records
    <3>2. r.place # p BY <2>1, <3>1 DEF WalkInv
    <3>3. checked[r.place] = <<Message>> BY <2>5 DEF CheckInv
    <3>4. QED BY <2>4, <3>1, <3>2, <3>3
  <2>6. ASSUME picked, Info[p].agent \in {"claude", "codex"} PROVE checked'[p] = <<Message>>
    <3>1. checked'[p] = said[p] BY <2>1, <2>2, <2>6, <2>b
    <3>2. said[p] # Absent /\ Len(said[p]) = 1 BY <2>6 DEF IsSingle
    <3>3. said[p] \in Texts BY <2>2, <3>2 DEF TypeInv
    <3>4. said[p][1] = Message
      <4>1. current.first = Message /\ current.first # Absent BY <2>6, AbsentIsNoText
      <4>2. CASE p \in Extras BY <2>1, <3>2, <4>1, <4>2 DEF TextInv
      <4>3. CASE p \notin Extras
        <5>1. Begun(p, Message, said, active) BY <2>1, <4>1, <4>3 DEF TextInv
        <5>2. QED BY <3>2, <5>1 DEF Begun
      <4>4. QED BY <4>2, <4>3
    <3>5. said[p] = <<said[p][1]>> BY <3>2, <3>3, TextsAre
    <3>6. QED BY <3>1, <3>4, <3>5
  <2> HIDE DEF p, picked
  <2>7. ASSUME NEW r \in matching', Info[r.place].agent \in {"claude", "codex"}
        PROVE  checked'[r.place] = <<Message>>
    <3>1. CASE r \in matching BY <2>5, <2>7, <3>1
    <3>2. CASE picked /\ r = current BY <2>6, <2>7, <3>2 DEF p
    <3>3. QED BY <2>1, <2>7, <3>1, <3>2
  <2>8. QED BY <2>1, <2>3, <2>7 DEF CheckInv
<1>2. ASSUME NEW r \in matching, Unlink(r) PROVE CheckInv'
  <2>1. checked' = checked /\ matching' \subseteq matching BY <1>2, UnlinkKeeps
  <2>2. deleted' \subseteq deleted \cup {r.place} BY <1>2, UnlinkType
  <2>3. QED BY <2>1, <2>2 DEF CheckInv
<1>3. ASSUME NEW p \in Places, Reach(p) PROVE CheckInv'
  <2>1. UNCHANGED <<matching, deleted, checked>> BY <1>3, ReachIs
  <2>2. QED BY <2>1 DEF CheckInv
<1>4. CASE \/ OpenStore \/ CloseStore \/ Listed \/ Confirm \/ Refuse \/ Unlinked \/ Writes
           \/ UNCHANGED vars
  <2>1. UNCHANGED <<matching, deleted, checked>>
    BY <1>4, WritesKeep DEF OpenStore, CloseStore, Listed, Confirm, Refuse, Unlinked, vars
  <2>2. QED BY <2>1 DEF CheckInv
<1>5. QED BY <1>1, <1>2, <1>3, <1>4, StepIsOf

-----------------------------------------------------------------------------
(* What de-duplication goes by *)

(* A backup that says where it ran in its payload only is not of a local    *)
(* listing.                                                                 *)
(* A command keeps its scope, and the rollouts that were walked.            *)
LEMMA ScopeStays ==
  ASSUME TypeInv, [Next]_vars
  PROVE  command'.all = command.all
<1>1. CASE Confirm BY <1>1 DEF Confirm, TypeInv, Commands
<1>2. ASSUME NEW p \in Places, Reach(p) PROVE command' = command BY <1>2, ReachIs
<1>3. CASE ~Confirm
  <2>1. command' = command
    BY <1>2, <1>3, StepIsOf, WritesKeep, UnlinkKeeps
    DEF OpenStore, CloseStore, Take, Listed, Refuse, Unlinked, vars
  <2>2. QED BY <2>1
<1>4. QED BY <1>1, <1>3

LEMMA RolloutsStay ==
  ASSUME [Next]_vars
  PROVE  rollouts \subseteq rollouts'
<1>1. ASSUME NEW p \in Places, Reach(p) PROVE rollouts \subseteq rollouts' BY <1>1, ReachIs
<1>2. ASSUME \A p \in Places : ~Reach(p) PROVE rollouts' = rollouts
  BY <1>2, StepIsOf, WritesKeep, UnlinkKeeps
  DEF OpenStore, CloseStore, Take, Listed, Confirm, Refuse, Unlinked, walk, vars
<1>3. QED BY <1>1, <1>2

LEMMA NotedStep ==
  ASSUME TypeInv, NotedInv, [Next]_vars
  PROVE  NotedInv'
<1>1. ASSUME NEW p \in Places, Reach(p) PROVE NotedInv'
  <2> DEFINE r == RecordOf(p)
  <2>1. /\ UNCHANGED command
        /\ rollouts' = IF Rollout(p) THEN rollouts \cup {p} ELSE rollouts
        /\ live' = IF Yields(p) /\ p \in LiveFiles THEN live \cup {Info[p].key} ELSE live
        /\ Yields(p) => Made' = Made \cup {r}
        /\ ~Yields(p) => Made' = Made
    BY <1>1, ReachIs
  <2>2. r.place = p BY DEF RecordOf
  <2>3. Rollout(p) => ~Skipped(p) BY DEF Rollout, Skipped
  <2>4. p \in LiveFiles /\ Info[p].agent = "codex" => Rollout(p) BY DEF Rollout, LiveFiles
  <2> HIDE DEF r
  <2>5. \A o \in Made' : o.place \in LiveFiles =>
          /\ Info[o.place].key \in live'
          /\ Info[o.place].agent = "codex" => o.place \in rollouts'
    <3>1. \A o \in Made : o.place \in LiveFiles =>
            /\ Info[o.place].key \in live
            /\ Info[o.place].agent = "codex" => o.place \in rollouts
      BY DEF NotedInv
    <3>2. live \subseteq live' /\ rollouts \subseteq rollouts' BY <2>1
    <3>3. Yields(p) /\ p \in LiveFiles => Info[p].key \in live' BY <2>1
    <3>4. p \in LiveFiles /\ Info[p].agent = "codex" => p \in rollouts' BY <2>1, <2>4
    <3>5. \A o \in Made' : o \in Made \/ (o = r /\ Yields(p)) BY <2>1
    <3>6. QED BY <2>2, <3>1, <3>2, <3>3, <3>4, <3>5
  <2>6. \A k \in live' : \E o \in Made' : o.place \in LiveFiles /\ Info[o.place].key = k
    <3>1. \A k \in live : \E o \in Made : o.place \in LiveFiles /\ Info[o.place].key = k
      BY DEF NotedInv
    <3>2. Made \subseteq Made' BY <2>1
    <3>3. ASSUME Yields(p), p \in LiveFiles
          PROVE \E o \in Made' : o.place \in LiveFiles /\ Info[o.place].key = Info[p].key
      BY <2>1, <2>2, <3>3
    <3>4. QED BY <2>1, <3>1, <3>2, <3>3
  <2>7. command.all => \A x \in rollouts' : \E o \in Made' : o.place = x
    <3>1. command.all => \A x \in rollouts : \E o \in Made : o.place = x BY DEF NotedInv
    <3>2. Made \subseteq Made' BY <2>1
    <3>3. ASSUME command.all, Rollout(p) PROVE \E o \in Made' : o.place = p
      <4>1. Yields(p) BY <2>3, <3>3 DEF Yields
      <4>2. QED BY <2>1, <2>2, <4>1
    <3>4. QED BY <2>1, <3>1, <3>2, <3>3
    <2>9. QED BY <2>1, <2>5, <2>6, <2>7 DEF NotedInv
<1>2. ASSUME UNCHANGED <<rollouts, live>>, command'.all = command.all, Made' = Made PROVE NotedInv'
  BY <1>2 DEF NotedInv
<1>3. ASSUME \A p \in Places : ~Reach(p) PROVE NotedInv'
  <2>1. Made' = Made BY <1>3, MadeStays
  <2>2. UNCHANGED <<rollouts, live>>
    BY <1>3, StepIsOf, WritesKeep, UnlinkKeeps
    DEF OpenStore, CloseStore, Take, Listed, Confirm, Refuse, Unlinked, walk, vars
    <2>3. command'.all = command.all BY ScopeStays
  <2>4. QED BY <1>2, <2>1, <2>2, <2>3
<1>4. QED BY <1>1, <1>3

-----------------------------------------------------------------------------
(* No place twice, nor with a copy *)

(* A record that is made now is of no place that has one, nor of a copy.    *)
LEMMA NewIsApart ==
  ASSUME TypeInv, WalkInv, NotedInv, NEW p \in Places, Reach(p), Yields(p), NEW o \in Made
  PROVE  o.place # p /\ ~KnownCopy(p, o.place) /\ ~KnownCopy(o.place, p)
<1> DEFINE q == o.place
<1>1. p \in todo /\ q \in Places BY ReachIs, MadeAre
<1>2. p # q /\ Rank(p) = At /\ Rank(q) <= At BY <1>1 DEF WalkInv
<1>3. ~Skipped(p) BY DEF Yields
<1>4. /\ q \in LiveFiles => Info[q].key \in live
      /\ q \in LiveFiles /\ Info[q].agent = "codex" => q \in rollouts
  BY DEF NotedInv
<1>5. ~Named(p, q)
  <2>1. SUFFICES ASSUME Named(p, q) PROVE FALSE OBVIOUS
  <2>2. Rank(p) = 2 /\ Rank(q) = 6 BY <1>1, <2>1, RanksAre DEF Named
  <2>3. QED BY <1>2, <2>2
<1>6. ~Named(q, p) BY <1>3, <1>4 DEF Named, Skipped
<1>7. ~Backs(p, q)
  <2>1. SUFFICES ASSUME Backs(p, q) PROVE FALSE OBVIOUS
  <2>2. Rank(q) = 9 /\ Rank(p) \in 1..8 BY <1>1, <2>1, RanksAre DEF Backs, LiveFiles
  <2>3. QED BY <1>2, <2>2
<1>8. ASSUME Backs(q, p) PROVE command.all
  <2>1. p \in Extras /\ KeyOf(p) \in live BY <1>4, <1>8 DEF Backs, SameKey, KeyOf
  <2>2. QED BY <1>3, <2>1 DEF Skipped
<1>9. QED BY <1>2, <1>5, <1>6, <1>7, <1>8 DEF KnownCopy

LEMMA NoCopyOfItself ==
  ASSUME NEW p \in Places
  PROVE  ~KnownCopy(p, p)
BY DEF KnownCopy, Named, Backs, LiveFiles

LEMMA ApartStep ==
  ASSUME TypeInv, WalkInv, NotedInv, Apart, [Next]_vars
  PROVE  Apart'
<1>0. command'.all = command.all BY ScopeStays
<1>1. \A p, q : KnownCopy(p, q)' = KnownCopy(p, q) BY <1>0 DEF KnownCopy
<1>2. ASSUME NEW p \in Places, Reach(p) PROVE Apart'
  <2>1. RecordOf(p).place = p BY DEF RecordOf
  <2>2. CASE ~Yields(p)
    <3>1. Made' = Made BY <1>2, <2>2, ReachIs
    <3>2. QED BY <1>1, <3>1 DEF Apart
  <2>3. CASE Yields(p)
    <3>1. Made' = Made \cup {RecordOf(p)} BY <1>2, <2>3, ReachIs
    <3>2. ASSUME NEW r \in Made', NEW o \in Made'
          PROVE  ~KnownCopy(r.place, o.place) /\ (r # o => r.place # o.place)
      <4>1. CASE r \in Made /\ o \in Made BY <4>1 DEF Apart
      <4>2. CASE r = RecordOf(p) /\ o \in Made BY <1>2, <2>1, <2>3, <4>2, NewIsApart
      <4>3. CASE o = RecordOf(p) /\ r \in Made BY <1>2, <2>1, <2>3, <4>3, NewIsApart
      <4>4. CASE r = RecordOf(p) /\ o = RecordOf(p) BY <2>1, <4>4, NoCopyOfItself
      <4>5. QED BY <3>1, <3>2, <4>1, <4>2, <4>3, <4>4
    <3>3. QED BY <1>1, <3>2 DEF Apart
  <2>4. QED BY <2>2, <2>3
<1>3. ASSUME \A p \in Places : ~Reach(p) PROVE Apart'
  <2>1. Made' = Made BY <1>3, MadeStays
  <2>2. QED BY <1>1, <2>1 DEF Apart
<1>4. QED BY <1>2, <1>3

-----------------------------------------------------------------------------
(* No session missed *)

LEMMA OpenFinds ==
  ASSUME TypeInv, OpenStore, NEW p \in steady, Wanted(p), Rank(p) = At + 1
  PROVE  p \in todo'
<1>1. p \in Places /\ said[p] # Absent BY DEF TypeInv
<1>2. StoreOf(p) = stores[1] BY <1>1, OpenIs, RankIs, Zenon
<1>3. p \notin Extras => Info[p].agent # "extra" BY <1>1, KnownAgents
<1>4. IF stores[1] = "extra" THEN p \in Extras ELSE p \notin Extras /\ Info[p].agent = stores[1]
  BY <1>2, <1>3 DEF StoreOf
<1>5. stores[1] = "claude" /\ ~command.all => Info[p].ran = "here"
  BY <1>4 DEF Wanted, Overlooked
<1>6. stores[1] = "copilot_db" => command.all BY <1>4 DEF Wanted, Overlooked
<1>7. InStore(p, stores[1]) BY <1>1, <1>4, <1>5 DEF InStore
<1>8. QED BY <1>1, <1>6, <1>7 DEF OpenStore

LEMMA ReachFinds ==
  ASSUME TypeInv, NotedInv, NEW p \in Places, Reach(p), p \in steady, Wanted(p)
  PROVE  Info[p].session \in SessionsOf(Made')
<1>1. CASE Yields(p)
  <2>1. RecordOf(p) \in Made' /\ RecordOf(p).place = p BY <1>1, ReachIs DEF RecordOf
  <2>2. QED BY <2>1 DEF SessionsOf
<1>2. CASE ~Yields(p)
  <2>1. Made' = Made BY <1>2, ReachIs
  <2>2. SUFFICES \E r \in Made : Info[r.place].session = Info[p].session BY <2>1 DEF SessionsOf
  <2>3. said[p] # Absent BY DEF TypeInv
  <2>4. CASE Info[p].agent = "codex_db" /\ Info[p].rollout \in rollouts
    <3> DEFINE x == Info[p].rollout
    <3>1. x \in LiveFiles /\ x \in Places /\ Info[x].agent = "codex"
      BY <2>4 DEF TypeInv, LiveFiles
    <3>2. Info[x].session = Info[p].session BY <2>4, <3>1, RowsNameTheirOwn DEF Named
    <3>3. command.all BY <2>4 DEF Wanted, Overlooked
    <3>4. PICK r \in Made : r.place = x BY <2>4, <3>3 DEF NotedInv
    <3>5. QED BY <3>2, <3>4
  <2>5. CASE p \in Extras /\ KeyOf(p) \in live
    <3>1. PICK r \in Made : r.place \in LiveFiles /\ Info[r.place].key = Info[p].key
      BY <2>5 DEF NotedInv, KeyOf
    <3>2. QED BY <2>5, <3>1, KeysIdentify DEF SameKey
  <2>6. CASE ~Skipped(p)
    <3>1. ~command.all /\ ~CwdMatches(p) BY <1>2, <2>6 DEF Yields
    <3>2. ~Info[p].inPayload /\ Info[p].ran \in {"here", "below"}
      BY <3>1 DEF Wanted, Overlooked
    <3>3. CwdOf(p) = Info[p].ran BY <2>3, <3>2 DEF CwdOf
    <3>4. QED BY <3>1, <3>2, <3>3 DEF CwdMatches
  <2>7. QED BY <2>4, <2>5, <2>6 DEF Skipped
<1>3. QED BY <1>1, <1>2

LEMMA FoundStep ==
    ASSUME TypeInv, WalkInv, NotedInv, Found, [Next]_vars
  PROVE  Found'
<1>0. At \in 0..9 BY AtIs
<1>1. steady' \subseteq steady /\ steady \subseteq Places
  <2>1. steady' = steady \/ Writes \/ \E r \in matching : Unlink(r)
    BY StepIsOf, ReachIs
    DEF OpenStore, CloseStore, Take, Listed, Confirm, Refuse, Unlinked, world, vars
  <2>2. steady' \subseteq steady BY <2>1, WorldType, UnlinkType
  <2>3. QED BY <2>2 DEF TypeInv
<1>2. command'.all = command.all /\ rollouts \subseteq rollouts' BY ScopeStays, RolloutsStay
<1>3. \A p : Wanted(p)' => Wanted(p) BY <1>2 DEF Wanted, Overlooked
<1>4. CASE OpenStore
  <2>1. At' = At + 1 BY <1>4, OpenIs, Zenon
  <2>2. Made' = Made /\ todo = {}
    BY <1>4 DEF OpenStore, Made, WalkInv
  <2>3. ASSUME NEW p \in steady', Wanted(p)'
        PROVE  Info[p].session \in SessionsOf(Made)' \/ p \in todo' \/ Rank(p) > At'
    <3>1. p \in steady /\ p \in Places /\ Wanted(p) BY <1>1, <1>3, <2>3
    <3>2. Rank(p) \in 1..9 BY <3>1, RankIs DEF Stores
    <3>3. CASE Info[p].session \in SessionsOf(Made) BY <2>2, <3>3 DEF SessionsOf
    <3>4. CASE Rank(p) = At + 1 BY <1>4, <3>1, <3>4, OpenFinds
    <3>5. CASE Rank(p) > At /\ Rank(p) # At + 1 BY <1>0, <2>1, <3>2, <3>5
    <3>6. QED BY <2>2, <3>1, <3>3, <3>4, <3>5 DEF Found
  <2>4. QED BY <2>3 DEF Found
<1>5. ASSUME NEW x \in Places, Reach(x) PROVE Found'
  <2>1. todo' = todo \ {x} /\ UNCHANGED stores /\ Made \subseteq Made' BY <1>5, ReachIs
  <2>2. At' = At BY <2>1 DEF At
  <2>3. ASSUME NEW p \in steady', Wanted(p)'
        PROVE  Info[p].session \in SessionsOf(Made)' \/ p \in todo' \/ Rank(p) > At'
    <3>1. p \in steady /\ p \in Places /\ Wanted(p) BY <1>1, <1>3, <2>3
    <3>2. CASE p = x BY <1>5, <3>1, <3>2, ReachFinds DEF SessionsOf
    <3>3. CASE p # x BY <2>1, <2>2, <3>1, <3>3 DEF Found, SessionsOf
    <3>4. QED BY <3>2, <3>3
  <2>4. QED BY <2>3 DEF Found
<1>6. ASSUME ~OpenStore, \A x \in Places : ~Reach(x) PROVE Found'
  <2>1. Made' = Made BY <1>6, MadeStays
  <2>2. UNCHANGED <<todo, stores>>
    BY <1>6, StepIsOf, WritesKeep, UnlinkKeeps
    DEF CloseStore, Take, Listed, Confirm, Refuse, Unlinked, walk, vars
  <2>3. At' = At BY <2>2 DEF At
  <2>4. QED BY <1>1, <1>3, <2>1, <2>2, <2>3 DEF Found, SessionsOf
<1>7. QED BY <1>4, <1>5, <1>6

-----------------------------------------------------------------------------
(* The theorems *)

LEMMA InitBase ==
  ASSUME Init
  PROVE  BaseInv /\ Apart /\ Found
<1>1. PICK s \in Starts :
        /\ said = s.said /\ active = s.active
        /\ command \in [name : {"list"}, all : {s.all}, yes : {TRUE}]
                   \cup [name : {"delete"}, all : {s.all}, yes : BOOLEAN]
  BY DEF Init
<1>2. /\ s.said \in [Places -> Texts \cup {Absent}] /\ s.all \in BOOLEAN
      /\ s.active \subseteq Places
      /\ \A p \in LiveFiles, q \in Extras :
           SameKey(p, q) /\ s.said[q] # Absent => Begun(p, s.said[q][1], s.said, s.active)
  BY StartsAreStates
<1>3. command \in Commands /\ command.all = s.all BY <1>1, <1>2 DEF Commands
<1>4. /\ pc = "store" /\ stores = StoreOrder /\ todo = {} /\ current = Absent
      /\ rollouts = {} /\ live = {} /\ listed = {} /\ matching = {} /\ deleted = {}
      /\ steady = {p \in Places : said[p] # Absent} /\ checked = [p \in Places |-> <<>>]
  BY DEF Init
<1>5. Len(stores) = 9 /\ stores = Left(9) BY <1>4, OrderIs
<1>6. Made = {} /\ At = 0 BY <1>4, <1>5 DEF Made, At
<1>7. TypeInv
  <2>1. checked \in [Places -> Texts \cup {<<>>, Absent}] BY <1>4
  <2>2. Len(stores) \in 0..9 /\ stores = Left(Len(stores)) BY <1>5
  <2>3. QED BY <1>1, <1>2, <1>3, <1>4, <2>1, <2>2 DEF TypeInv
<1>8. WalkInv BY <1>4, <1>6 DEF WalkInv, Complete
<1>9. DeleteInv /\ CheckInv BY <1>4 DEF DeleteInv, CheckInv
<1>10. TextInv BY <1>1, <1>2, <1>4 DEF TextInv, BeginsSo, Sources
<1>11. NotedInv BY <1>4, <1>6 DEF NotedInv

<1>13. Apart BY <1>6 DEF Apart
<1>14. \A p \in Places : Rank(p) > 0 BY RankIs DEF Stores
<1>15. Found BY <1>4, <1>6, <1>14 DEF Found
<1>16. QED BY <1>7, <1>8, <1>9, <1>10, <1>11, <1>13, <1>15 DEF BaseInv

LEMMA BaseStep ==
  ASSUME BaseInv, [Next]_vars
  PROVE  BaseInv'
<1>1. TypeInv' BY TypeStep DEF BaseInv
<1>2. WalkInv' BY WalkStep DEF BaseInv
<1>3. DeleteInv' BY DeleteStep DEF BaseInv
<1>4. TextInv' BY TextStep DEF BaseInv
<1>5. CheckInv' BY CheckStep DEF BaseInv
<1>6. NotedInv' BY NotedStep DEF BaseInv

<1>8. QED BY <1>1, <1>2, <1>3, <1>4, <1>5, <1>6 DEF BaseInv

(* The invariant holds of every machine, whatever the scope.                *)
THEOREM BaseIsKept == Spec => []BaseInv
<1>1. Init => BaseInv BY InitBase
<1>2. BaseInv /\ [Next]_vars => BaseInv' BY BaseStep
<1>3. QED BY <1>1, <1>2, PTL DEF Spec

LEMMA LeftIsSuffix ==
  ASSUME NEW n \in 0..9
  PROVE  IsSuffix(Left(n), StoreOrder)
<1> DEFINE a == Reverse(Left(n))
           b == Reverse(StoreOrder)
<1>1. Left(n) \in Seq(Names) /\ Len(Left(n)) = n BY LeftIs
<1>2. StoreOrder \in Seq(Names) /\ Len(StoreOrder) = 9 BY OrderIs
<1>3. \A i \in 1..n : n - i + 1 \in 1..n /\ 9 - n + (n - i + 1) = 9 - i + 1 /\ 9 - i + 1 \in 1..9
  OBVIOUS
<1>4. \A i \in 1..n : Left(n)[n - i + 1] = StoreOrder[9 - i + 1] BY <1>3 DEF Left
<1>5. a = [i \in 1..n |-> StoreOrder[9 - i + 1]]
  <2>1. a = [i \in 1..n |-> Left(n)[n - i + 1]] BY <1>1, Zenon DEF Reverse
  <2>2. QED BY <1>4, <2>1, Zenon
<1>6. b = [i \in 1..9 |-> StoreOrder[9 - i + 1]] BY <1>2, Zenon DEF Reverse
<1>7. \A i \in 1..9 : 9 - i + 1 \in 1..9 OBVIOUS
<1>a. \A i \in 1..9 : StoreOrder[i] \in Names BY <1>2, ElementOfSeq, Zenon
<1>8. \A i \in 1..9 : StoreOrder[9 - i + 1] \in Names BY <1>7, <1>a, Zenon
<1>b. ASSUME NEW m \in Nat, NEW f \in [1..m -> Names] PROVE f \in Seq(Names) /\ Len(f) = m
  OBVIOUS
<1>9. b \in Seq(Names) /\ Len(b) = 9
  <2>1. b \in [1..9 -> Names] BY <1>6, <1>8, Zenon
  <2>2. 9 \in Nat OBVIOUS
  <2>3. QED BY <1>b, <2>1, <2>2, Zenon
<1>10. a \in Seq(Names) /\ Len(a) = n
  <2>1. a \in [1..n -> Names] BY <1>3, <1>5, <1>8
  <2>2. QED BY <2>1
<1>11. \A i \in 1..n : a[i] = b[i] BY <1>3, <1>5, <1>6
<1> HIDE DEF a, b
<1>12. SubSeq(a, 1, n) = [i \in 1..n |-> a[i]] BY <1>10
<1>13. SubSeq(b, 1, n) = [i \in 1..n |-> b[i]] BY <1>9
<1>14. IsPrefix(a, b) BY <1>9, <1>10, <1>11, <1>12, <1>13 DEF IsPrefix
<1>15. QED BY <1>14 DEF IsSuffix, a, b

(* TypeOK of Sessions: what is deleted was picked from what was listed.     *)
THEOREM TypeCorrect == Spec => []TypeOK
<1>1. ASSUME BaseInv PROVE TypeOK
  <2>1. TypeInv /\ DeleteInv BY <1>1 DEF BaseInv
  <2>2. Texts \subseteq Seq({Message, Other}) /\ <<>> \in Seq({Message, Other})
    BY EmptySeq DEF Texts
  <2>3. said \in [Places -> Seq({Message, Other}) \cup {Absent}] BY <2>1, <2>2 DEF TypeInv
  <2>4. checked \in [Places -> Seq({Message, Other}) \cup {Absent}] BY <2>1, <2>2 DEF TypeInv
  <2>5. IsSuffix(stores, StoreOrder) BY <2>1, LeftIsSuffix, Zenon DEF TypeInv
  <2>6. rollouts \subseteq Places \ (Rows \cup Extras) BY <2>1 DEF TypeInv, LiveFiles
  <2>7. command.name = "list" => matching = {} BY <2>1 DEF DeleteInv
  <2>8. deleted \subseteq {r.place : r \in listed} \ Rows BY <2>1 DEF DeleteInv
  <2>9. QED BY <2>1, <2>3, <2>4, <2>5, <2>6, <2>7, <2>8 DEF TypeInv, TypeOK
<1>2. QED BY <1>1, BaseIsKept, PTL

(* DeletesWhatItChecked: `delete` unlinks a Claude or Codex file only if    *)
(* the user said so and it was, when it was checked, a session of the one   *)
(* message, though agents write, files are backed up and vanish meanwhile.  *)
THEOREM ChecksBeforeItDeletes == Spec => []DeletesWhatItChecked
<1>1. BaseInv => DeletesWhatItChecked
  BY DEF BaseInv, DeleteInv, CheckInv, DeletesWhatItChecked
<1>2. QED BY <1>1, BaseIsKept, PTL

(* SessionsAreListed: on every machine, whatever the agents do meanwhile,   *)
(* no session is missed that stays in a place the listing does not pass     *)
(* over, and no place is listed twice, or with one it is known to copy.     *)
THEOREM NoneIsMissedOrCopied == Spec => []SessionsAreListed
<1> DEFINE Inv == BaseInv /\ Apart /\ Found
<1>1. Init => Inv BY InitBase
<1>2. Inv /\ [Next]_vars => Inv'
  <2> SUFFICES ASSUME Inv, [Next]_vars PROVE Inv' OBVIOUS
  <2>1. BaseInv' BY BaseStep
  <2>2. Apart' BY ApartStep DEF BaseInv
  <2>3. Found' BY FoundStep DEF BaseInv
  <2>4. QED BY <2>1, <2>2, <2>3
<1>3. ASSUME Inv PROVE SessionsAreListed
  <2>0. TypeInv /\ WalkInv BY <1>3 DEF BaseInv
  <2>1. listed \subseteq Made BY DEF Made
    <2>2. ASSUME Complete, NEW p \in steady, Wanted(p)
        PROVE  Info[p].session \in SessionsOf(listed)
    <3>1. Made = listed /\ todo = {} /\ stores = <<>>
      BY <2>0, <2>2 DEF Made, Complete, WalkInv
    <3>2. At = 9 BY <3>1, EmptySeq DEF At
    <3>3. Rank(p) \in 1..9 BY <2>0, RankIs DEF TypeInv, Stores
    <3>4. ~(Rank(p) > At) BY <3>2, <3>3
    <3>5. QED BY <1>3, <2>2, <3>1, <3>4 DEF Found
    <2>3. QED BY <1>3, <2>1, <2>2 DEF Apart, Wanted, SessionsAreListed
<1> HIDE DEF Inv
<1>4. QED BY <1>1, <1>2, <1>3, PTL DEF Spec
=============================================================================
