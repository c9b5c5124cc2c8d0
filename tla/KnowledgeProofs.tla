--------------------------- MODULE KnowledgeProofs ----------------------------
(***************************************************************************)
(* What TLAPS proves about what is remembered and known: the memory of a   *)
(* run and its workspace, and the code index, for any messages, budgets,   *)
(* sources and bounds.                                                     *)
(***************************************************************************)
EXTENDS Services, Sequences, WellFoundedInduction, TLAPS


Items == [id : Nat, role : {"user", "tool_result"}, size : Sizes \cup {1, HotBudget}, whole : BOOLEAN]
Segments == [seq : Nat, item : Items]
Memories == [kind : Mem!Kinds, scope : {"workspace", "thread"}, by : Nat, known : SUBSET Nat, span : SUBSET Nat,
             text : SUBSET Items]
Jobs == [stage : {"begin", "distil"}, span : SUBSET Nat, text : SUBSET Items, existing : SUBSET Nat]

MemType ==
    mem \in [pc : {"idle", "turn", "prepare", "summarise", "compacted", "recall"}, history : Seq(Items),
             said : Nat, since : Nat, segments : SUBSET Segments, version : Nat,
             round : [items : Seq(Items), hot : Seq(Items), lo : Nat], tasks : SUBSET Jobs, begun : Nat,
             store : Seq(Memories), recalled : SUBSET Nat]

Among(m, history) == \E k \in DOMAIN history : history[k] = m
Between(history, a, b) == \A i \in DOMAIN history : Among(history[i], a) \/ Among(history[i], b)
Whole(history, id) == \E i \in DOMAIN history : history[i].id = id /\ history[i].whole
Stored(segments, id) == \E s \in segments : s.item.id = id /\ s.item.whole

\* A message is in the history or stored, and stays so when the summary is in.
Had ==
    /\ \A id \in mem.since .. mem.said : Whole(mem.history, id) \/ Stored(mem.segments, id)
    /\ mem.pc = "summarise" =>
         \A id \in mem.since .. mem.said : Whole(mem.round.hot, id) \/ Stored(mem.segments, id)
    /\ mem.pc = "prepare" => mem.history # << >>

Text(segments, span) == {s.item : s \in {t \in segments : t.seq \in span}}

\* No number of a span is yet to be given to a segment.
Given(segments, span) == \A n \in span : \E s \in segments : n <= s.seq

\* Among the segments there is a last one, and those of the round are written.
Numbered ==
    /\ mem.segments # {} => \E s \in mem.segments : \A t \in mem.segments : t.seq <= s.seq
    /\ mem.pc \in {"summarise", "compacted"} =>
         \A i \in DOMAIN mem.round.items : \E s \in mem.segments : s.seq = mem.round.lo + i - 1

\* A memory, and one that is being made, has the text of the segments of its span.
Distilled(segments, m) == m.text = Text(segments, m.span) /\ Given(segments, m.span)

Retired(store) ==
    \A i \in DOMAIN store :
        store[i].by # 0 => /\ store[i].by \in DOMAIN store /\ i < store[i].by
                           /\ i \in store[store[i].by].known

Grounded ==
    /\ \A i \in DOMAIN mem.store : Distilled(mem.segments, mem.store[i])
    /\ \A t \in mem.tasks : Distilled(mem.segments, t) /\ t.existing \subseteq DOMAIN mem.store
    /\ Retired(mem.store)

MemInv == MemType /\ Had /\ Numbered /\ Grounded

\* Numbers of which none is above a bound have a largest among them.
LEMMA Largest ==
    ASSUME NEW b \in Nat, NEW T \in SUBSET (0 .. b), T # {}
    PROVE  \E x \in T : \A y \in T : y <= x
<1>1. PICK L : L = OpToRel(<, Nat)
  OBVIOUS
<1>2. IsWellFoundedOn(L, Nat)
  BY <1>1, NatLessThanWellFounded
<1>3. \A x, y \in Nat : <<y, x>> \in L <=> y < x
  BY <1>1 DEF OpToRel
<1>4. PICK D : D = {b - x : x \in T}
  OBVIOUS
<1>5. ASSUME NEW x \in T PROVE b - x \in D /\ b - x \in Nat
  BY <1>4
<1>6. D \subseteq Nat /\ D # {}
  BY <1>4, <1>5
<1>7. PICK d \in D : \A e \in D : ~(<<e, d>> \in L)
  BY <1>2, <1>6, WFMin
<1>8. ASSUME NEW e \in D PROVE d <= e
  <2>1. d \in Nat /\ e \in Nat /\ ~(e < d)
    BY <1>3, <1>6, <1>7
  <2> QED
    BY <2>1
<1>9. PICK x \in T : d = b - x
  BY <1>4, <1>7
<1>10. ASSUME NEW y \in T PROVE y <= x
  <2>1. d <= b - y
    BY <1>5, <1>8
  <2> QED
    BY <1>9, <2>1
<1> QED
  BY <1>9, <1>10

\* What stays in a compacted history is a tail of it, of one message at least.
LEMMA HotIsTail ==
    ASSUME NEW history \in Seq(Items), history # << >>
    PROVE  \E n \in 1 .. Len(history) : Mem!Hot(history) = Mem!Suffix(history, n)
<1> DEFINE fits == {n \in 1 .. Len(history) : n = 1 \/ (Mem!Tokens(Mem!Suffix(history, n)) <= HotBudget /\ n <= HotTurns)}
           longest == CHOOSE n \in fits : \A m \in fits : m <= n
           turns == {n \in 1 .. longest : n = 1 \/ Mem!Suffix(history, n)[1].role # "tool_result"}
           n == CHOOSE k \in turns : \A m \in turns : m <= k
<1>1. Mem!Hot(history) = Mem!Suffix(history, n)
  BY DEF Mem!Hot
<1>2. Len(history) \in Nat /\ 1 \in 1 .. Len(history)
  OBVIOUS
<1>3. fits \in SUBSET (0 .. Len(history)) /\ fits \subseteq 1 .. Len(history) /\ fits # {}
  BY <1>2
<1>4. longest = CHOOSE k \in fits : \A m \in fits : m <= k
  OBVIOUS
<1>5. \A k \in turns : k \in 1 .. longest
  OBVIOUS
<1>6. 1 \in 1 .. longest => 1 \in turns
  OBVIOUS
<1>7. n = CHOOSE k \in turns : \A m \in turns : m <= k
  OBVIOUS
<1> HIDE DEF fits, longest, turns, n
<1>8. longest \in fits
  BY <1>2, <1>3, <1>4, Largest
<1>9. turns \in SUBSET (0 .. Len(history)) /\ turns # {}
  BY <1>2, <1>3, <1>5, <1>6, <1>8
<1>10. n \in turns
  BY <1>2, <1>7, <1>9, Largest
<1> QED
  BY <1>1, <1>2, <1>3, <1>5, <1>8, <1>10

\* A segment is numbered above all there are.
LEMMA NextIsAbove ==
    ASSUME MemType, Numbered
    PROVE  Mem!NextSeq(mem.segments) \in Nat /\ \A s \in mem.segments : s.seq < Mem!NextSeq(mem.segments)
<1>1. CASE mem.segments = {}
  BY <1>1 DEF Mem!NextSeq
<1>2. CASE mem.segments # {}
  <2>1. PICK seqs : seqs = {s.seq : s \in mem.segments}
    OBVIOUS
  <2>2. \A s \in mem.segments : s.seq \in Nat
    BY DEF MemType, Segments
  <2>3. PICK top : top = CHOOSE n \in seqs : \A s \in mem.segments : s.seq <= n
    OBVIOUS
  <2>4. \E n \in seqs : \A s \in mem.segments : s.seq <= n
    BY <1>2, <2>1 DEF Numbered
  <2>5. top \in seqs /\ \A s \in mem.segments : s.seq <= top
    BY <2>3, <2>4
  <2>6. top \in Nat
    BY <2>1, <2>2, <2>5
  <2>7. Mem!NextSeq(mem.segments) = 1 + top
    BY <1>2, <2>1, <2>3 DEF Mem!NextSeq
  <2> QED
    BY <2>2, <2>5, <2>6, <2>7
<1> QED
  BY <1>1, <1>2

\* Segments of higher numbers leave what was distilled as it is.
LEMMA NewLeavesDistilled ==
    ASSUME NEW old \in SUBSET Segments, NEW new \in SUBSET Segments, NEW m, m.span \subseteq Nat,
           Distilled(old, m), \A s \in new : \A t \in old : t.seq < s.seq
    PROVE  Distilled(old \cup new, m)
<1>1. ASSUME NEW s \in new PROVE s.seq \notin m.span
  <2>1. SUFFICES ASSUME s.seq \in m.span PROVE FALSE
    OBVIOUS
  <2>2. PICK t \in old : s.seq <= t.seq
    BY <2>1 DEF Distilled, Given
  <2>3. s.seq \in Nat /\ t.seq \in Nat
    BY DEF Segments
  <2> QED
    BY <2>2, <2>3
<1>2. Text(old \cup new, m.span) = Text(old, m.span)
  BY <1>1 DEF Text
<1> QED
  BY <1>2 DEF Distilled, Given

\* A head put before the history loses nothing of it.
LEMMA AnchorKeeps ==
    ASSUME NEW history \in Seq(Items)
    PROVE  /\ <<Mem!Anchor>> \o history \in Seq(Items)
           /\ \A id : Whole(history, id) => Whole(<<Mem!Anchor>> \o history, id)
<1>1. Mem!Anchor \in Items
  BY DEF Mem!Anchor, Mem!Message, Items
<1>2. PICK h : h = <<Mem!Anchor>> \o history
  OBVIOUS
<1>3. h \in Seq(Items) /\ \A i \in DOMAIN history : i + 1 \in DOMAIN h /\ h[i + 1] = history[i]
  BY <1>1, <1>2
<1> QED
  BY <1>2, <1>3 DEF Whole

\* The tail and what is evicted before it are all of the history.
LEMMA TailAndRest ==
    ASSUME NEW history \in Seq(Items), NEW n \in 1 .. Len(history),
           NEW hot, hot = Mem!Suffix(history, n), NEW evicted, evicted = SubSeq(history, 1, Len(history) - Len(hot))
    PROVE  /\ hot \in Seq(Items) /\ Len(hot) = n /\ evicted \in Seq(Items)
           /\ Between(history, evicted, hot)
<1>1. Len(history) \in Nat /\ DOMAIN history = 1 .. Len(history)
  OBVIOUS
<1>2. PICK len \in Nat : len = Len(history) /\ DOMAIN history = 1 .. len /\ n \in 1 .. len
  BY <1>1
<1>3. PICK from \in Nat : from = len - n
  <2>1. len - n \in Nat
    BY <1>2
  <2> QED
    BY <2>1
<1>4. hot = SubSeq(history, from + 1, len)
  BY <1>2, <1>3 DEF Mem!Suffix
<1>5. /\ hot \in Seq(Items) /\ Len(hot) = n /\ DOMAIN hot = 1 .. n
      /\ \A k \in 1 .. n : hot[k] = history[from + k]
  BY <1>2, <1>3, <1>4
<1>6. evicted = SubSeq(history, 1, from)
  BY <1>2, <1>3, <1>5
<1>7. evicted \in Seq(Items) /\ DOMAIN evicted = 1 .. from /\ \A k \in 1 .. from : evicted[k] = history[k]
  BY <1>2, <1>3, <1>6
<1>8. ASSUME NEW i \in DOMAIN history
      PROVE  Among(history[i], evicted) \/ Among(history[i], hot)
  <2>1. CASE i <= from
    <3>1. i \in 1 .. from
      BY <1>2, <1>3, <2>1
    <3> QED
      BY <1>7, <3>1 DEF Among
  <2>2. CASE ~(i <= from)
    <3>1. i - from \in 1 .. n /\ from + (i - from) = i
      BY <1>2, <1>3, <2>2
    <3> QED
      BY <1>5, <3>1 DEF Among
  <2> QED
    BY <2>1, <2>2
<1> QED
  BY <1>5, <1>7, <1>8 DEF Between

\* Two sequences one after the other have the items of both.
LEMMA Joined ==
    ASSUME NEW a \in Seq(Items), NEW b \in Seq(Items), NEW c, c = a \o b
    PROVE  /\ c \in Seq(Items)
           /\ \A k \in DOMAIN a : Among(a[k], c)
           /\ \A k \in DOMAIN b : Among(b[k], c)
<1>1. Len(a) \in Nat /\ Len(b) \in Nat /\ DOMAIN a = 1 .. Len(a) /\ DOMAIN b = 1 .. Len(b)
  OBVIOUS
<1>2. c \in Seq(Items) /\ DOMAIN c = 1 .. Len(a) + Len(b)
  BY <1>1
<1>3. \A k \in DOMAIN a : k \in DOMAIN c /\ c[k] = a[k]
  BY <1>1, <1>2
<1>4. \A k \in DOMAIN b : Len(a) + k \in DOMAIN c /\ c[Len(a) + k] = b[k]
  BY <1>1, <1>2
<1> QED
  BY <1>2, <1>3, <1>4 DEF Among

\* A round stores what it takes from the history, the message it cuts included.
LEMMA NothingIsLost ==
    ASSUME NEW history \in Seq(Items), history # << >>, NEW hot, hot = Mem!Hot(history),
           NEW evicted, evicted = SubSeq(history, 1, Len(history) - Len(hot)), NEW items, NEW kept, NEW cut,
           hot \in Seq(Items) /\ Len(hot) = 1 => cut \in Items,
           \/ items = evicted \o hot /\ Len(hot) = 1 /\ kept = <<cut>>
           \/ items = evicted /\ kept = hot
    PROVE  /\ items \in Seq(Items) /\ kept \in Seq(Items)
           /\ \A i \in DOMAIN history : Among(history[i], items) \/ Among(history[i], kept)
<1>1. PICK n \in 1 .. Len(history) : hot = Mem!Suffix(history, n)
  BY HotIsTail
<1>2. hot \in Seq(Items) /\ evicted \in Seq(Items) /\ Between(history, evicted, hot)
  BY <1>1, TailAndRest
<1>3. CASE items = evicted \o hot /\ Len(hot) = 1 /\ kept = <<cut>>
  <2>1. kept \in Seq(Items)
    BY <1>2, <1>3
  <2>2. /\ items \in Seq(Items)
        /\ \A k \in DOMAIN evicted : Among(evicted[k], items)
        /\ \A k \in DOMAIN hot : Among(hot[k], items)
    BY <1>2, <1>3, Joined
  <2>3. \A m : Among(m, evicted) \/ Among(m, hot) => Among(m, items)
    BY <2>2 DEF Among
  <2> QED
    BY <1>2, <2>1, <2>2, <2>3 DEF Between
<1>4. CASE items = evicted /\ kept = hot
  BY <1>2, <1>4 DEF Between
<1> QED
  BY <1>3, <1>4

\* Nothing is said, stored or remembered before the first turn.
LEMMA MemStarts == ASSUME Mem!Init PROVE MemInv
<1>1. mem = Mem!NoMemory /\ << >> \in Seq(Items) /\ << >> \in Seq(Memories) /\ 1 .. 0 = {} /\ DOMAIN << >> = {}
  BY DEF Mem!Init
<1> QED
  BY <1>1 DEF Mem!NoMemory, MemInv, MemType, Had, Numbered, Grounded, Retired

\* Compaction stores all that it takes away, numbered above what is stored.
LEMMA EvictKeeps == ASSUME MemInv, Mem!Evict PROVE MemInv'
<1> DEFINE hot == Mem!Hot(mem.history)
           evicted == SubSeq(mem.history, 1, Len(mem.history) - Len(hot))
           over == Len(hot) = 1 /\ hot[1].size > HotBudget
           items == evicted \o (IF over THEN hot ELSE << >>)
           cut == [hot[1] EXCEPT !.size = HotBudget, !.whole = FALSE]
           kept == IF over THEN <<cut>> ELSE hot
           lo == Mem!NextSeq(mem.segments)
           new == {[seq |-> lo + i - 1, item |-> items[i]] : i \in DOMAIN items}
           round == [items |-> items, hot |-> kept, lo |-> lo]
           history == IF evicted # << >> THEN mem.history
                      ELSE IF mem.version > 0 THEN <<Mem!Anchor>> \o kept ELSE kept
           pc == IF evicted # << >> THEN "summarise" ELSE "compacted"
<1>1. mem.pc = "prepare"
  BY DEF Mem!Evict
<1>2. mem' = [mem EXCEPT !.pc = pc, !.segments = mem.segments \cup new, !.round = round, !.history = history]
  <2>1. CASE evicted # << >>
    BY <2>1 DEF Mem!Evict, MemInv, MemType
  <2>2. CASE evicted = << >>
    BY <2>2 DEF Mem!Evict, MemInv, MemType
  <2> QED
    BY <2>1, <2>2
<1>3. mem.history \in Seq(Items) /\ mem.history # << >>
  BY <1>1 DEF MemInv, MemType, Had
<1>4. evicted = SubSeq(mem.history, 1, Len(mem.history) - Len(hot))
  OBVIOUS
<1>5. hot = Mem!Hot(mem.history)
  OBVIOUS
<1>6. over => items = evicted \o hot /\ Len(hot) = 1 /\ kept = <<cut>>
  OBVIOUS
<1>7. ~over => items = evicted \o << >> /\ kept = hot
  OBVIOUS
<1>8. hot[1] \in Items => cut \in Items
  <2>1. PICK h, m : h = hot[1] /\ m = [h EXCEPT !.size = HotBudget, !.whole = FALSE]
    OBVIOUS
  <2>2. h \in Items => m \in Items
    BY <2>1 DEF Items
  <2>3. cut = m
    BY <2>1
  <2> QED
    BY <2>1, <2>2, <2>3
<1>9. \A s : s \in new <=> \E i \in DOMAIN items : s = [seq |-> lo + i - 1, item |-> items[i]]
  OBVIOUS
<1>10. \A i \in DOMAIN items : \E s \in new : s.seq = lo + i - 1 /\ s.item = items[i]
  <2>1. ASSUME NEW i \in DOMAIN items PROVE \E s \in new : s.seq = lo + i - 1 /\ s.item = items[i]
    <3>1. PICK s : s = [seq |-> lo + i - 1, item |-> items[i]]
      OBVIOUS
    <3>2. s \in new
      BY <3>1
    <3> QED
      BY <3>1, <3>2
  <2> QED
    BY <2>1
<1>11. \A s \in new : \E i \in DOMAIN items : s.seq = lo + i - 1
  <2>1. ASSUME NEW s \in new PROVE \E i \in DOMAIN items : s.seq = lo + i - 1
    <3>1. PICK i \in DOMAIN items : s = [seq |-> lo + i - 1, item |-> items[i]]
      OBVIOUS
    <3> QED
      BY <3>1
  <2> QED
    BY <2>1
<1>12. mem.segments \in SUBSET Segments
  BY DEF MemInv, MemType
<1>13. round = [items |-> items, hot |-> kept, lo |-> lo]
  OBVIOUS
<1>14. history = IF evicted # << >> THEN mem.history ELSE IF mem.version > 0 THEN <<Mem!Anchor>> \o kept ELSE kept
  OBVIOUS
<1>15. pc = IF evicted # << >> THEN "summarise" ELSE "compacted"
  OBVIOUS
<1>16. lo \in Nat /\ \A s \in mem.segments : s.seq < lo
  BY NextIsAbove DEF MemInv
<1> HIDE DEF hot, evicted, over, items, cut, kept, lo, new, round, history, pc
<1>17. /\ items \in Seq(Items) /\ kept \in Seq(Items)
      /\ \A i \in DOMAIN mem.history : Among(mem.history[i], items) \/ Among(mem.history[i], kept)
  <2>1. PICK h, hd, ev, it, ke, cu : h = mem.history /\ hd = hot /\ ev = evicted /\ it = items /\ ke = kept /\ cu = cut
    OBVIOUS
  <2>2. h \in Seq(Items) /\ h # << >> /\ hd = Mem!Hot(h) /\ ev = SubSeq(h, 1, Len(h) - Len(hd))
    BY <1>3, <1>5, <1>4, <2>1
  <2>3. hd \in Seq(Items) /\ Len(hd) = 1 => hd[1] \in Items
    OBVIOUS
  <2>4. hd \in Seq(Items) /\ Len(hd) = 1 => cu \in Items
    BY <1>8, <2>1, <2>3
  <2>5. ev \in Seq(Items)
    BY <2>2
  <2>6. ev \o << >> = ev
    BY <2>5
  <2>7. \/ it = ev \o hd /\ Len(hd) = 1 /\ ke = <<cu>>
        \/ it = ev /\ ke = hd
    BY <1>6, <1>7, <2>1, <2>6
  <2>8. /\ it \in Seq(Items) /\ ke \in Seq(Items)
        /\ \A i \in DOMAIN h : Among(h[i], it) \/ Among(h[i], ke)
    BY <2>2, <2>4, <2>7, NothingIsLost
  <2> QED
    BY <2>1, <2>8
<1>18. items \in Seq(Items)
  BY <1>17
<1>19. kept \in Seq(Items)
  BY <1>17
<1>20. new \in SUBSET Segments
  <2>1. ASSUME NEW i \in DOMAIN items PROVE [seq |-> lo + i - 1, item |-> items[i]] \in Segments
    <3>1. i \in Nat /\ i >= 1 /\ items[i] \in Items /\ lo + i - 1 \in Nat
      BY <1>16, <1>18, <2>1
    <3> QED
      BY <3>1 DEF Segments
  <2> QED
    BY <1>9, <2>1
<1>21. \A s \in new : s.seq >= lo
  <2>1. \A i \in DOMAIN items : i \in Nat /\ i >= 1
    BY <1>18
  <2> QED
    BY <1>11, <1>16, <2>1
<1>22. history \in Seq(Items)
  BY <1>3, <1>14, <1>19, AnchorKeeps
<1>23. /\ mem'.segments = mem.segments \cup new /\ mem'.history = history /\ mem'.round = round /\ mem'.pc = pc
       /\ mem'.said = mem.said /\ mem'.since = mem.since /\ mem'.tasks = mem.tasks /\ mem'.store = mem.store
  BY <1>2 DEF MemInv, MemType
<1>24. MemType'
  <2>1. round \in [items : Seq(Items), hot : Seq(Items), lo : Nat]
    BY <1>13, <1>16, <1>18, <1>19
  <2>2. mem.segments \cup new \in SUBSET Segments
    BY <1>20 DEF MemInv, MemType
  <2> QED
    BY <1>2, <1>15, <1>22, <2>1, <2>2 DEF MemInv, MemType
<1>25. ASSUME NEW id \in mem.since .. mem.said
       PROVE  Whole(kept, id) \/ Stored(mem.segments \cup new, id)
  <2>1. CASE Stored(mem.segments, id)
    BY <2>1 DEF Stored
  <2>2. CASE Whole(mem.history, id)
    <3>1. PICK i \in DOMAIN mem.history : mem.history[i].id = id /\ mem.history[i].whole
      BY <2>2 DEF Whole
    <3>2. CASE Among(mem.history[i], items)
      BY <1>10, <3>1, <3>2 DEF Stored, Among
    <3>3. CASE Among(mem.history[i], kept)
      BY <3>1, <3>3 DEF Whole, Among
    <3> QED
      BY <1>17, <3>2, <3>3
  <2> QED
    BY <2>1, <2>2 DEF MemInv, Had
<1>26. ASSUME NEW id \in mem.since .. mem.said
       PROVE  Whole(history, id) \/ Stored(mem.segments \cup new, id)
  <2>1. CASE evicted # << >>
    BY <1>14, <2>1 DEF MemInv, Had, Stored
  <2>2. CASE evicted = << >>
    BY <1>14, <1>19, <1>25, <2>2, AnchorKeeps
  <2> QED
    BY <2>1, <2>2
<1>27. Had'
  <2>1. mem'.round.hot = kept /\ mem'.pc # "prepare"
    BY <1>13, <1>15, <1>23
  <2> QED
    BY <1>23, <1>25, <1>26, <2>1 DEF Had
<1>28. \A i \in DOMAIN items : \E s \in mem.segments \cup new : s.seq = lo + i - 1
  BY <1>10
<1>29. mem.segments \cup new # {} =>
          \E s \in mem.segments \cup new : \A t \in mem.segments \cup new : t.seq <= s.seq
  <2>1. CASE items = << >>
    <3>1. new = {}
      BY <1>9, <2>1
    <3> QED
      BY <3>1 DEF MemInv, Numbered
  <2>2. CASE items # << >>
    <3>1. PICK len \in Nat : len = Len(items) /\ DOMAIN items = 1 .. len /\ len \in 1 .. len
      BY <1>18, <2>2
    <3>2. PICK s \in new : s.seq = lo + len - 1
      BY <1>10, <3>1
    <3>3. ASSUME NEW t \in new PROVE t.seq <= s.seq
      <4>1. PICK i \in 1 .. len : t.seq = lo + i - 1
        BY <1>11, <3>1
      <4> QED
        BY <1>16, <3>1, <3>2, <4>1
    <3>4. ASSUME NEW t \in mem.segments PROVE t.seq <= s.seq
      <4>1. t.seq \in Nat
        BY DEF MemInv, MemType, Segments
      <4> QED
        BY <1>16, <3>1, <3>2, <4>1
    <3> QED
      BY <3>3, <3>4
  <2> QED
    BY <2>1, <2>2
<1>30. Numbered'
  <2>1. mem'.round.items = items /\ mem'.round.lo = lo
    BY <1>13, <1>23
  <2> QED
    BY <1>23, <1>28, <1>29, <2>1 DEF Numbered
<1>31. \A s \in new : \A t \in mem.segments : t.seq < s.seq
  <2>1. ASSUME NEW s \in new, NEW t \in mem.segments PROVE t.seq < s.seq
    <3>1. s.seq \in Nat /\ t.seq \in Nat
      BY <1>20 DEF MemInv, MemType, Segments
    <3> QED
      BY <1>16, <1>21, <3>1
  <2> QED
    BY <2>1
<1>32. ASSUME NEW m, m.span \subseteq Nat, Distilled(mem.segments, m) PROVE Distilled(mem.segments \cup new, m)
  BY <1>12, <1>20, <1>31, <1>32, NewLeavesDistilled
<1>33. Grounded'
  <2>1. ASSUME NEW i \in DOMAIN mem.store PROVE mem.store[i].span \subseteq Nat
    <3>1. mem.store \in Seq(Memories)
      BY DEF MemInv, MemType
    <3>2. mem.store[i] \in Memories
      BY <3>1
    <3> QED
      BY <3>2 DEF Memories
  <2>2. \A t \in mem.tasks : t.span \subseteq Nat
    BY DEF MemInv, MemType, Jobs
  <2> QED
    BY <1>23, <1>32, <2>1, <2>2 DEF MemInv, Grounded
<1> QED
  BY <1>24, <1>27, <1>30, <1>33 DEF MemInv

\* A summary puts the anchor before what stays; one that fails leaves the anchor there was.
LEMMA SummaryKeeps == ASSUME MemInv, Mem!Summarised \/ Mem!SummaryFails PROVE MemInv'
<1>1. PICK hot : hot = mem.round.hot
  OBVIOUS
<1>2. hot \in Seq(Items)
  BY <1>1 DEF MemInv, MemType
<1>3. PICK history, version :
        /\ history \in {hot, <<Mem!Anchor>> \o hot} /\ version \in {mem.version, mem.version + 1}
        /\ mem' = [mem EXCEPT !.pc = "compacted", !.version = version, !.history = history]
  <2>1. CASE Mem!Summarised
    <3>1. PICK h, v : h = <<Mem!Anchor>> \o hot /\ v = mem.version + 1
      OBVIOUS
    <3>2. mem' = [mem EXCEPT !.pc = "compacted", !.version = v, !.history = h]
      BY <1>1, <2>1, <3>1 DEF Mem!Summarised
    <3> QED
      BY <3>1, <3>2
  <2>2. CASE Mem!SummaryFails
    <3>1. PICK h, v : h = (IF mem.version > 0 THEN <<Mem!Anchor>> \o hot ELSE hot) /\ v = mem.version
      OBVIOUS
    <3>2. mem' = [mem EXCEPT !.pc = "compacted", !.version = v, !.history = h]
      BY <1>1, <2>2, <3>1 DEF Mem!SummaryFails, MemInv, MemType
    <3> QED
      BY <3>1, <3>2
  <2> QED
    BY <2>1, <2>2
<1>4. mem.pc = "summarise"
  BY DEF Mem!Summarised, Mem!SummaryFails
<1>5. history \in Seq(Items) /\ \A id : Whole(hot, id) => Whole(history, id)
  BY <1>2, <1>3, AnchorKeeps
<1>6. version \in Nat
  BY <1>3 DEF MemInv, MemType
<1>7. /\ mem'.pc = "compacted" /\ mem'.history = history /\ mem'.segments = mem.segments /\ mem'.round = mem.round
      /\ mem'.said = mem.said /\ mem'.since = mem.since /\ mem'.tasks = mem.tasks /\ mem'.store = mem.store
  BY <1>3 DEF MemInv, MemType
<1>8. MemType'
  BY <1>3, <1>5, <1>6 DEF MemInv, MemType
<1>9. Had'
  BY <1>1, <1>4, <1>5, <1>7 DEF MemInv, Had
<1>10. Numbered' /\ Grounded'
  BY <1>4, <1>7 DEF MemInv, Numbered, Grounded
<1> QED
  BY <1>8, <1>9, <1>10 DEF MemInv

\* A message that is said is in the history.
LEMMA SayKeeps ==
    ASSUME MemInv, NEW role \in {"user", "tool_result"}, NEW size \in Sizes, Mem!Say(role, size)
    PROVE  MemInv'
<1>1. PICK n \in Nat : n = mem.said /\ n + 1 \in Nat
  BY DEF MemInv, MemType
<1>2. PICK m : m = Mem!Message(n + 1, role, size)
  OBVIOUS
<1>3. m \in Items /\ m.id = n + 1 /\ m.whole
  BY <1>1, <1>2 DEF Mem!Message, Items
<1>4. PICK old : old = mem.history
  OBVIOUS
<1>5. PICK history : history = Append(old, m)
  OBVIOUS
<1>6. old \in Seq(Items)
  BY <1>4 DEF MemInv, MemType
<1>7. /\ history \in Seq(Items) /\ history # << >> /\ Len(old) + 1 \in DOMAIN history /\ history[Len(old) + 1] = m
      /\ \A i \in DOMAIN old : i \in DOMAIN history /\ history[i] = old[i]
  BY <1>3, <1>5, <1>6
<1>8. mem' = [mem EXCEPT !.pc = "prepare", !.said = n + 1, !.history = history]
  BY <1>1, <1>2, <1>4, <1>5 DEF Mem!Say, MemInv, MemType
<1>9. /\ mem'.pc = "prepare" /\ mem'.history = history /\ mem'.segments = mem.segments /\ mem'.round = mem.round
      /\ mem'.said = n + 1 /\ mem'.since = mem.since /\ mem'.tasks = mem.tasks /\ mem'.store = mem.store
  BY <1>8 DEF MemInv, MemType
<1>10. MemType'
  BY <1>1, <1>7, <1>8 DEF MemInv, MemType
<1>11. ASSUME NEW id \in mem.since .. n + 1 PROVE Whole(history, id) \/ Stored(mem.segments, id)
  <2>1. CASE id = n + 1
    BY <1>3, <1>7, <2>1 DEF Whole
  <2>2. CASE id # n + 1
    <3>1. id \in mem.since .. n
      BY <1>1, <2>2 DEF MemInv, MemType
    <3>2. Whole(old, id) \/ Stored(mem.segments, id)
      BY <1>1, <1>4, <3>1 DEF MemInv, Had
    <3> QED
      BY <1>7, <3>2 DEF Whole
  <2> QED
    BY <2>1, <2>2
<1>12. Had'
  BY <1>7, <1>9, <1>11 DEF Had
<1>13. Numbered' /\ Grounded'
  BY <1>9 DEF MemInv, Numbered, Grounded
<1> QED
  BY <1>10, <1>12, <1>13 DEF MemInv

\* A history that begins has nothing to keep; what only moves the loop on keeps all.
LEMMA LoopKeeps ==
    ASSUME MemInv,
           \/ Mem!NewHistory \/ Mem!Compact \/ Mem!Ends
           \/ \E b \in BOOLEAN, ms \in SUBSET DOMAIN mem.store : Mem!Recall(b, ms)
    PROVE  MemInv'
<1>1. CASE Mem!NewHistory
  <2>1. PICK n \in Nat : n = mem.said + 1
    BY DEF MemInv, MemType
  <2>2. mem.pc = "idle" /\ mem' = [mem EXCEPT !.pc = "turn", !.history = << >>, !.since = n]
    BY <1>1, <2>1 DEF Mem!NewHistory
  <2>3. /\ mem'.pc = "turn" /\ mem'.segments = mem.segments /\ mem'.said = mem.said /\ mem'.since = n
        /\ mem'.tasks = mem.tasks /\ mem'.store = mem.store
    BY <2>2 DEF MemInv, MemType
  <2>4. MemType'
    <3>1. << >> \in Seq(Items)
      OBVIOUS
    <3> QED
      BY <2>1, <2>2, <3>1 DEF MemInv, MemType
  <2>5. n .. mem.said = {}
    BY <2>1 DEF MemInv, MemType
  <2>6. Had'
    BY <2>3, <2>5 DEF Had
  <2>7. Numbered' /\ Grounded'
    BY <2>3 DEF MemInv, Numbered, Grounded
  <2> QED
    BY <2>4, <2>6, <2>7 DEF MemInv
<1>2. CASE Mem!Compact \/ Mem!Ends \/ \E b \in BOOLEAN, ms \in SUBSET DOMAIN mem.store : Mem!Recall(b, ms)
  <2>1. PICK pc \in {"recall", "idle", "turn"}, recalled \in SUBSET Nat :
          mem' = [mem EXCEPT !.pc = pc, !.recalled = recalled]
    <3>1. CASE Mem!Compact \/ Mem!Ends
      <4>1. mem.recalled \in SUBSET Nat
        BY DEF MemInv, MemType
      <4>2. \/ mem' = [mem EXCEPT !.pc = "recall", !.recalled = mem.recalled]
            \/ mem' = [mem EXCEPT !.pc = "idle", !.recalled = mem.recalled]
        BY <3>1 DEF Mem!Compact, Mem!Ends, MemInv, MemType
      <4> QED
        BY <4>1, <4>2
    <3>2. ASSUME NEW b \in BOOLEAN, NEW ms \in SUBSET DOMAIN mem.store, Mem!Recall(b, ms)
          PROVE  \E recalled \in SUBSET Nat : mem' = [mem EXCEPT !.pc = "turn", !.recalled = recalled]
      <4>1. mem.store \in Seq(Memories)
        BY DEF MemInv, MemType
      <4>2. ms \in SUBSET Nat
        BY <4>1
      <4> QED
        BY <3>2, <4>2 DEF Mem!Recall
    <3> QED
      BY <1>2, <3>1, <3>2
  <2>2. /\ mem'.pc = pc /\ mem'.history = mem.history /\ mem'.segments = mem.segments
        /\ mem'.said = mem.said /\ mem'.since = mem.since /\ mem'.tasks = mem.tasks /\ mem'.store = mem.store
    BY <2>1 DEF MemInv, MemType
  <2>3. MemType'
    BY <2>1 DEF MemInv, MemType
  <2>4. Had' /\ Numbered' /\ Grounded'
    BY <2>1, <2>2 DEF MemInv, Had, Numbered, Grounded
  <2> QED
    BY <2>3, <2>4 DEF MemInv
<1> QED
  BY <1>1, <1>2

\* What is distilled of a text, and what is distilled of nothing.
LEMMA GivenTo == ASSUME NEW segments PROVE Distilled(segments, [stage |-> "begin", span |-> {}, text |-> {}, existing |-> {}])
  BY DEF Distilled, Text, Given

\* A consolidation is given the numbers of the segments of its round, and their text.
LEMMA ScheduleKeeps == ASSUME MemInv, Mem!Schedule PROVE MemInv'
<1>1. mem.pc = "compacted"
  BY DEF Mem!Schedule
<1>2. PICK items, lo : items = mem.round.items /\ lo = mem.round.lo
  OBVIOUS
<1>3. items \in Seq(Items) /\ lo \in Nat
  BY <1>2 DEF MemInv, MemType
<1>4. PICK len \in Nat : len = Len(items) /\ DOMAIN items = 1 .. len
  BY <1>3
<1>5. PICK span : span = lo .. lo + len - 1
  OBVIOUS
<1>6. PICK text : text = Text(mem.segments, span)
  OBVIOUS
<1>7. PICK task : task = [stage |-> "begin", span |-> span, text |-> text, existing |-> {}]
  OBVIOUS
<1>8. PICK n \in {0, 1} : n = IF items = << >> \/ mem.begun = MaxConsolidations THEN 0 ELSE 1
  OBVIOUS
<1>9. PICK jobs : jobs = IF n = 0 THEN mem.tasks ELSE mem.tasks \cup {task}
  OBVIOUS
<1>10. PICK begun \in Nat : begun = mem.begun + n
  BY DEF MemInv, MemType
<1>11. PICK round : round = Mem!NoMemory.round
  OBVIOUS
<1>12. mem' = [mem EXCEPT !.pc = "recall", !.round = round, !.begun = begun, !.tasks = jobs]
  BY <1>2, <1>4, <1>5, <1>6, <1>7, <1>8, <1>9, <1>10, <1>11 DEF Mem!Schedule, Text
<1>13. /\ mem'.pc = "recall" /\ mem'.history = mem.history /\ mem'.segments = mem.segments
       /\ mem'.said = mem.said /\ mem'.since = mem.since /\ mem'.tasks = jobs /\ mem'.store = mem.store
  BY <1>12 DEF MemInv, MemType
<1>14. span \in SUBSET Nat
  BY <1>3, <1>4, <1>5
<1>15. text \in SUBSET Items
  <2>1. mem.segments \in SUBSET Segments
    BY DEF MemInv, MemType
  <2> QED
    BY <1>6, <2>1 DEF Text, Segments
<1>16. task \in Jobs
  BY <1>7, <1>14, <1>15 DEF Jobs
<1>17. MemType'
  <2>1. round \in [items : Seq(Items), hot : Seq(Items), lo : Nat]
    <3>1. << >> \in Seq(Items)
      OBVIOUS
    <3> QED
      BY <1>11, <3>1 DEF Mem!NoMemory
  <2>2. jobs \in SUBSET Jobs
    BY <1>9, <1>16 DEF MemInv, MemType
  <2> QED
    BY <1>12, <2>1, <2>2 DEF MemInv, MemType
<1>18. Had' /\ Numbered'
  BY <1>13 DEF MemInv, Had, Numbered
<1>19. n # 0 => Given(mem.segments, span)
  <2>1. SUFFICES ASSUME n # 0 PROVE Given(mem.segments, span)
    OBVIOUS
  <2>2. len \in DOMAIN items
    BY <1>3, <1>4, <1>8, <2>1
  <2>3. PICK s \in mem.segments : s.seq = lo + len - 1
    BY <1>1, <1>2, <2>2 DEF MemInv, Numbered
  <2>4. \A k \in span : k <= s.seq
    BY <1>3, <1>4, <1>5, <2>3
  <2> QED
    BY <2>4 DEF Given
<1>20. n # 0 => Distilled(mem.segments, task) /\ task.existing \subseteq DOMAIN mem.store
  BY <1>6, <1>7, <1>19 DEF Distilled
<1>21. Grounded'
  BY <1>9, <1>13, <1>20 DEF MemInv, Grounded
<1> QED
  BY <1>17, <1>18, <1>21 DEF MemInv

\* A turn that ends with its changes has its closing text distilled, from no segment.
LEMMA SubmitKeeps == ASSUME MemInv, Mem!Submit PROVE MemInv'
<1>1. PICK task : task = [stage |-> "begin", span |-> {}, text |-> {}, existing |-> {}]
  OBVIOUS
<1>2. PICK begun \in Nat : begun = mem.begun + 1
  BY DEF MemInv, MemType
<1>3. PICK jobs : jobs = mem.tasks \cup {task}
  OBVIOUS
<1>4. mem' = [mem EXCEPT !.pc = "idle", !.begun = begun, !.tasks = jobs]
  BY <1>1, <1>2, <1>3 DEF Mem!Submit
<1>5. /\ mem'.pc = "idle" /\ mem'.history = mem.history /\ mem'.segments = mem.segments
      /\ mem'.said = mem.said /\ mem'.since = mem.since /\ mem'.tasks = jobs /\ mem'.store = mem.store
  BY <1>4 DEF MemInv, MemType
<1>6. task \in Jobs
  BY <1>1 DEF Jobs
<1>7. MemType'
  <2>1. jobs \in SUBSET Jobs
    BY <1>3, <1>6 DEF MemInv, MemType
  <2> QED
    BY <1>4, <2>1 DEF MemInv, MemType
<1>8. Had' /\ Numbered'
  BY <1>5 DEF MemInv, Had, Numbered
<1>9. Distilled(mem.segments, task) /\ task.existing \subseteq DOMAIN mem.store
  BY <1>1, GivenTo
<1>10. Grounded'
  BY <1>3, <1>5, <1>9 DEF MemInv, Grounded
<1> QED
  BY <1>7, <1>8, <1>10 DEF MemInv

\* A consolidation reads the memories there are, or is dropped.
LEMMA DistilKeeps == ASSUME MemInv, NEW t \in mem.tasks, Mem!Distil(t) \/ Mem!Dropped(t) PROVE MemInv'
<1>1. t \in Jobs /\ Distilled(mem.segments, t)
  BY DEF MemInv, MemType, Grounded
<1>2. PICK known : known = Mem!Workspace(mem.store)
  OBVIOUS
<1>3. known \subseteq DOMAIN mem.store /\ known \in SUBSET Nat
  <2>1. mem.store \in Seq(Memories)
    BY DEF MemInv, MemType
  <2> QED
    BY <1>2, <2>1 DEF Mem!Workspace, Mem!Live
<1>4. PICK u : u = [t EXCEPT !.stage = "distil", !.existing = known]
  OBVIOUS
<1>5. u \in Jobs /\ u.span = t.span /\ u.text = t.text /\ u.existing = known
  BY <1>1, <1>3, <1>4 DEF Jobs
<1>6. PICK jobs : /\ jobs \subseteq mem.tasks \cup {u}
                   /\ mem' = [mem EXCEPT !.tasks = jobs]
  BY <1>2, <1>4 DEF Mem!Distil, Mem!Dropped
<1>7. /\ mem'.pc = mem.pc /\ mem'.history = mem.history /\ mem'.segments = mem.segments /\ mem'.round = mem.round
      /\ mem'.said = mem.said /\ mem'.since = mem.since /\ mem'.tasks = jobs /\ mem'.store = mem.store
  BY <1>6 DEF MemInv, MemType
<1>8. MemType'
  <2>1. jobs \in SUBSET Jobs
    BY <1>5, <1>6 DEF MemInv, MemType
  <2> QED
    BY <1>6, <2>1 DEF MemInv, MemType
<1>9. Had' /\ Numbered'
  BY <1>7 DEF MemInv, Had, Numbered
<1>10. Distilled(mem.segments, u)
  BY <1>1, <1>5 DEF Distilled
<1>11. Grounded'
  BY <1>3, <1>5, <1>6, <1>7, <1>10 DEF MemInv, Grounded
<1> QED
  BY <1>8, <1>9, <1>11 DEF MemInv

\* A memory written after the others retires one it was written in the knowledge of, or none.
LEMMA MemoryWriteKeeps ==
    ASSUME MemInv, NEW m \in Memories, m.by = 0, Distilled(mem.segments, m),
           NEW jobs, jobs \subseteq mem.tasks, NEW store,
           \/ store = Mem!Insert(mem.store, m)
           \/ \E old \in m.known \cap DOMAIN mem.store : store = Mem!Supersede(mem.store, old, m),
           mem' = [mem EXCEPT !.tasks = jobs, !.store = store]
    PROVE  MemInv'
<1>1. mem.store \in Seq(Memories)
  BY DEF MemInv, MemType
<1>2. PICK n \in Nat : n = Len(mem.store) /\ DOMAIN mem.store = 1 .. n
  BY <1>1
<1>3. /\ mem'.pc = mem.pc /\ mem'.history = mem.history /\ mem'.segments = mem.segments /\ mem'.round = mem.round
      /\ mem'.said = mem.said /\ mem'.since = mem.since /\ mem'.tasks = jobs /\ mem'.store = store
  BY DEF MemInv, MemType
<1>4. Had' /\ Numbered'
  BY <1>3 DEF MemInv, Had, Numbered
<1>5. PICK was \in Seq(Memories) :
        /\ store = Append(was, m) /\ Len(was) = n /\ DOMAIN was = 1 .. n
        /\ \A i \in 1 .. n : /\ was[i].span = mem.store[i].span /\ was[i].text = mem.store[i].text
                             /\ was[i].known = mem.store[i].known
                             /\ was[i].by = mem.store[i].by \/ (was[i].by = n + 1 /\ i \in m.known)
  <2>1. CASE store = Mem!Insert(mem.store, m)
    BY <1>1, <1>2, <2>1 DEF Mem!Insert
  <2>2. ASSUME NEW old \in m.known \cap DOMAIN mem.store, store = Mem!Supersede(mem.store, old, m)
        PROVE  \E was \in Seq(Memories) :
                 /\ store = Append(was, m) /\ Len(was) = n /\ DOMAIN was = 1 .. n
                 /\ \A i \in 1 .. n : /\ was[i].span = mem.store[i].span /\ was[i].text = mem.store[i].text
                                      /\ was[i].known = mem.store[i].known
                                      /\ was[i].by = mem.store[i].by \/ (was[i].by = n + 1 /\ i \in m.known)
    <3>1. PICK r : r = [mem.store[old] EXCEPT !.by = n + 1]
      OBVIOUS
    <3>2. mem.store[old] \in Memories
      BY <1>1
    <3>3. /\ r \in Memories /\ r.by = n + 1 /\ r.span = mem.store[old].span /\ r.text = mem.store[old].text
          /\ r.known = mem.store[old].known
      BY <3>1, <3>2 DEF Memories
    <3>4. PICK was : was = [mem.store EXCEPT ![old] = r]
      OBVIOUS
    <3>5. was \in Seq(Memories) /\ Len(was) = n /\ DOMAIN was = 1 .. n
      BY <1>1, <1>2, <3>3, <3>4
    <3>6. was[old] = r /\ \A i \in 1 .. n : i # old => was[i] = mem.store[i]
      BY <1>1, <1>2, <3>4
    <3>7. store = Append(was, m)
      BY <1>2, <2>2, <3>1, <3>4 DEF Mem!Supersede
    <3> QED
      BY <3>3, <3>5, <3>6, <3>7
  <2> QED
    BY <2>1, <2>2
<1>6. /\ store \in Seq(Memories) /\ DOMAIN store = 1 .. n + 1 /\ store[n + 1] = m
      /\ \A i \in 1 .. n : store[i] = was[i]
  BY <1>5
<1>7. MemType'
  <2>1. jobs \in SUBSET Jobs
    BY DEF MemInv, MemType
  <2> QED
    BY <1>6, <2>1 DEF MemInv, MemType
<1>8. ASSUME NEW i \in 1 .. n + 1 PROVE Distilled(mem.segments, store[i])
  <2>1. CASE i = n + 1
    BY <1>6, <2>1
  <2>2. CASE i \in 1 .. n
    <3>1. Distilled(mem.segments, mem.store[i])
      BY <1>2, <2>2 DEF MemInv, Grounded
    <3>2. store[i].span = mem.store[i].span /\ store[i].text = mem.store[i].text
      BY <1>5, <1>6, <2>2
    <3> QED
      BY <3>1, <3>2 DEF Distilled
  <2> QED
    BY <1>8, <2>1, <2>2
<1>9. ASSUME NEW i \in 1 .. n + 1, store[i].by # 0
      PROVE  store[i].by \in 1 .. n + 1 /\ i < store[i].by /\ i \in store[store[i].by].known
  <2>1. i \in 1 .. n
    BY <1>6, <1>9
  <2>2. CASE store[i].by = n + 1 /\ i \in m.known
    BY <1>6, <2>1, <2>2
  <2>3. CASE store[i].by = mem.store[i].by
    <3>1. PICK b : b = mem.store[i].by
      OBVIOUS
    <3>2. b \in 1 .. n /\ i < b /\ i \in mem.store[b].known
      BY <1>2, <1>9, <2>1, <2>3, <3>1 DEF MemInv, Grounded, Retired
    <3>3. store[b].known = mem.store[b].known
      BY <1>5, <1>6, <3>2
    <3> QED
      BY <2>3, <3>1, <3>2, <3>3
  <2> QED
    BY <1>5, <1>6, <2>1, <2>2, <2>3
<1>10. Retired(store)
  BY <1>6, <1>9 DEF Retired
<1>11. \A t \in jobs : Distilled(mem.segments, t) /\ t.existing \subseteq 1 .. n + 1
  BY <1>2 DEF MemInv, Grounded
<1>12. Grounded'
  BY <1>3, <1>6, <1>8, <1>10, <1>11 DEF Grounded
<1> QED
  BY <1>4, <1>7, <1>12 DEF MemInv

\* What is distilled, and what the model remembers by itself, is written so.
LEMMA DisposeKeeps ==
    ASSUME MemInv, NEW t \in mem.tasks, NEW kind \in Mem!Kinds, NEW contradicts, Mem!Dispose(t, kind, contradicts)
    PROVE  MemInv'
<1>1. t \in Jobs /\ Distilled(mem.segments, t) /\ t.existing \subseteq DOMAIN mem.store
  BY DEF MemInv, MemType, Grounded
<1>2. PICK m : m = [kind |-> kind, scope |-> "workspace", by |-> 0, known |-> t.existing, span |-> t.span,
                    text |-> t.text]
  OBVIOUS
<1>3. m \in Memories /\ m.by = 0 /\ m.known = t.existing /\ m.span = t.span /\ m.text = t.text
  BY <1>1, <1>2 DEF Memories, Jobs
<1>4. Distilled(mem.segments, m)
  BY <1>1, <1>3 DEF Distilled
<1>5. PICK store : store = IF kind # "episodic" /\ contradicts # 0
                           THEN Mem!Supersede(mem.store, contradicts, m) ELSE Mem!Insert(mem.store, m)
  OBVIOUS
<1>6. PICK jobs : jobs = mem.tasks \ {t}
  OBVIOUS
<1>7. mem' = [mem EXCEPT !.tasks = jobs, !.store = store] /\ contradicts \in t.existing \cup {0}
  BY <1>2, <1>5, <1>6 DEF Mem!Dispose
<1>8. \/ store = Mem!Insert(mem.store, m)
      \/ \E old \in m.known \cap DOMAIN mem.store : store = Mem!Supersede(mem.store, old, m)
  BY <1>1, <1>3, <1>5, <1>7
<1> QED
  BY <1>3, <1>4, <1>6, <1>7, <1>8, MemoryWriteKeeps

\* The remember tool writes of no segment and retires none.
LEMMA RememberKeeps ==
    ASSUME MemInv, NEW kind \in Mem!Kinds, NEW scope \in {"workspace", "thread"}, Mem!Remember(kind, scope)
    PROVE  MemInv'
<1>1. PICK m : m = [kind |-> kind, scope |-> scope, by |-> 0, known |-> {}, span |-> {}, text |-> {}]
  OBVIOUS
<1>2. m \in Memories /\ m.by = 0 /\ m.span = {} /\ m.text = {}
  BY <1>1 DEF Memories
<1>3. Distilled(mem.segments, m)
  BY <1>2 DEF Distilled, Text, Given
<1>4. PICK store, jobs : store = Mem!Insert(mem.store, m) /\ jobs = mem.tasks
  OBVIOUS
<1>5. mem' = [mem EXCEPT !.tasks = jobs, !.store = store]
  BY <1>1, <1>4 DEF Mem!Remember, MemInv, MemType
<1> QED
  BY <1>2, <1>3, <1>4, <1>5, MemoryWriteKeeps

\* What is taken away can be had again, follows.
LEMMA MemIsGrounded == ASSUME MemInv PROVE Mem!MemoryIsGrounded
  BY DEF MemInv, Had, Grounded, Distilled, Retired, Whole, Stored, Text, Mem!MemoryIsGrounded

\* For any messages, memories and budgets, what compaction takes away can be had again.
LEMMA MemoryStaysGrounded == Mem!Init /\ [][Mem!Next]_mem => []Mem!MemoryIsGrounded
<1>1. MemInv /\ Mem!Next => MemInv'
  BY EvictKeeps, SummaryKeeps, SayKeeps, LoopKeeps, ScheduleKeeps, SubmitKeeps, DistilKeeps, DisposeKeeps,
     RememberKeeps DEF Mem!Next
<1>2. MemInv /\ UNCHANGED mem => MemInv'
  BY DEF MemInv, MemType, Had, Numbered, Grounded
<1> QED
  BY <1>1, <1>2, MemStarts, MemIsGrounded, PTL

\* For any messages, budgets and memories: what compaction takes from a history can be had
\* again, and a memory names the segments it was distilled from.
THEOREM MemoriesAreGrounded == Spec => []MemoryIsGrounded
<1>1. Init => Mem!Init
  BY DEF Init
<1>2. [Next]_vars => [Mem!Next]_mem
  BY DEF Next, vars
<1>3. Mem!MemoryIsGrounded => MemoryIsGrounded
  BY DEF MemoryIsGrounded
<1> QED
  BY <1>1, <1>2, <1>3, MemoryStaysGrounded, PTL DEF Spec

\* The index and the builds have their fields.
BuildShaped(j) ==
    \E pc, gen, todo, stamp, text, update :
        j = [pc |-> pc, gen |-> gen, todo |-> todo, stamp |-> stamp, text |-> text, update |-> update]
IndexShaped(x) ==
    /\ x = [clock |-> x.clock, disk |-> x.disk, gen |-> x.gen, taken |-> x.taken, nodes |-> x.nodes,
            rows |-> x.rows, last |-> x.last, builds |-> x.builds, overlap |-> x.overlap,
            restarts |-> x.restarts]
    /\ x.builds = [b \in Sem!Builders |-> x.builds[b]]
    /\ \A b \in Sem!Builders : BuildShaped(x.builds[b])

\* Times are times, and a snapshot that is marked, or being built, was taken.
Timed(x) ==
    /\ x.clock \in Nat /\ x.gen \in Nat /\ x.last \in Nat /\ x.taken \in Nat
    /\ x.taken <= x.clock /\ x.last <= x.gen /\ x.overlap \in BOOLEAN
    /\ x.disk \in [Paths -> Nat] /\ \A f \in Paths : x.disk[f] <= x.clock
    /\ x.nodes \subseteq Paths /\ (x.gen = 0 => x.nodes = {})

\* A time read of a file is none later than the file has now, unless the file is gone.
Past(x, f, v) == f \in Paths /\ v \in Nat /\ v <= x.clock /\ (x.disk[f] = 0 \/ v <= x.disk[f])

\* A row's time is not later than its text.
RowsHonest(x) == \A r \in x.rows : Past(x, r.path, r.stamp) /\ Past(x, r.path, r.text) /\ r.stamp <= r.text

JobHonest(x, j) ==
    /\ j.gen \in Nat /\ j.gen <= x.gen
    /\ j.update \subseteq DOMAIN j.text /\ DOMAIN j.text \subseteq DOMAIN j.stamp
    /\ \A f \in DOMAIN j.stamp : Past(x, f, j.stamp[f])
    /\ \A f \in DOMAIN j.text : Past(x, f, j.text[f]) /\ j.stamp[f] <= j.text[f]

JobsHonest(x) == \A b \in Sem!Builders : JobHonest(x, x.builds[b])

Busy(x, b) == x.builds[b].pc # "idle"

\* No two builds at once, and no two rows of a file.
Single(x) ==
    ~x.overlap =>
        /\ \A b, c \in Sem!Builders : Busy(x, b) /\ Busy(x, c) => b = c
        /\ \A r, s \in x.rows : r.path = s.path => r = s
        /\ \A b \in Sem!Builders : x.builds[b].pc = "embed" => \A r \in x.rows : r.path \notin x.builds[b].update

\* The file of the snapshot has not been written since.
Settled(x, f) == f \in x.nodes /\ x.disk[f] \in 1 .. x.taken

Indexed(x, f) == \E r \in x.rows : r.path = f /\ r.stamp = x.disk[f] /\ r.text = x.disk[f]

\* Of a snapshot that is marked, the settled files are indexed.
Marked(x) ==
    ~x.overlap /\ x.last = x.gen =>
        /\ \A f \in x.nodes : Settled(x, f) => Indexed(x, f)
        /\ \A b \in Sem!Builders : Busy(x, b) => x.builds[b].gen = x.gen

\* A build of the present snapshot will have read the settled files as they are, and embeds
\* those that are not indexed.
Builds(x, j, f) ==
    /\ f \in DOMAIN j.stamp => j.stamp[f] = x.disk[f]
    /\ f \in DOMAIN j.text => j.text[f] = x.disk[f]
    /\ f \notin DOMAIN j.text => j.pc = "read" /\ f \in j.todo
    /\ j.pc \in {"delete", "embed"} => (f \in j.update \/ Indexed(x, f))
    /\ j.pc \in {"delete", "embed"} /\ x.last = x.gen => f \notin j.update

InStep(x) ==
    ~x.overlap =>
        \A b \in Sem!Builders : Busy(x, b) /\ x.builds[b].gen = x.gen =>
            \A f \in x.nodes : Settled(x, f) => Builds(x, x.builds[b], f)

SemInv ==
    /\ IndexShaped(index) /\ Timed(index) /\ RowsHonest(index) /\ JobsHonest(index)
    /\ Single(index) /\ Marked(index) /\ InStep(index)

\* A builder that rests has read nothing.
LEMMA IdleRests ==
    /\ BuildShaped(Sem!Idle) /\ Sem!Idle.pc = "idle"
    /\ \A x : x.gen \in Nat => JobHonest(x, Sem!Idle)
<1>1. Sem!Idle = [pc |-> "idle", gen |-> 0, todo |-> {}, stamp |-> << >>, text |-> << >>, update |-> {}]
  BY DEF Sem!Idle
<1>2. BuildShaped(Sem!Idle)
  BY <1>1 DEF BuildShaped
<1>3. DOMAIN Sem!Idle.stamp = {} /\ DOMAIN Sem!Idle.text = {} /\ Sem!Idle.update = {} /\ Sem!Idle.gen = 0 /\ Sem!Idle.pc = "idle"
  BY <1>1
<1>4. ASSUME NEW x, x.gen \in Nat PROVE JobHonest(x, Sem!Idle)
  BY <1>3, <1>4 DEF JobHonest
<1> QED
  BY <1>2, <1>3, <1>4

\* Where no file has two rows, the time stored of a file is its row's.
LEMMA StoredIsTheRow ==
    ASSUME NEW rows, \A r, s \in rows : r.path = s.path => r = s, \A r \in rows : r.stamp \in Nat,
           NEW f \in Paths
    PROVE  /\ \A r \in rows : r.path = f => Sem!ExistingMtimes(rows)[f] = r.stamp
           /\ (\A r \in rows : r.path # f) => Sem!ExistingMtimes(rows)[f] = 0
<1> DEFINE of == {r.stamp : r \in {x \in rows : x.path = f}}
<1>1. Sem!ExistingMtimes(rows)[f] = IF of = {} THEN 0 ELSE Sem!Max(of)
  BY DEF Sem!ExistingMtimes
<1>2. ASSUME NEW r \in rows, r.path = f PROVE Sem!ExistingMtimes(rows)[f] = r.stamp
  <2>1. of = {r.stamp}
    BY <1>2
  <2>2. Sem!Max({r.stamp}) = r.stamp
    BY <1>2 DEF Sem!Max
  <2> QED
    BY <1>1, <2>1, <2>2
<1> QED
  BY <1>1, <1>2

\* A write makes a file unsettled, and what was read of it no later than it has.
LEMMA ChangeKeeps ==
    ASSUME SemInv, NEW f \in Paths, NEW there, Sem!Change(f, there)
    PROVE  SemInv'
<1>1. PICK v : /\ v = (IF there THEN index.clock + 1 ELSE 0)
               /\ index' = [index EXCEPT !.clock = index.clock + 1, !.disk[f] = v]
  BY DEF Sem!Change, SemInv, IndexShaped
<1>2. /\ IndexShaped(index)' /\ index'.clock = index.clock + 1 /\ index'.disk = [index.disk EXCEPT ![f] = v]
      /\ UNCHANGED <<index.gen, index.taken, index.nodes, index.rows, index.last, index.builds, index.overlap>>
  BY <1>1 DEF SemInv, IndexShaped
<1>3. Timed(index) /\ Timed(index)'
  BY <1>1, <1>2 DEF SemInv, Timed
<1>4. ASSUME NEW g, NEW w, Past(index, g, w) PROVE Past(index', g, w)
  BY <1>1, <1>2, <1>3, <1>4 DEF Past, Timed
<1>5. RowsHonest(index)' /\ JobsHonest(index)'
  BY <1>2, <1>4 DEF SemInv, RowsHonest, JobsHonest, JobHonest
<1>6. Single(index)'
  BY <1>2 DEF SemInv, Single, Busy
<1>7. ASSUME NEW g \in index.nodes, Settled(index', g)
      PROVE  Settled(index, g) /\ index'.disk[g] = index.disk[g]
  BY <1>1, <1>2, <1>3, <1>7 DEF Settled, Timed
<1>8. Marked(index)'
  BY <1>2, <1>7 DEF SemInv, Marked, Indexed, Busy
<1>9. InStep(index)'
  BY <1>2, <1>7 DEF SemInv, InStep, Builds, Indexed, Busy
<1> QED
  BY <1>2, <1>3, <1>5, <1>6, <1>8, <1>9 DEF SemInv

\* A new snapshot is neither marked nor being built.
LEMMA SnapshotKeeps ==
    ASSUME SemInv, Sem!Snapshot
    PROVE  SemInv'
<1>1. /\ IndexShaped(index)' /\ index'.gen = index.gen + 1 /\ index'.taken = index.clock
      /\ index'.nodes = index.nodes \cup {f \in Paths : index.disk[f] # 0}
      /\ UNCHANGED <<index.clock, index.disk, index.rows, index.last, index.builds, index.overlap>>
  BY DEF Sem!Snapshot, SemInv, IndexShaped
<1>2. Timed(index) /\ Timed(index)'
  BY <1>1 DEF SemInv, Timed
<1>3. RowsHonest(index)'
  BY <1>1 DEF SemInv, RowsHonest, Past
<1>4. \A b \in Sem!Builders : index.builds[b].gen \in Nat /\ index.builds[b].gen <= index.gen
  BY DEF SemInv, JobsHonest, JobHonest
<1>5. JobsHonest(index)'
  BY <1>1, <1>2, <1>4 DEF SemInv, JobsHonest, JobHonest, Past, Timed
<1>6. Single(index)'
  BY <1>1 DEF SemInv, Single, Busy
<1>7. Marked(index)' /\ InStep(index)'
  BY <1>1, <1>2, <1>4 DEF Marked, InStep, Timed
<1> QED
  BY <1>1, <1>2, <1>3, <1>5, <1>6, <1>7 DEF SemInv

\* After a restart nothing is marked and nothing built.
LEMMA RestartKeeps ==
    ASSUME SemInv, Sem!Restart
    PROVE  SemInv'
<1>1. /\ IndexShaped(index)' /\ index'.builds = [b \in Sem!Builders |-> Sem!Idle] /\ index'.last = 0 /\ index.gen > 0
      /\ UNCHANGED <<index.clock, index.disk, index.gen, index.taken, index.nodes, index.rows, index.overlap>>
  BY IdleRests DEF Sem!Restart, SemInv, IndexShaped
<1>2. Timed(index) /\ Timed(index)'
  BY <1>1 DEF SemInv, Timed
<1>3. RowsHonest(index)'
  BY <1>1 DEF SemInv, RowsHonest, Past
<1>4. JobsHonest(index)'
  BY <1>1, <1>2, IdleRests DEF JobsHonest, Timed
<1>5. \A b \in Sem!Builders : ~Busy(index', b)
  BY <1>1, IdleRests DEF Busy
<1>6. Single(index)' /\ Marked(index)' /\ InStep(index)'
  BY <1>1, <1>2, <1>5, IdleRests DEF SemInv, Single, Marked, InStep, Timed, Busy
<1> QED
  BY <1>1, <1>2, <1>3, <1>4, <1>6 DEF SemInv

\* A build that begins has all files of the snapshot before it.
LEMMA BeginKeeps ==
    ASSUME SemInv, NEW b \in Sem!Builders, Sem!Begin(b)
    PROVE  SemInv'
<1>1. PICK j : j = [Sem!Idle EXCEPT !.pc = "read", !.gen = index.gen, !.todo = index.nodes]
  OBVIOUS
<1>2. Sem!Idle = [pc |-> "idle", gen |-> 0, todo |-> {}, stamp |-> << >>, text |-> << >>, update |-> {}]
  BY DEF Sem!Idle
<1>3. PICK gen, nodes : gen = index.gen /\ nodes = index.nodes
  OBVIOUS
<1>4. j = [pc |-> "read", gen |-> gen, todo |-> nodes, stamp |-> << >>, text |-> << >>, update |-> {}]
  <2>1. PICK k : k = [Sem!Idle EXCEPT !.pc = "read"]
    OBVIOUS
  <2>2. PICK l : l = [k EXCEPT !.gen = gen]
    OBVIOUS
  <2>3. j = [l EXCEPT !.todo = nodes]
    BY <1>1, <1>3, <2>1, <2>2, Zenon
  <2>4. k = [pc |-> "read", gen |-> 0, todo |-> {}, stamp |-> << >>, text |-> << >>, update |-> {}]
    BY <1>2, <2>1
  <2>5. l = [pc |-> "read", gen |-> gen, todo |-> {}, stamp |-> << >>, text |-> << >>, update |-> {}]
    BY <2>2, <2>4
  <2> QED
    BY <2>3, <2>5
<1>5. /\ BuildShaped(j) /\ j.pc = "read" /\ j.gen = index.gen /\ j.todo = index.nodes
      /\ DOMAIN j.stamp = {} /\ DOMAIN j.text = {} /\ j.update = {}
  <2>1. BuildShaped(j)
    BY <1>4 DEF BuildShaped
  <2>2. j.pc = "read" /\ j.gen = gen /\ j.todo = nodes
    BY <1>4
  <2>3. j.stamp = << >> /\ j.text = << >> /\ j.update = {}
    BY <1>4
  <2>4. DOMAIN j.stamp = {} /\ DOMAIN j.text = {}
    BY <2>3
  <2> QED
    BY <1>3, <2>1, <2>2, <2>3, <2>4
<1>6. PICK overlap : /\ overlap = (index.overlap \/ \E o \in Sem!Builders : Sem!Building(o))
                     /\ index' = [[index EXCEPT !.builds[b] = j] EXCEPT !.overlap = overlap]
  BY <1>1 DEF Sem!Begin, Sem!Update, SemInv, IndexShaped
<1>7. /\ IndexShaped(index)' /\ index'.builds = [index.builds EXCEPT ![b] = j] /\ index'.overlap = overlap
      /\ UNCHANGED <<index.clock, index.disk, index.gen, index.taken, index.nodes, index.rows, index.last>>
  BY <1>5, <1>6 DEF SemInv, IndexShaped
<1>8. \A c \in Sem!Builders : index'.builds[c] = IF c = b THEN j ELSE index.builds[c]
  BY <1>7 DEF SemInv, IndexShaped
<1>9. Timed(index) /\ Timed(index)'
  BY <1>6, <1>7 DEF SemInv, Timed
<1>10. RowsHonest(index)'
  BY <1>7 DEF SemInv, RowsHonest, Past
<1>11. JobsHonest(index)'
  BY <1>5, <1>7, <1>8, <1>9 DEF SemInv, JobsHonest, JobHonest, Past, Timed
<1>12. ~overlap => ~index.overlap /\ \A c \in Sem!Builders : ~Busy(index, c)
  BY <1>6 DEF Busy, Sem!Building
<1>13. Single(index)'
  BY <1>5, <1>7, <1>8, <1>12 DEF SemInv, Single, Busy
<1>14. Marked(index)'
  BY <1>5, <1>7, <1>8, <1>12 DEF SemInv, Marked, Busy, Settled, Indexed
<1>15. InStep(index)'
  BY <1>5, <1>7, <1>8, <1>12 DEF InStep, Busy, Builds
<1> QED
  BY <1>7, <1>9, <1>10, <1>11, <1>13, <1>14, <1>15 DEF SemInv

\* A step of a build that changes its own reading only.
LEMMA UpdateKeeps ==
    ASSUME SemInv, NEW b \in Sem!Builders, Busy(index, b), NEW j, BuildShaped(j), JobHonest(index, j),
           j.pc \in {"read", "delete"}, j.gen = index.builds[b].gen, index' = Sem!Update(b, j),
           ~index.overlap /\ j.gen = index.gen => \A f \in index.nodes : Settled(index, f) => Builds(index, j, f)
    PROVE  SemInv'
<1>1. /\ IndexShaped(index)' /\ index'.builds = [index.builds EXCEPT ![b] = j]
      /\ UNCHANGED <<index.clock, index.disk, index.gen, index.taken, index.nodes, index.rows, index.last,
                     index.overlap>>
  BY DEF Sem!Update, SemInv, IndexShaped
<1>2. \A c \in Sem!Builders : index'.builds[c] = IF c = b THEN j ELSE index.builds[c]
  BY <1>1 DEF SemInv, IndexShaped
<1>3. Timed(index)' /\ RowsHonest(index)'
  BY <1>1 DEF SemInv, Timed, RowsHonest, Past
<1>4. JobsHonest(index)'
  BY <1>1, <1>2 DEF SemInv, JobsHonest, JobHonest, Past
<1>5. Single(index)'
  BY <1>1, <1>2 DEF SemInv, Single, Busy
<1>6. Marked(index)'
  BY <1>1, <1>2 DEF SemInv, Marked, Busy, Settled, Indexed
<1>7. InStep(index)'
  BY <1>1, <1>2 DEF SemInv, InStep, Busy, Builds, Settled, Indexed
<1> QED
  BY <1>1, <1>3, <1>4, <1>5, <1>6, <1>7 DEF SemInv

\* A reading reads the file as it is.
LEMMA ReadKeeps ==
    ASSUME SemInv, NEW b \in Sem!Builders, NEW f \in Paths, Sem!StatThenRead(b, f)
    PROVE  SemInv'
<1>1. PICK c, v : c = index.builds[b] /\ v = index.disk[f]
  OBVIOUS
<1>2. BuildShaped(c) /\ JobHonest(index, c) /\ c.pc = "read" /\ f \in c.todo /\ Busy(index, b)
  BY <1>1 DEF SemInv, IndexShaped, JobsHonest, Sem!StatThenRead, Sem!Reading, Sem!At, Busy
<1>3. PICK a1, a2, a3, a4, a5, a6 :
        c = [pc |-> a1, gen |-> a2, todo |-> a3, stamp |-> a4, text |-> a5, update |-> a6]
  BY <1>2 DEF BuildShaped
<1>4. v \in Nat /\ v <= index.clock /\ index.clock \in Nat
  BY <1>1 DEF SemInv, Timed
<1>5. ~index.overlap /\ c.gen = index.gen => \A g \in index.nodes : Settled(index, g) => Builds(index, c, g)
  BY <1>1, <1>2 DEF SemInv, InStep
<1>6. CASE v = 0
  <2>1. PICK j : j = [c EXCEPT !.todo = c.todo \ {f}] /\ index' = Sem!Update(b, j)
    BY <1>1, <1>6 DEF Sem!StatThenRead
  <2>2. j = [pc |-> a1, gen |-> a2, todo |-> a3 \ {f}, stamp |-> a4, text |-> a5, update |-> a6]
    BY <1>3, <2>1
  <2>3. BuildShaped(j) /\ j.todo = c.todo \ {f} /\ j.pc = c.pc /\ j.gen = c.gen /\ j.stamp = c.stamp
        /\ j.text = c.text /\ j.update = c.update
    BY <1>3, <2>2 DEF BuildShaped
  <2>4. JobHonest(index, j)
    BY <1>2, <2>3 DEF JobHonest
  <2>5. \A g \in index.nodes : Settled(index, g) /\ Builds(index, c, g) => Builds(index, j, g)
    <3>1. ASSUME NEW g \in index.nodes, Settled(index, g) PROVE g # f
      <4>1. index.taken \in Nat /\ index.disk[g] \in 1 .. index.taken
        BY <3>1 DEF Settled, SemInv, Timed
      <4>2. index.disk[g] # 0
        BY <4>1
      <4> QED
        BY <1>1, <1>6, <4>2
    <3> QED
      BY <2>3, <3>1 DEF Builds
  <2> QED
    BY <1>1, <1>2, <1>5, <2>1, <2>3, <2>4, <2>5, UpdateKeeps
<1>7. CASE v # 0 /\ f \in DOMAIN c.stamp
  <2>1. PICK t : t = Sem!With(f, v, c.text)
    OBVIOUS
  <2>2. DOMAIN t = DOMAIN c.text \cup {f} /\ \A g \in DOMAIN t : t[g] = IF g = f THEN v ELSE c.text[g]
    BY <2>1 DEF Sem!With
  <2>3. PICK j : j = [c EXCEPT !.todo = c.todo \ {f}, !.text = t] /\ index' = Sem!Update(b, j)
    BY <1>1, <1>7, <2>1 DEF Sem!StatThenRead
  <2>4. j = [pc |-> a1, gen |-> a2, todo |-> a3 \ {f}, stamp |-> a4, text |-> t, update |-> a6]
    BY <1>3, <2>3
  <2>5. BuildShaped(j) /\ j.todo = c.todo \ {f} /\ j.pc = c.pc /\ j.gen = c.gen /\ j.stamp = c.stamp
        /\ j.text = t /\ j.update = c.update
    BY <1>3, <2>4 DEF BuildShaped
  <2>6. JobHonest(index, j)
    BY <1>1, <1>2, <1>4, <1>7, <2>2, <2>5 DEF JobHonest, Past
  <2>7. \A g \in index.nodes : Settled(index, g) /\ Builds(index, c, g) => Builds(index, j, g)
    BY <1>1, <1>2, <2>2, <2>5 DEF Builds
  <2> QED
    BY <1>1, <1>2, <1>5, <2>3, <2>5, <2>6, <2>7, UpdateKeeps
<1>8. CASE v # 0 /\ f \notin DOMAIN c.stamp
  <2>1. PICK t : t = Sem!With(f, v, c.stamp)
    OBVIOUS
  <2>2. DOMAIN t = DOMAIN c.stamp \cup {f} /\ \A g \in DOMAIN t : t[g] = IF g = f THEN v ELSE c.stamp[g]
    BY <2>1 DEF Sem!With
  <2>3. PICK j : j = [c EXCEPT !.stamp = t] /\ index' = Sem!Update(b, j)
    BY <1>1, <1>8, <2>1 DEF Sem!StatThenRead
  <2>4. j = [pc |-> a1, gen |-> a2, todo |-> a3, stamp |-> t, text |-> a5, update |-> a6]
    BY <1>3, <2>3
  <2>5. BuildShaped(j) /\ j.todo = c.todo /\ j.pc = c.pc /\ j.gen = c.gen /\ j.stamp = t
        /\ j.text = c.text /\ j.update = c.update
    BY <1>3, <2>4 DEF BuildShaped
  <2>6. JobHonest(index, j)
    BY <1>1, <1>2, <1>4, <1>8, <2>2, <2>5 DEF JobHonest, Past
  <2>7. \A g \in index.nodes : Settled(index, g) /\ Builds(index, c, g) => Builds(index, j, g)
    BY <1>1, <1>2, <1>8, <2>2, <2>5 DEF Builds
  <2> QED
    BY <1>1, <1>2, <1>5, <2>3, <2>5, <2>6, <2>7, UpdateKeeps
<1> QED
  BY <1>6, <1>7, <1>8

\* What a build compares: of the settled files, those not indexed are to be embedded, and no
\* other once their snapshot is marked.
LEMMA CompareFinds ==
    ASSUME SemInv, NEW j, ~index.overlap, JobHonest(index, j), NEW f \in index.nodes, Settled(index, f),
           Builds(index, j, f), j.todo = {}
    PROVE  /\ f \in DOMAIN j.text /\ j.stamp[f] = index.disk[f] /\ j.text[f] = index.disk[f]
           /\ Sem!ExistingMtimes(index.rows)[f] = j.stamp[f] => Indexed(index, f)
           /\ Indexed(index, f) => Sem!ExistingMtimes(index.rows)[f] = j.stamp[f]
<1>1. f \in DOMAIN j.text /\ j.stamp[f] = index.disk[f] /\ j.text[f] = index.disk[f]
  BY DEF Builds, JobHonest
<1>2. f \in Paths /\ index.disk[f] \in Nat /\ index.disk[f] # 0
  BY DEF SemInv, Timed, Settled
<1>3. PICK rows : rows = index.rows
  OBVIOUS
<1>4. /\ \A r, s \in rows : r.path = s.path => r = s
      /\ \A r \in rows : /\ r.stamp \in Nat /\ r.text \in Nat /\ r.stamp <= r.text
                         /\ r.path = f => r.text <= index.disk[f]
  BY <1>2, <1>3 DEF SemInv, Single, RowsHonest, Past
<1>5. PICK m : m = Sem!ExistingMtimes(rows)[f]
  OBVIOUS
<1>6. (\A r \in rows : r.path = f => m = r.stamp) /\ ((\A r \in rows : r.path # f) => m = 0)
  BY <1>2, <1>4, <1>5, StoredIsTheRow
<1>7. m = index.disk[f] => Indexed(index, f)
  BY <1>2, <1>3, <1>4, <1>6 DEF Indexed
<1>8. Indexed(index, f) => m = index.disk[f]
  BY <1>3, <1>6 DEF Indexed
<1> QED
  BY <1>1, <1>3, <1>5, <1>7, <1>8

\* A build that ends rests, and may have marked its snapshot.
LEMMA EndKeeps ==
    ASSUME SemInv, NEW b \in Sem!Builders, Busy(index, b), IndexShaped(index)', RowsHonest(index)',
           index'.builds = [index.builds EXCEPT ![b] = Sem!Idle],
           UNCHANGED <<index.clock, index.disk, index.gen, index.taken, index.nodes, index.overlap>>,
           index'.last \in {index.last, index.builds[b].gen},
           ~index.overlap => \A r, s \in index'.rows : r.path = s.path => r = s,
           ~index.overlap /\ index'.last = index.gen =>
               \A f \in index.nodes : Settled(index, f) => Indexed(index', f)
    PROVE  SemInv'
<1>1. \A c \in Sem!Builders : index'.builds[c] = IF c = b THEN Sem!Idle ELSE index.builds[c]
  BY DEF SemInv, IndexShaped
<1>2. Timed(index)'
  BY DEF SemInv, Timed, JobsHonest, JobHonest
<1>3. JobsHonest(index)'
  <2>1. ASSUME NEW c \in Sem!Builders PROVE JobHonest(index, index'.builds[c])
    BY <1>1, IdleRests DEF SemInv, JobsHonest, Timed
  <2> QED
    BY <2>1 DEF JobsHonest, JobHonest, Past
<1>4. ~index.overlap => \A c \in Sem!Builders : ~Busy(index', c)
  BY <1>1, IdleRests DEF SemInv, Single, Busy
<1>5. Single(index)' /\ InStep(index)'
  BY <1>4 DEF Single, InStep, Busy
<1>6. Marked(index)'
  BY <1>4 DEF Marked, Settled
<1> QED
  BY <1>2, <1>3, <1>5, <1>6 DEF SemInv

\* A build that compares ends, or embeds what it found.
LEMMA CompareKeeps ==
    ASSUME SemInv, NEW b \in Sem!Builders, Sem!Compare(b)
    PROVE  SemInv'
<1>1. PICK c, update : /\ c = index.builds[b]
                       /\ update = {f \in DOMAIN c.text : Sem!ExistingMtimes(index.rows)[f] # c.stamp[f]}
  OBVIOUS
<1>2. BuildShaped(c) /\ JobHonest(index, c) /\ c.pc = "read" /\ c.todo = {} /\ Busy(index, b)
  BY <1>1 DEF SemInv, IndexShaped, JobsHonest, Sem!Compare, Sem!At, Busy
<1>3. ~index.overlap /\ c.gen = index.gen => \A g \in index.nodes : Settled(index, g) => Builds(index, c, g)
  BY <1>1, <1>2 DEF SemInv, InStep
<1>4. ASSUME ~index.overlap, c.gen = index.gen, NEW g \in index.nodes, Settled(index, g)
      PROVE  /\ g \in DOMAIN c.text /\ c.stamp[g] = index.disk[g] /\ c.text[g] = index.disk[g]
             /\ g \in update <=> ~Indexed(index, g)
  BY <1>1, <1>2, <1>3, <1>4, CompareFinds
<1>5. CASE update = {} /\ index' = Sem!Finished(b)
  <2>1. /\ IndexShaped(index)' /\ index'.builds = [index.builds EXCEPT ![b] = Sem!Idle]
        /\ UNCHANGED <<index.clock, index.disk, index.gen, index.taken, index.nodes, index.rows, index.overlap>>
        /\ index'.last \in {index.last, index.builds[b].gen}
    BY <1>5, IdleRests DEF Sem!Finished, SemInv, IndexShaped
  <2>2. RowsHonest(index)' /\ (~index.overlap => \A r, s \in index'.rows : r.path = s.path => r = s)
    BY <2>1 DEF SemInv, RowsHonest, Past, Single
  <2>3. ~index.overlap /\ index'.last = index.gen => c.gen = index.gen
    BY <1>1, <1>2, <2>1 DEF SemInv, Marked
  <2>4. ASSUME ~index.overlap, index'.last = index.gen, NEW f \in index.nodes, Settled(index, f)
        PROVE  Indexed(index', f)
    BY <1>4, <1>5, <2>1, <2>3, <2>4 DEF Indexed
  <2> QED
    BY <1>2, <2>1, <2>2, <2>4, EndKeeps
<1>6. CASE index' = Sem!Update(b, [c EXCEPT !.pc = "delete", !.update = update])
  <2>1. PICK j : j = [c EXCEPT !.pc = "delete", !.update = update] /\ index' = Sem!Update(b, j)
    BY <1>6
  <2>2. PICK a1, a2, a3, a4, a5, a6 :
          c = [pc |-> a1, gen |-> a2, todo |-> a3, stamp |-> a4, text |-> a5, update |-> a6]
    BY <1>2 DEF BuildShaped
  <2>3. j = [pc |-> "delete", gen |-> a2, todo |-> a3, stamp |-> a4, text |-> a5, update |-> update]
    BY <2>1, <2>2
  <2>4. BuildShaped(j) /\ j.pc = "delete" /\ j.gen = c.gen /\ j.stamp = c.stamp /\ j.text = c.text /\ j.update = update
    BY <2>2, <2>3 DEF BuildShaped
  <2>5. update \subseteq DOMAIN c.text
    BY <1>1
  <2>6. JobHonest(index, j)
    BY <1>2, <2>4, <2>5 DEF JobHonest
  <2>7. ASSUME ~index.overlap, c.gen = index.gen, NEW g \in index.nodes, Settled(index, g)
        PROVE  Builds(index, j, g)
    <3>1. index.last = index.gen => Indexed(index, g)
      BY <2>7 DEF SemInv, Marked
    <3> QED
      BY <1>4, <2>4, <2>7, <3>1 DEF Builds
  <2> QED
    BY <1>1, <1>2, <2>1, <2>4, <2>6, <2>7, UpdateKeeps
<1> QED
  BY <1>1, <1>5, <1>6 DEF Sem!Compare

\* A deletion that ends well leaves no row of what is to be embedded; one that fails counts
\* as an overlap.
LEMMA DeleteKeeps ==
    ASSUME SemInv, NEW b \in Sem!Builders, Sem!DeleteChunks(b)
    PROVE  SemInv'
<1>1. PICK c, j : c = index.builds[b] /\ j = [c EXCEPT !.pc = "embed"]
  OBVIOUS
<1>2. BuildShaped(c) /\ JobHonest(index, c) /\ c.pc = "delete" /\ Busy(index, b)
  BY <1>1 DEF SemInv, IndexShaped, JobsHonest, Sem!DeleteChunks, Sem!At, Busy
<1>3. PICK a1, a2, a3, a4, a5, a6 :
        c = [pc |-> a1, gen |-> a2, todo |-> a3, stamp |-> a4, text |-> a5, update |-> a6]
  BY <1>2 DEF BuildShaped
<1>4. j = [pc |-> "embed", gen |-> a2, todo |-> a3, stamp |-> a4, text |-> a5, update |-> a6]
  BY <1>1, <1>3
<1>5. /\ BuildShaped(j) /\ j.pc = "embed" /\ j.gen = c.gen /\ j.todo = c.todo /\ j.stamp = c.stamp
      /\ j.text = c.text /\ j.update = c.update
  BY <1>3, <1>4 DEF BuildShaped
<1>6. PICK rows, overlap :
        /\ index' = [[[index EXCEPT !.builds[b] = j] EXCEPT !.rows = rows] EXCEPT !.overlap = overlap]
        /\ rows \subseteq index.rows /\ overlap \in BOOLEAN /\ (index.overlap => overlap)
        /\ ~overlap => rows = {r \in index.rows : r.path \notin c.update}
  <2>1. CASE index' = [Sem!Update(b, j) EXCEPT !.rows = {r \in index.rows : r.path \notin c.update}]
    <3>1. PICK rows : rows = {r \in index.rows : r.path \notin c.update}
      OBVIOUS
    <3>2. PICK x : x = [index EXCEPT !.builds[b] = j]
      OBVIOUS
    <3>3. index' = [x EXCEPT !.rows = rows] /\ x.overlap = index.overlap
      BY <2>1, <3>1, <3>2 DEF Sem!Update, SemInv, IndexShaped
    <3>4. index' = [[x EXCEPT !.rows = rows] EXCEPT !.overlap = index.overlap]
      BY <3>2, <3>3 DEF SemInv, IndexShaped
    <3>5. rows \subseteq index.rows /\ index.overlap \in BOOLEAN
      BY <3>1 DEF SemInv, Timed
    <3> QED
      BY <3>1, <3>2, <3>4, <3>5
  <2>2. CASE index' = [Sem!Update(b, j) EXCEPT !.overlap = TRUE]
    <3>1. PICK x : x = [index EXCEPT !.builds[b] = j]
      OBVIOUS
    <3>2. index' = [x EXCEPT !.overlap = TRUE]
      BY <2>2, <3>1 DEF Sem!Update
    <3>3. index' = [[x EXCEPT !.rows = index.rows] EXCEPT !.overlap = TRUE]
      BY <3>1, <3>2 DEF SemInv, IndexShaped
    <3> QED
      BY <3>1, <3>3
  <2> QED
    BY <1>1, <2>1, <2>2 DEF Sem!DeleteChunks, Sem!Update
<1>7. /\ IndexShaped(index)' /\ index'.builds = [index.builds EXCEPT ![b] = j] /\ index'.rows = rows
      /\ index'.overlap = overlap
      /\ UNCHANGED <<index.clock, index.disk, index.gen, index.taken, index.nodes, index.last>>
  BY <1>5, <1>6 DEF SemInv, IndexShaped
<1>8. \A d \in Sem!Builders : index'.builds[d] = IF d = b THEN j ELSE index.builds[d]
  BY <1>7 DEF SemInv, IndexShaped
<1>9. Timed(index)' /\ RowsHonest(index)'
  BY <1>6, <1>7 DEF SemInv, Timed, RowsHonest, Past
<1>10. JobHonest(index, j)
  BY <1>2, <1>5 DEF JobHonest
<1>11. JobsHonest(index)'
  BY <1>7, <1>8, <1>10 DEF SemInv, JobsHonest, JobHonest, Past
<1>12. ~overlap => \A d \in Sem!Builders \ {b} : ~Busy(index, d)
  BY <1>2, <1>6 DEF SemInv, Single
<1>13. Single(index)'
  BY <1>5, <1>6, <1>7, <1>8, <1>12 DEF SemInv, Single, Busy
<1>14. ASSUME ~overlap, NEW g \in index.nodes, Settled(index, g), Indexed(index, g), g \notin c.update
       PROVE  Indexed(index', g)
  BY <1>6, <1>7, <1>14 DEF Indexed
<1>15. ASSUME ~overlap, c.gen = index.gen, NEW g \in index.nodes, Settled(index, g)
       PROVE  Builds(index, c, g)
  BY <1>1, <1>2, <1>6, <1>15 DEF SemInv, InStep
<1>16. ASSUME ~overlap, index.last = index.gen
       PROVE  c.gen = index.gen /\ \A g \in index.nodes : Settled(index, g) => Indexed(index, g) /\ g \notin c.update
  <2>1. c.gen = index.gen /\ \A g \in index.nodes : Settled(index, g) => Indexed(index, g)
    BY <1>1, <1>2, <1>6, <1>16 DEF SemInv, Marked
  <2> QED
    BY <1>2, <1>15, <1>16, <2>1 DEF Builds
<1>17. Marked(index)'
  BY <1>5, <1>7, <1>8, <1>12, <1>14, <1>16 DEF Marked, Busy, Settled
<1>18. InStep(index)'
  <2>1. ASSUME ~overlap, c.gen = index.gen, NEW g \in index.nodes, Settled(index, g)
        PROVE  Builds(index', j, g)
    BY <1>2, <1>5, <1>7, <1>14, <1>15, <2>1 DEF Builds
  <2> QED
    BY <1>5, <1>7, <1>8, <1>12, <2>1 DEF InStep, Busy, Settled
<1> QED
  BY <1>7, <1>9, <1>11, <1>13, <1>17, <1>18 DEF SemInv

\* What is embedded has its one row.
LEMMA EmbedKeeps ==
    ASSUME SemInv, NEW b \in Sem!Builders, Sem!EmbedAndInsert(b)
    PROVE  SemInv'
<1>1. PICK c, new : /\ c = index.builds[b]
                    /\ new = {[path |-> f, stamp |-> c.stamp[f], text |-> c.text[f]] : f \in c.update}
  OBVIOUS
<1>2. JobHonest(index, c) /\ c.pc = "embed" /\ Busy(index, b)
  BY <1>1 DEF SemInv, JobsHonest, Sem!EmbedAndInsert, Sem!At, Busy
<1>3. index' = [Sem!Finished(b) EXCEPT !.rows = @ \cup new]
  BY <1>1 DEF Sem!EmbedAndInsert
<1>4. PICK last : /\ last \in {index.last, c.gen}
                  /\ Sem!Finished(b) = [index EXCEPT !.builds[b] = Sem!Idle, !.last = last]
  BY <1>1 DEF Sem!Finished, SemInv, IndexShaped
<1>5. /\ IndexShaped(index)' /\ index'.builds = [index.builds EXCEPT ![b] = Sem!Idle] /\ index'.rows = index.rows \cup new
      /\ UNCHANGED <<index.clock, index.disk, index.gen, index.taken, index.nodes, index.overlap>>
      /\ index'.last = last
  BY <1>3, <1>4, IdleRests DEF SemInv, IndexShaped
<1>6. \A r \in new : /\ r.path \in c.update /\ r.path \in DOMAIN c.text /\ r.path \in DOMAIN c.stamp
                     /\ r = [path |-> r.path, stamp |-> c.stamp[r.path], text |-> c.text[r.path]]
  BY <1>1, <1>2 DEF JobHonest
<1>7. \A r \in new : r.stamp = c.stamp[r.path] /\ r.text = c.text[r.path]
  BY <1>6
<1>8. RowsHonest(index)'
  <2>1. \A r \in new : Past(index, r.path, r.stamp) /\ Past(index, r.path, r.text) /\ r.stamp <= r.text
    BY <1>2, <1>6, <1>7 DEF JobHonest
  <2> QED
    BY <1>5, <2>1 DEF SemInv, RowsHonest, Past
<1>9. ~index.overlap => \A r, s \in index'.rows : r.path = s.path => r = s
  <2>1. ASSUME ~index.overlap
        PROVE  /\ \A r, s \in index.rows : r.path = s.path => r = s
               /\ \A r \in index.rows : r.path \notin c.update
    BY <1>1, <1>2, <2>1 DEF SemInv, Single
  <2>2. \A r, s \in new : r.path = s.path => r = s
    BY <1>6
  <2> QED
    BY <1>5, <1>6, <2>1, <2>2
<1>10. ~index.overlap /\ last = index.gen => c.gen = index.gen
  BY <1>1, <1>2, <1>4 DEF SemInv, Marked
<1>11. ASSUME ~index.overlap, last = index.gen, NEW f \in index.nodes, Settled(index, f)
       PROVE  Indexed(index', f)
  <2>1. Builds(index, c, f)
    BY <1>1, <1>2, <1>10, <1>11 DEF SemInv, InStep
  <2>2. CASE f \in c.update
    <3>1. PICK r : r = [path |-> f, stamp |-> c.stamp[f], text |-> c.text[f]]
      OBVIOUS
    <3>2. r \in new /\ r.path = f /\ r.stamp = c.stamp[f] /\ r.text = c.text[f]
      BY <1>1, <2>2, <3>1
    <3>3. c.stamp[f] = index.disk[f] /\ c.text[f] = index.disk[f]
      BY <1>2, <2>1, <2>2 DEF Builds, JobHonest
    <3> QED
      BY <1>5, <3>2, <3>3 DEF Indexed
  <2>3. CASE Indexed(index, f)
    BY <1>5, <2>3 DEF Indexed
  <2> QED
    BY <1>2, <2>1, <2>2, <2>3 DEF Builds
<1> QED
  BY <1>1, <1>2, <1>4, <1>5, <1>8, <1>9, <1>11, EndKeeps

\* A build that fails has marked nothing.
LEMMA FailsKeep ==
    ASSUME SemInv, NEW b \in Sem!Builders, Sem!Fails(b)
    PROVE  SemInv'
<1>1. Busy(index, b)
  BY DEF Sem!Fails, Sem!Building, Busy
<1>2. /\ IndexShaped(index)' /\ index'.builds = [index.builds EXCEPT ![b] = Sem!Idle]
      /\ UNCHANGED <<index.clock, index.disk, index.gen, index.taken, index.nodes, index.rows, index.overlap,
                     index.last>>
  BY IdleRests DEF Sem!Fails, Sem!Update, SemInv, IndexShaped
<1>3. RowsHonest(index)' /\ (~index.overlap => \A r, s \in index'.rows : r.path = s.path => r = s)
  BY <1>2 DEF SemInv, RowsHonest, Past, Single
<1>4. ~index.overlap /\ index'.last = index.gen =>
        \A f \in index.nodes : Settled(index, f) => Indexed(index', f)
  BY <1>2 DEF SemInv, Marked, Indexed
<1> QED
  BY <1>1, <1>2, <1>3, <1>4, EndKeeps

\* The first state has it: nothing is marked and nothing built.
LEMMA SemStart ==
    ASSUME Sem!Init
    PROVE  SemInv
<1>1. /\ index.clock = 0 /\ index.disk = [f \in Paths |-> 0] /\ index.gen = 0 /\ index.taken = 0
      /\ index.nodes = {} /\ index.rows = {} /\ index.last = 0 /\ index.builds = [b \in Sem!Builders |-> Sem!Idle]
      /\ index.overlap = FALSE
  BY DEF Sem!Init
<1>2. IndexShaped(index)
  BY <1>1, IdleRests DEF Sem!Init, IndexShaped
<1>3. Timed(index) /\ RowsHonest(index) /\ JobsHonest(index)
  <2>1. Timed(index)
    <3>1. index.disk \in [Paths -> Nat] /\ \A f \in Paths : index.disk[f] = 0
      BY <1>1
    <3>2. /\ index.clock = 0 /\ index.gen = 0 /\ index.taken = 0 /\ index.nodes = {} /\ index.last = 0
          /\ index.overlap = FALSE
      BY <1>1
    <3>3. /\ index.clock \in Nat /\ index.gen \in Nat /\ index.last \in Nat /\ index.taken \in Nat
          /\ index.taken <= index.clock /\ index.last <= index.gen
      BY <3>2
    <3>4. \A f \in Paths : index.disk[f] <= index.clock
      BY <3>1, <3>2
    <3>5. index.overlap \in BOOLEAN /\ index.nodes \subseteq Paths /\ (index.gen = 0 => index.nodes = {})
      BY <3>2
    <3> QED
      BY <3>1, <3>3, <3>4, <3>5 DEF Timed
  <2>2. RowsHonest(index)
    BY <1>1 DEF RowsHonest
  <2>3. \A b \in Sem!Builders : index.builds[b] = Sem!Idle /\ JobHonest(index, Sem!Idle)
    BY <1>1, IdleRests
  <2> QED
    BY <2>1, <2>2, <2>3 DEF JobsHonest
<1>4. Single(index) /\ Marked(index) /\ InStep(index)
  BY <1>1, IdleRests DEF Single, Marked, InStep, Busy
<1> QED
  BY <1>2, <1>3, <1>4 DEF SemInv

\* The properties are the invariant's.
LEMMA SemInvIsTrue ==
    ASSUME SemInv
    PROVE  Sem!SemanticIsTrue
<1>1. Sem!StampsAreHonest
  BY DEF SemInv, RowsHonest, Sem!StampsAreHonest
<1>2. ASSUME ~index.overlap, index.last = index.gen, NEW f \in index.nodes, index.disk[f] \in 1 .. index.taken
      PROVE  {r.text : r \in {x \in index.rows : x.path = f}} = {index.disk[f]}
  <2>1. PICK r \in index.rows : r.path = f /\ r.text = index.disk[f]
    BY <1>2 DEF SemInv, Marked, Settled, Indexed
  <2>2. \A s \in index.rows : s.path = f => s = r
    BY <1>2, <2>1 DEF SemInv, Single
  <2> QED
    BY <2>1, <2>2
<1> QED
  BY <1>1, <1>2 DEF Sem!SemanticIsTrue, Sem!CaughtUp

\* The index never has a chunk that counts as newer than its text.
LEMMA SemanticStaysTrue == Sem!Init /\ [][Sem!Next]_index => []Sem!SemanticIsTrue
<1>1. SemInv /\ [Sem!Next]_index => SemInv'
  <2>1. ASSUME SemInv, UNCHANGED index PROVE SemInv'
    BY <2>1 DEF SemInv, IndexShaped, Timed, RowsHonest, JobsHonest, Single, Marked, InStep
  <2>2. ASSUME SemInv, Sem!Next PROVE SemInv'
    BY <2>2, ChangeKeeps, SnapshotKeeps, RestartKeeps, BeginKeeps, CompareKeeps, DeleteKeeps, EmbedKeeps,
       FailsKeep, ReadKeeps DEF Sem!Next
  <2> QED
    BY <2>1, <2>2
<1> QED
  BY <1>1, SemStart, SemInvIsTrue, PTL

\* For any paths and number of writes, snapshots and restarts: no chunk is marked newer than its
\* text, and a snapshot marked as built is in the table.
THEOREM ChunksAreTrue == Spec => []ChunksAreCurrent
<1>1. Init => Sem!Init
  BY DEF Init
<1>2. [Next]_vars => [Sem!Next]_index
  BY DEF Next, vars
<1>3. Sem!SemanticIsTrue => ChunksAreCurrent
  BY DEF ChunksAreCurrent
<1> QED
  BY <1>1, <1>2, <1>3, SemanticStaysTrue, PTL DEF Spec

\* The graph has its fields.
GraphShaped(x) ==
    x = [disk |-> x.disk, told |-> x.told, queue |-> x.queue, recent |-> x.recent, nodes |-> x.nodes,
         edges |-> x.edges, parked |-> x.parked, clean |-> x.clean, snapshot |-> x.snapshot,
         writes |-> x.writes, started |-> x.started, answers |-> x.answers]

Events == {[file |-> f, gone |-> b] : f \in Graph!Files, b \in BOOLEAN}

Source(f, s) == s \in Sources[f] \cup {Graph!Gone}

Typed(x) ==
    /\ x.disk = [f \in Graph!Files |-> x.disk[f]] /\ \A f \in Graph!Files : Source(f, x.disk[f])
    /\ x.told = [f \in Graph!Files |-> x.told[f]] /\ \A f \in Graph!Files : Source(f, x.told[f])
    /\ x.queue \in Seq(Events)
    /\ x.answers = [f \in Graph!Files |-> x.answers[f]]

\* The node of a file or a function is in its file.
Named(x) == \A n \in x.nodes : n.id.scope # "external" => n.file = n.id.file

HasNode(x, id) == \E n \in x.nodes : n.id = id

\* A call, resolved or parked, comes from a function that has a node.
Rooted(x) == \A e \in x.edges : e.kind = "Calls" => e.from.scope # "external" /\ HasNode(x, e.from)
ParkedIn(x) ==
    \A p \in x.parked : p.file \in Graph!Files /\ p.from.scope # "external" /\ p.from.file = p.file /\ HasNode(x, p.from)

\* The calls of a file, each accounted for.
Match(x, f, s) == Graph!Accounted(Graph!CallsIn(x.edges, f), f, s, x.answers[f])

Current(x) == \A f \in x.clean : f \in Graph!Files => (x.told[f] # Graph!Gone => Match(x, f, x.told[f]))

Saved(x) == x.clean = Graph!Files => x.snapshot = x.edges

GraphInv ==
    /\ GraphShaped(graph) /\ Typed(graph) /\ graph.clean \subseteq Graph!Files
    /\ Named(graph) /\ Rooted(graph) /\ ParkedIn(graph) /\ Current(graph) /\ Saved(graph)

\* A call comes from its file or from a function of it.
LEMMA CallerIsDeclared ==
    ASSUME NEW f \in Graph!Files, NEW s, Source(f, s), NEW c \in s.calls
    PROVE  /\ \E n \in Graph!Declared(f, s) : n.id = Graph!Caller(f, s, c)
           /\ Graph!Caller(f, s, c).scope # "external" /\ Graph!Caller(f, s, c).file = f
<1> DEFINE around == {d \in s.decls : d.name = c.from}
<1>1. CASE around = {}
  <2>1. Graph!Caller(f, s, c) = Graph!FileSymbol(f)
    BY <1>1 DEF Graph!Caller
  <2>2. Graph!Node(Graph!FileSymbol(f), f, 1) \in Graph!Declared(f, s) /\ Graph!Node(Graph!FileSymbol(f), f, 1).id = Graph!FileSymbol(f)
    BY DEF Graph!Declared, Graph!Node
  <2> QED
    BY <2>1, <2>2 DEF Graph!FileSymbol
<1>2. CASE around # {}
  <2>1. PICK d \in s.decls : Graph!Caller(f, s, c) = Graph!Symbol(f, d)
    BY <1>2 DEF Graph!Caller
  <2>2. Graph!Node(Graph!Symbol(f, d), f, d.line) \in Graph!Declared(f, s) /\ Graph!Node(Graph!Symbol(f, d), f, d.line).id = Graph!Symbol(f, d)
    BY DEF Graph!Declared, Graph!Node
  <2> QED
    BY <2>1, <2>2 DEF Graph!Symbol
<1> QED
  BY <1>1, <1>2

\* What a source declares, mentions, calls and parks.
LEMMA SourceParts ==
    ASSUME NEW f \in Graph!Files, NEW s, Source(f, s)
    PROVE  /\ \A n \in Graph!Declared(f, s) \cup Graph!Mentioned(f, s) : n.id.scope # "external" => n.file = n.id.file
           /\ \A c \in s.calls : \E n \in Graph!Declared(f, s) : n.id = Graph!Caller(f, s, c)
           /\ \A e \in Graph!Called(f, s) : e.kind = "Calls" /\ \E c \in s.calls : e.from = Graph!Caller(f, s, c)
           /\ \A p \in Graph!Parks(f, s) : p.file = f /\ \E c \in s.calls : p.from = Graph!Caller(f, s, c)
<1>1. ASSUME NEW n \in Graph!Declared(f, s) PROVE n.id.scope # "external" => n.file = n.id.file
  BY <1>1 DEF Graph!Declared, Graph!Node, Graph!FileSymbol, Graph!Symbol
<1>2. ASSUME NEW n \in Graph!Mentioned(f, s) PROVE n.id.scope = "external"
  <2>1. PICK c \in s.calls : n = Graph!Node(Graph!External(c.name), f, c.line)
    BY <1>2 DEF Graph!Mentioned
  <2>2. n.id = Graph!External(c.name)
    BY <2>1 DEF Graph!Node
  <2>3. Graph!External(c.name).scope = "external"
    BY DEF Graph!External
  <2> QED
    BY <2>2, <2>3
<1>3. ASSUME NEW c \in s.calls PROVE \E n \in Graph!Declared(f, s) : n.id = Graph!Caller(f, s, c)
  BY <1>3, CallerIsDeclared
<1>4. ASSUME NEW e \in Graph!Called(f, s) PROVE e.kind = "Calls" /\ \E c \in s.calls : e.from = Graph!Caller(f, s, c)
  BY <1>4 DEF Graph!Called, Graph!Edge
<1>6. ASSUME NEW p \in Graph!Parks(f, s) PROVE p.file = f /\ \E c \in s.calls : p.from = Graph!Caller(f, s, c)
  BY <1>6 DEF Graph!Parks
<1> QED
  BY <1>1, <1>2, <1>3, <1>4, <1>6

\* What pruning a file and parsing its source leave.
ParsedAs(x, f, s, y) ==
    /\ GraphShaped(y)
    /\ y.nodes = Graph!Upserted(x.nodes, Graph!Declared(f, s) \cup Graph!Mentioned(f, s))
    /\ y.edges = {e \in x.edges : ~\E n \in x.nodes : n.id = e.from /\ n.file = f} \cup Graph!Called(f, s)
    /\ y.parked = x.parked \cup Graph!Parks(f, s)
    /\ y.disk = x.disk /\ y.told = x.told /\ y.queue = x.queue /\ y.clean = x.clean
    /\ y.snapshot = x.snapshot /\ y.answers = x.answers

\* What is left is in order: functions are named with their file, calls stand in functions.
LEMMA ParsedHas ==
    ASSUME NEW x, GraphShaped(x), NEW f, NEW s, NEW y, y = Graph!Parsed(Graph!Pruned(x, f), f, s)
    PROVE  ParsedAs(x, f, s, y)
<1>1. PICK kept : kept = {e \in x.edges : ~\E n \in x.nodes : n.id = e.from /\ n.file = f}
  OBVIOUS
<1>2. PICK z : z = Graph!Pruned(x, f) /\ z = [x EXCEPT !.edges = kept]
  BY <1>1 DEF Graph!Pruned
<1>3. z = [disk |-> x.disk, told |-> x.told, queue |-> x.queue, recent |-> x.recent, nodes |-> x.nodes,
           edges |-> kept, parked |-> x.parked, clean |-> x.clean, snapshot |-> x.snapshot,
           writes |-> x.writes, started |-> x.started, answers |-> x.answers]
  BY <1>2 DEF GraphShaped
<1>4. PICK nodes, edges, parked :
        /\ nodes = Graph!Upserted(z.nodes, Graph!Declared(f, s) \cup Graph!Mentioned(f, s))
        /\ edges = z.edges \cup Graph!Called(f, s) /\ parked = z.parked \cup Graph!Parks(f, s)
  OBVIOUS
<1>5. PICK u : u = [z EXCEPT !.nodes = nodes]
  OBVIOUS
<1>6. PICK v : v = [u EXCEPT !.edges = edges]
  OBVIOUS
<1>7. y = [v EXCEPT !.parked = parked]
  <2>1. y = [z EXCEPT !.nodes = nodes, !.edges = edges, !.parked = parked]
    BY <1>2, <1>4 DEF Graph!Parsed
  <2> QED
    BY <1>5, <1>6, <2>1, Zenon
<1>8. u = [disk |-> x.disk, told |-> x.told, queue |-> x.queue, recent |-> x.recent, nodes |-> nodes,
           edges |-> kept, parked |-> x.parked, clean |-> x.clean, snapshot |-> x.snapshot,
           writes |-> x.writes, started |-> x.started, answers |-> x.answers]
  BY <1>3, <1>5
<1>9. v = [disk |-> x.disk, told |-> x.told, queue |-> x.queue, recent |-> x.recent, nodes |-> nodes,
           edges |-> edges, parked |-> x.parked, clean |-> x.clean, snapshot |-> x.snapshot,
           writes |-> x.writes, started |-> x.started, answers |-> x.answers]
  BY <1>6, <1>8
<1>10. y = [disk |-> x.disk, told |-> x.told, queue |-> x.queue, recent |-> x.recent, nodes |-> nodes,
           edges |-> edges, parked |-> parked, clean |-> x.clean, snapshot |-> x.snapshot,
           writes |-> x.writes, started |-> x.started, answers |-> x.answers]
  BY <1>7, <1>9
<1>11. z.nodes = x.nodes /\ z.edges = kept /\ z.parked = x.parked
  BY <1>3
<1>12. GraphShaped(y)
  BY <1>10 DEF GraphShaped
<1> QED
  BY <1>1, <1>4, <1>10, <1>11, <1>12 DEF ParsedAs

\* A node that is replaced has a node.
LEMMA UpsertedHas ==
    ASSUME NEW nodes, NEW new
    PROVE  /\ \A n \in nodes : \E m \in Graph!Upserted(nodes, new) : m.id = n.id
           /\ \A n \in new : n \in Graph!Upserted(nodes, new)
           /\ \A n \in Graph!Upserted(nodes, new) : n \in nodes \/ n \in new
BY DEF Graph!Upserted

\* What resolving the calls of some files leaves.
ResolvedAs(x, files, to, retaken, y) ==
    /\ GraphShaped(y) /\ y.parked = x.parked \ Graph!Waiting(x, files)
    /\ y.disk = x.disk /\ y.told = x.told /\ y.queue = x.queue /\ y.clean = x.clean
    /\ y.nodes = x.nodes /\ y.snapshot = x.snapshot
    /\ y.answers = [f \in Graph!Files |->
          IF f \in files
            THEN {[from |-> p.from, name |-> p.name, to |-> to[p]] : p \in Graph!Waiting(x, {f})}
            ELSE x.answers[f]]

\* The edges that come and go are those of the calls that were found.
Answered(x, calls, to, retaken, y) ==
    /\ \A e \in y.edges : e.kind = "Calls" =>
          /\ ~(e \in retaken)
          /\ \/ e \in x.edges /\ \A p \in Graph!Found(calls, to) : e # Graph!Edge(p.from, Graph!External(p.name), "Calls")
             \/ \E p \in Graph!Found(calls, to) : e = Graph!Edge(p.from, to[p], "Calls")
    /\ \A e \in x.edges : e.kind = "Calls" =>
          \/ e \in y.edges \/ e \in retaken
          \/ \E p \in Graph!Found(calls, to) : e = Graph!Edge(p.from, Graph!External(p.name), "Calls")
    /\ \A p \in Graph!Found(calls, to) :
          Graph!Edge(p.from, to[p], "Calls") \in y.edges \/ Graph!Edge(p.from, to[p], "Calls") \in retaken

\* Resolving does both.
LEMMA ResolvedHas ==
    ASSUME NEW x, GraphShaped(x), NEW files, NEW to, NEW retaken, NEW y, y = Graph!Resolved(x, files, to, retaken)
    PROVE  ResolvedAs(x, files, to, retaken, y) /\ Answered(x, Graph!Waiting(x, files), to, retaken, y)
<1> DEFINE found == Graph!Found(Graph!Waiting(x, files), to)
           gone == {Graph!Edge(p.from, Graph!External(p.name), "Calls") : p \in found}
           new == {Graph!Edge(p.from, to[p], "Calls") : p \in found}
           impls == UNION {Graph!Implements(x, p, to[p]) : p \in found}
<1>1. PICK parked, edges, answers :
        /\ parked = x.parked \ Graph!Waiting(x, files) /\ edges = (((x.edges \ gone) \cup new) \ retaken) \cup impls
        /\ answers = [f \in Graph!Files |->
              IF f \in files
                THEN {[from |-> p.from, name |-> p.name, to |-> to[p]] : p \in Graph!Waiting(x, {f})}
                ELSE x.answers[f]]
  OBVIOUS
<1>2. y = [x EXCEPT !.parked = parked, !.edges = edges, !.answers = answers]
  BY <1>1 DEF Graph!Resolved
<1>3. y = [disk |-> x.disk, told |-> x.told, queue |-> x.queue, recent |-> x.recent, nodes |-> x.nodes,
           edges |-> edges, parked |-> parked, clean |-> x.clean, snapshot |-> x.snapshot,
           writes |-> x.writes, started |-> x.started, answers |-> answers]
  <2>1. PICK u : u = [x EXCEPT !.parked = parked]
    OBVIOUS
  <2>2. PICK v : v = [u EXCEPT !.edges = edges]
    OBVIOUS
  <2>3. y = [v EXCEPT !.answers = answers]
    BY <1>2, <2>1, <2>2, Zenon
  <2>4. u = [disk |-> x.disk, told |-> x.told, queue |-> x.queue, recent |-> x.recent, nodes |-> x.nodes,
             edges |-> x.edges, parked |-> parked, clean |-> x.clean, snapshot |-> x.snapshot,
             writes |-> x.writes, started |-> x.started, answers |-> x.answers]
    BY <2>1 DEF GraphShaped
  <2>5. v = [disk |-> x.disk, told |-> x.told, queue |-> x.queue, recent |-> x.recent, nodes |-> x.nodes,
             edges |-> edges, parked |-> parked, clean |-> x.clean, snapshot |-> x.snapshot,
             writes |-> x.writes, started |-> x.started, answers |-> x.answers]
    BY <2>2, <2>4
  <2> QED
    BY <2>3, <2>5
<1>4. GraphShaped(y)
  BY <1>3 DEF GraphShaped
<1>5. ASSUME NEW e \in impls PROVE e.kind = "Implements"
  <2>1. PICK p \in found : e \in Graph!Implements(x, p, to[p])
    OBVIOUS
  <2>2. \E a, b : e = Graph!Edge(a, b, "Implements")
    BY <2>1 DEF Graph!Implements
  <2> QED
    BY <2>2 DEF Graph!Edge
<1>6. ResolvedAs(x, files, to, retaken, y)
  BY <1>1, <1>3, <1>4 DEF ResolvedAs
<1>7. y.edges = (((x.edges \ gone) \cup new) \ retaken) \cup impls
  BY <1>1, <1>3
<1>8. ASSUME NEW e \in y.edges, e.kind = "Calls"
      PROVE  /\ ~(e \in retaken)
             /\ \/ e \in x.edges /\ \A p \in found : e # Graph!Edge(p.from, Graph!External(p.name), "Calls")
                \/ \E p \in found : e = Graph!Edge(p.from, to[p], "Calls")
  <2>1. e \notin impls
    BY <1>5, <1>8
  <2> HIDE DEF impls, found
  <2> QED
    BY <1>7, <1>8, <2>1
<1> HIDE DEF impls, found
<1>9. ASSUME NEW e \in x.edges, e.kind = "Calls"
      PROVE  \/ e \in y.edges \/ e \in retaken
             \/ \E p \in found : e = Graph!Edge(p.from, Graph!External(p.name), "Calls")
  BY <1>7, <1>9
<1>10. ASSUME NEW p \in found
       PROVE  Graph!Edge(p.from, to[p], "Calls") \in y.edges \/ Graph!Edge(p.from, to[p], "Calls") \in retaken
  BY <1>7, <1>10
<1>11. Answered(x, Graph!Waiting(x, files), to, retaken, y)
  BY <1>8, <1>9, <1>10 DEF Answered, found
<1> QED
  BY <1>6, <1>11

\* Pruning and parsing keep the graph in order, and leave the file's calls those of the source.
LEMMA ParsedKeeps ==
    ASSUME NEW x, GraphShaped(x), Named(x), Rooted(x), ParkedIn(x), NEW f \in Graph!Files, NEW s, Source(f, s),
           NEW y, y = Graph!Parsed(Graph!Pruned(x, f), f, s)
    PROVE  /\ Named(y) /\ Rooted(y) /\ ParkedIn(y) /\ Graph!CallsIn(y.edges, f) = Graph!Called(f, s)
           /\ \A h \in Graph!Files : h # f => Graph!CallsIn(y.edges, h) = Graph!CallsIn(x.edges, h)
<1>1. PICK new, calls, parks :
        new = Graph!Declared(f, s) \cup Graph!Mentioned(f, s) /\ calls = Graph!Called(f, s) /\ parks = Graph!Parks(f, s)
  OBVIOUS
<1>2. /\ y.nodes = Graph!Upserted(x.nodes, new)
      /\ y.edges = {e \in x.edges : ~\E n \in x.nodes : n.id = e.from /\ n.file = f} \cup calls
      /\ y.parked = x.parked \cup parks
  <2>1. /\ y.nodes = Graph!Upserted(x.nodes, Graph!Declared(f, s) \cup Graph!Mentioned(f, s))
        /\ y.edges = {e \in x.edges : ~\E n \in x.nodes : n.id = e.from /\ n.file = f} \cup Graph!Called(f, s)
        /\ y.parked = x.parked \cup Graph!Parks(f, s)
    <3>1. ParsedAs(x, f, s, y)
      BY ParsedHas
    <3> QED
      BY <3>1 DEF ParsedAs
  <2> QED
    BY <1>1, <2>1, Zenon
<1>3. /\ \A n \in new : n.id.scope # "external" => n.file = n.id.file
      /\ \A c \in s.calls : \E n \in new : n.id = Graph!Caller(f, s, c)
      /\ \A e \in calls : e.kind = "Calls" /\ \E c \in s.calls : e.from = Graph!Caller(f, s, c)
      /\ \A p \in parks : p.file = f /\ \E c \in s.calls : p.from = Graph!Caller(f, s, c)
  BY <1>1, SourceParts
<1>4. \A c \in s.calls : Graph!Caller(f, s, c).scope # "external" /\ Graph!Caller(f, s, c).file = f
  BY CallerIsDeclared
<1>5. Named(y)
  BY <1>2, <1>3, UpsertedHas DEF Named
<1>6. \A id : HasNode(x, id) => HasNode(y, id)
  BY <1>2, UpsertedHas DEF HasNode
<1>7. \A c \in s.calls : HasNode(y, Graph!Caller(f, s, c))
  BY <1>2, <1>3, UpsertedHas DEF HasNode
<1>8. \A e \in calls : e.from.scope # "external" /\ e.from.file = f /\ HasNode(y, e.from)
  BY <1>3, <1>4, <1>7
<1>9. Rooted(y)
  BY <1>2, <1>6, <1>8 DEF Rooted
<1>10. ParkedIn(y)
  BY <1>2, <1>3, <1>4, <1>6, <1>7 DEF ParkedIn
<1>11. ASSUME NEW e \in x.edges, e.kind = "Calls", e.from.file # f PROVE e \in y.edges
  BY <1>2, <1>11 DEF Rooted, Named
<1>12. ASSUME NEW e \in y.edges, e.kind = "Calls", e.from.file = f PROVE e \in calls
  BY <1>2, <1>12 DEF Rooted, Named, HasNode
<1>13. Graph!CallsIn(y.edges, f) = Graph!Called(f, s)
  BY <1>1, <1>2, <1>3, <1>8, <1>12 DEF Graph!CallsIn
<1>14. ASSUME NEW h \in Graph!Files, h # f PROVE Graph!CallsIn(y.edges, h) = Graph!CallsIn(x.edges, h)
  BY <1>2, <1>8, <1>11, <1>14 DEF Graph!CallsIn
<1> QED
  BY <1>5, <1>9, <1>10, <1>13, <1>14

\* The calls of a file, as parsed: each an edge to its name, and parked.
Unresolved(x, f, s) == Graph!CallsIn(x.edges, f) = Graph!Called(f, s) /\ Graph!Waiting(x, {f}) = Graph!Parks(f, s)

\* What a retaken edge is.
LEMMA RetakenIs ==
    ASSUME NEW calls, NEW to, NEW e \in Graph!Retaken(calls, to)
    PROVE  \E p, q \in Graph!Found(calls, to) :
              p.from = q.from /\ e = Graph!Edge(p.from, to[p], "Calls") /\ to[p] = Graph!External(q.name)
BY DEF Graph!Retaken

\* Resolving keeps functions with their files and calls in functions, and touches no call of
\* another file.
LEMMA ResolvedKeeps ==
    ASSUME NEW x, GraphShaped(x), Named(x), Rooted(x), ParkedIn(x), NEW files \in SUBSET Graph!Files,
           NEW to, NEW retaken \in SUBSET Graph!Retaken(Graph!Waiting(x, files), to),
           NEW y, y = Graph!Resolved(x, files, to, retaken)
    PROVE  /\ Named(y) /\ Rooted(y) /\ ParkedIn(y)
           /\ \A h \in Graph!Files : h \notin files => Graph!CallsIn(y.edges, h) = Graph!CallsIn(x.edges, h)
<1>0. PICK calls : calls = Graph!Waiting(x, files)
  OBVIOUS
<1>1. y.parked = x.parked \ calls /\ y.nodes = x.nodes /\ Answered(x, calls, to, retaken, y)
  <2>1. ResolvedAs(x, files, to, retaken, y) /\ Answered(x, Graph!Waiting(x, files), to, retaken, y)
    BY ResolvedHas
  <2> QED
    BY <1>0, <2>1 DEF ResolvedAs
<1>2. Named(y) /\ ParkedIn(y)
  BY <1>1 DEF Named, ParkedIn, HasNode
<1>3. ASSUME NEW p \in Graph!Found(calls, to)
      PROVE  p.file \in files /\ p.from.file = p.file /\ p.from.scope # "external" /\ HasNode(y, p.from)
  <2>1. p \in x.parked /\ p.file \in files
    BY <1>0 DEF Graph!Found, Graph!Waiting
  <2> QED
    BY <1>1, <2>1 DEF ParkedIn, HasNode
<1>4. \A p \in Graph!Found(calls, to) : \A id : Graph!Edge(p.from, id, "Calls").from = p.from /\ Graph!Edge(p.from, id, "Calls").kind = "Calls"
  BY DEF Graph!Edge
<1>5. Rooted(y)
  <2>1. ASSUME NEW e \in y.edges, e.kind = "Calls" PROVE e.from.scope # "external" /\ HasNode(y, e.from)
    <3>1. CASE e \in x.edges
      BY <1>1, <2>1, <3>1 DEF Rooted, HasNode
    <3>2. CASE \E p \in Graph!Found(calls, to) : e = Graph!Edge(p.from, to[p], "Calls")
      <4>1. PICK p \in Graph!Found(calls, to) : e = Graph!Edge(p.from, to[p], "Calls")
        BY <3>2
      <4> QED
        BY <1>3, <1>4, <4>1
    <3> QED
      BY <1>1, <2>1, <3>1, <3>2 DEF Answered
  <2> QED
    BY <2>1 DEF Rooted
<1>6. ASSUME NEW h \in Graph!Files, h \notin files PROVE Graph!CallsIn(y.edges, h) = Graph!CallsIn(x.edges, h)
  <2>1. ASSUME NEW p \in Graph!Found(calls, to), NEW id PROVE Graph!Edge(p.from, id, "Calls").from.file # h
    BY <1>3, <1>4, <1>6
  <2>2. ASSUME NEW e \in retaken PROVE e.from.file # h
    <3>1. e \in Graph!Retaken(calls, to)
      BY <1>0
    <3>2. PICK p \in Graph!Found(calls, to) : e = Graph!Edge(p.from, to[p], "Calls")
      BY <3>1, RetakenIs
    <3> QED
      BY <2>1, <3>2
  <2>3. ASSUME NEW e \in y.edges, e.kind = "Calls", e.from.file = h PROVE e \in x.edges
    BY <1>1, <2>1, <2>3 DEF Answered
  <2>4. ASSUME NEW e \in x.edges, e.kind = "Calls", e.from.file = h PROVE e \in y.edges
    BY <1>1, <2>1, <2>2, <2>4 DEF Answered
  <2> QED
    BY <2>3, <2>4 DEF Graph!CallsIn
<1> QED
  BY <1>2, <1>5, <1>6

\* What parking and resolving a source's calls notes of them.
LEMMA SourceAnswers ==
    ASSUME NEW f, NEW s, NEW to, NEW answers,
           answers = {[from |-> p.from, name |-> p.name, to |-> to[p]] : p \in Graph!Parks(f, s)}
    PROVE  {<<a.from, a.name>> : a \in answers} = {<<Graph!Caller(f, s, c), c.name>> : c \in s.calls}
<1>1. ASSUME NEW a \in answers PROVE \E c \in s.calls : a.from = Graph!Caller(f, s, c) /\ a.name = c.name
  <2>1. PICK p \in Graph!Parks(f, s) : a = [from |-> p.from, name |-> p.name, to |-> to[p]]
    OBVIOUS
  <2>2. PICK c \in s.calls : p = [from |-> Graph!Caller(f, s, c), name |-> c.name, line |-> c.line, file |-> f]
    BY DEF Graph!Parks
  <2> QED
    BY <2>1, <2>2
<1>2. ASSUME NEW c \in s.calls PROVE \E a \in answers : a.from = Graph!Caller(f, s, c) /\ a.name = c.name
  <2>1. PICK p : p = [from |-> Graph!Caller(f, s, c), name |-> c.name, line |-> c.line, file |-> f]
    OBVIOUS
  <2>2. p \in Graph!Parks(f, s)
    BY <2>1 DEF Graph!Parks
  <2>3. PICK a : a = [from |-> p.from, name |-> p.name, to |-> to[p]]
    OBVIOUS
  <2>4. a \in answers
    BY <2>2, <2>3
  <2> QED
    BY <2>1, <2>3, <2>4
<1> QED
  BY <1>1, <1>2

\* The calls of a source that were all resolved are accounted for.
LEMMA ResolvedAccounts ==
    ASSUME NEW x, GraphShaped(x), ParkedIn(x), NEW files \in SUBSET Graph!Files, NEW f \in files, NEW s,
           Unresolved(x, f, s), NEW to, NEW retaken \in SUBSET Graph!Retaken(Graph!Waiting(x, files), to),
           NEW y, y = Graph!Resolved(x, files, to, retaken)
    PROVE  Match(y, f, s)
<1>0. PICK calls, mine, found : calls = Graph!Waiting(x, files) /\ mine = Graph!Waiting(x, {f}) /\ found = Graph!Found(calls, to)
  OBVIOUS
<1>1. ResolvedAs(x, files, to, retaken, y) /\ Answered(x, calls, to, retaken, y)
  BY <1>0, ResolvedHas
<1>2. PICK answers : /\ answers = y.answers[f]
                     /\ answers = {[from |-> p.from, name |-> p.name, to |-> to[p]] : p \in mine}
  BY <1>0, <1>1 DEF ResolvedAs
<1>3. mine = Graph!Parks(f, s) /\ Graph!CallsIn(x.edges, f) = Graph!Called(f, s)
  BY <1>0 DEF Unresolved
<1>4. {<<a.from, a.name>> : a \in answers} = {<<Graph!Caller(f, s, c), c.name>> : c \in s.calls}
  <2>1. answers = {[from |-> p.from, name |-> p.name, to |-> to[p]] : p \in Graph!Parks(f, s)}
    BY <1>2, <1>3
  <2> QED
    BY <2>1, SourceAnswers
<1>5. ASSUME NEW p \in calls
      PROVE  p.from.file = p.file /\ (p.from.file = f => p \in mine)
  BY <1>0, <1>5 DEF Graph!Waiting, ParkedIn
<1>6. mine \subseteq calls /\ \A p \in mine : p.from.file = f
  BY <1>0 DEF Graph!Waiting, ParkedIn
<1>7. found = {p \in calls : to[p] # Graph!External(p.name)}
  BY <1>0 DEF Graph!Found
<1>8. \A a, b : Graph!Edge(a, b, "Calls").from = a /\ Graph!Edge(a, b, "Calls").to = b /\ Graph!Edge(a, b, "Calls").kind = "Calls"
  BY DEF Graph!Edge
<1>9. ASSUME NEW p \in mine
      PROVE  \E a \in answers : a.from = p.from /\ a.name = p.name /\ a.to = to[p]
  <2>1. PICK a : a = [from |-> p.from, name |-> p.name, to |-> to[p]]
    OBVIOUS
  <2> QED
    BY <1>2, <2>1
<1>10. ASSUME NEW e \in Graph!CallsIn(y.edges, f) PROVE \E a \in answers : e = Graph!Edge(a.from, a.to, "Calls")
  <2>1. e \in y.edges /\ e.kind = "Calls" /\ e.from.file = f
    BY <1>10 DEF Graph!CallsIn
  <2>2. PICK p \in mine : e = Graph!Edge(p.from, to[p], "Calls")
    <3>1. CASE \E p \in found : e = Graph!Edge(p.from, to[p], "Calls")
      <4>1. PICK p \in found : e = Graph!Edge(p.from, to[p], "Calls")
        BY <3>1
      <4>2. p \in mine
        BY <1>5, <1>7, <1>8, <2>1, <4>1
      <4> QED
        BY <4>1, <4>2
    <3>2. CASE e \in x.edges /\ \A p \in found : e # Graph!Edge(p.from, Graph!External(p.name), "Calls")
      <4>1. e \in Graph!Called(f, s)
        BY <1>3, <2>1, <3>2 DEF Graph!CallsIn
      <4>2. PICK c \in s.calls : e = Graph!Edge(Graph!Caller(f, s, c), Graph!External(c.name), "Calls")
        BY <4>1 DEF Graph!Called
      <4>3. PICK p : p = [from |-> Graph!Caller(f, s, c), name |-> c.name, line |-> c.line, file |-> f]
        OBVIOUS
      <4>4. p \in mine
        BY <1>3, <4>3 DEF Graph!Parks
      <4>5. e = Graph!Edge(p.from, Graph!External(p.name), "Calls")
        BY <4>2, <4>3
      <4>6. p \notin found
        BY <3>2, <4>5
      <4>7. to[p] = Graph!External(p.name)
        BY <1>6, <1>7, <4>4, <4>6
      <4> QED
        BY <4>4, <4>5, <4>7
    <3> QED
      BY <1>0, <1>1, <2>1, <3>1, <3>2 DEF Answered
  <2>3. PICK a \in answers : a.from = p.from /\ a.to = to[p]
    BY <1>9
  <2> QED
    BY <2>2, <2>3
<1>11. ASSUME NEW p \in mine, NEW q \in found, q.from = p.from, to[p] = Graph!External(q.name)
       PROVE  \E b \in answers : b.from = p.from /\ to[p] = Graph!External(b.name) /\ b.to # to[p]
  <2>1. q \in mine /\ to[q] # Graph!External(q.name)
    BY <1>5, <1>6, <1>7, <1>11
  <2>2. PICK b \in answers : b.from = q.from /\ b.name = q.name /\ b.to = to[q]
    BY <1>9, <2>1
  <2> QED
    BY <1>11, <2>1, <2>2
<1>12. ASSUME NEW p \in mine, Graph!Edge(p.from, to[p], "Calls") \in retaken
       PROVE  \E q \in found : q.from = p.from /\ to[p] = Graph!External(q.name)
  <2>1. Graph!Edge(p.from, to[p], "Calls") \in Graph!Retaken(calls, to)
    BY <1>0, <1>12
  <2>2. PICK u, q \in found : /\ u.from = q.from /\ to[u] = Graph!External(q.name)
                             /\ Graph!Edge(p.from, to[p], "Calls") = Graph!Edge(u.from, to[u], "Calls")
    BY <1>0, <2>1, RetakenIs
  <2> QED
    BY <1>8, <2>2
<1>13. ASSUME NEW p \in mine
       PROVE  \/ Graph!Edge(p.from, to[p], "Calls") \in Graph!CallsIn(y.edges, f)
              \/ \E b \in answers : b.from = p.from /\ to[p] = Graph!External(b.name) /\ b.to # to[p]
  <2>0. ASSUME Graph!Edge(p.from, to[p], "Calls") \in y.edges PROVE Graph!Edge(p.from, to[p], "Calls") \in Graph!CallsIn(y.edges, f)
    BY <1>6, <1>8, <2>0 DEF Graph!CallsIn
  <2>1. CASE Graph!Edge(p.from, to[p], "Calls") \in retaken
    BY <1>11, <1>12, <2>1
  <2>2. CASE p \in found /\ Graph!Edge(p.from, to[p], "Calls") \notin retaken
    BY <1>0, <1>1, <2>0, <2>2 DEF Answered
  <2>3. CASE p \notin found /\ Graph!Edge(p.from, to[p], "Calls") \notin retaken
    <3>1. to[p] = Graph!External(p.name)
      BY <1>6, <1>7, <2>3
    <3>2. PICK c \in s.calls : p = [from |-> Graph!Caller(f, s, c), name |-> c.name, line |-> c.line, file |-> f]
      BY <1>3 DEF Graph!Parks
    <3>3. Graph!Edge(p.from, to[p], "Calls") \in Graph!Called(f, s)
      BY <3>1, <3>2 DEF Graph!Called
    <3>4. Graph!Edge(p.from, to[p], "Calls") \in x.edges
      BY <1>3, <3>3 DEF Graph!CallsIn
    <3>5. \/ Graph!Edge(p.from, to[p], "Calls") \in y.edges
          \/ \E q \in found : Graph!Edge(p.from, to[p], "Calls") = Graph!Edge(q.from, Graph!External(q.name), "Calls")
      BY <1>0, <1>1, <1>8, <2>3, <3>4 DEF Answered
    <3>6. ASSUME NEW q \in found, Graph!Edge(p.from, to[p], "Calls") = Graph!Edge(q.from, Graph!External(q.name), "Calls")
          PROVE  q.from = p.from /\ to[p] = Graph!External(q.name)
      BY <1>8, <3>6
    <3> QED
      BY <1>11, <2>0, <3>5, <3>6
  <2> QED
    BY <2>1, <2>2, <2>3
<1>14. ASSUME NEW a \in answers
       PROVE  \/ Graph!Edge(a.from, a.to, "Calls") \in Graph!CallsIn(y.edges, f)
              \/ \E b \in answers : b.from = a.from /\ a.to = Graph!External(b.name) /\ b.to # a.to
  <2>1. PICK p \in mine : a.from = p.from /\ a.to = to[p]
    BY <1>2
  <2> QED
    BY <1>13, <2>1
<1> QED
  BY <1>2, <1>4, <1>10, <1>14 DEF Match, Graph!Accounted

\* An event that is taken is of a file, and leaves the rest of the graph.
LEMMA EventTaken ==
    ASSUME GraphInv, graph.queue # << >>, NEW x, x = Graph!Taken \/ x = Graph!Handled
    PROVE  /\ GraphShaped(x) /\ x.queue = Tail(graph.queue) /\ x.queue \in Seq(Events) /\ Graph!Event.file \in Graph!Files
           /\ x.disk = graph.disk /\ x.told = graph.told /\ x.nodes = graph.nodes /\ x.edges = graph.edges
           /\ x.parked = graph.parked /\ x.clean = graph.clean /\ x.snapshot = graph.snapshot /\ x.answers = graph.answers
<1>1. graph.queue \in Seq(Events)
  BY DEF GraphInv, Typed
<1>2. Tail(graph.queue) \in Seq(Events) /\ Head(graph.queue) \in Events
  BY <1>1
<1>3. Graph!Event.file \in Graph!Files
  BY <1>2 DEF Graph!Event, Events
<1>4. CASE x = Graph!Taken
  BY <1>2, <1>3, <1>4 DEF Graph!Taken, GraphInv, GraphShaped
<1>5. CASE x = Graph!Handled
  <2>1. PICK t : t = Graph!Taken
    OBVIOUS
  <2>2. /\ GraphShaped(t) /\ t.queue = Tail(graph.queue)
        /\ t.disk = graph.disk /\ t.told = graph.told /\ t.nodes = graph.nodes /\ t.edges = graph.edges
        /\ t.parked = graph.parked /\ t.clean = graph.clean /\ t.snapshot = graph.snapshot /\ t.answers = graph.answers
    BY <2>1 DEF Graph!Taken, GraphInv, GraphShaped
  <2>3. PICK recent : x = [t EXCEPT !.recent = recent]
    BY <1>5, <2>1 DEF Graph!Handled
  <2> QED
    BY <1>2, <1>3, <2>2, <2>3 DEF GraphShaped
<1> QED
  BY <1>4, <1>5

\* A step that leaves nodes, edges and what is known of them.
LEMMA AsideKeeps ==
    ASSUME GraphInv, GraphShaped(graph)', Typed(graph)',
           UNCHANGED <<graph.told, graph.nodes, graph.edges, graph.parked, graph.clean, graph.snapshot, graph.answers>>
    PROVE  GraphInv'
<1>1. Named(graph)' /\ Rooted(graph)' /\ ParkedIn(graph)' /\ Saved(graph)'
  BY DEF GraphInv, Named, Rooted, ParkedIn, Saved, HasNode
<1>2. Current(graph)'
  BY DEF GraphInv, Current, Match
<1> QED
  BY <1>1, <1>2 DEF GraphInv

\* A write adds events and changes no graph.
LEMMA WriteKeeps ==
    ASSUME GraphInv, NEW f \in Graph!Files, NEW s \in Sources[f] \cup {Graph!Gone}, Graph!Write(f, s)
    PROVE  GraphInv'
<1>0. ASSUME NEW b \in BOOLEAN PROVE [file |-> f, gone |-> b] \in Events
  BY DEF Events
<1>1. PICK e : e = [file |-> f, gone |-> s = Graph!Gone] /\ e \in Events
  <2>1. [file |-> f, gone |-> s = Graph!Gone] \in Events
    BY <1>0
  <2> QED
    BY <2>1
<1>2. PICK queue, writes : /\ queue = Append(graph.queue, e)
                           /\ graph' = [graph EXCEPT !.disk[f] = s, !.writes = writes, !.queue = queue]
  BY <1>1 DEF Graph!Write
<1>3. queue \in Seq(Events)
  BY <1>1, <1>2 DEF GraphInv, Typed
<1>4. PICK disk : disk = [graph.disk EXCEPT ![f] = s]
  OBVIOUS
<1>5. graph' = [graph EXCEPT !.disk = disk, !.writes = writes, !.queue = queue]
  BY <1>2, <1>4
<1>6. /\ GraphShaped(graph)' /\ graph'.disk = disk /\ graph'.queue = queue
      /\ UNCHANGED <<graph.told, graph.nodes, graph.edges, graph.parked, graph.clean, graph.snapshot, graph.answers>>
  BY <1>5 DEF GraphInv, GraphShaped
<1>7. disk = [h \in Graph!Files |-> disk[h]] /\ \A h \in Graph!Files : Source(h, disk[h])
  BY <1>4 DEF GraphInv, Typed, Source
<1>8. Typed(graph)'
  BY <1>3, <1>6, <1>7 DEF GraphInv, Typed
<1> QED
  BY <1>6, <1>8, AsideKeeps

\* An event of a file that did not change is passed over.
LEMMA PassKeeps ==
    ASSUME GraphInv, Graph!Quiet \/ Graph!Debounced \/ Graph!Vanished
    PROVE  GraphInv'
<1>1. CASE Graph!Quiet
  <2>1. /\ GraphShaped(graph)' /\ UNCHANGED <<graph.disk, graph.queue>>
        /\ UNCHANGED <<graph.told, graph.nodes, graph.edges, graph.parked, graph.clean, graph.snapshot, graph.answers>>
    BY <1>1 DEF Graph!Quiet, GraphInv, GraphShaped
  <2>2. Typed(graph)'
    BY <2>1 DEF GraphInv, Typed
  <2> QED
    BY <2>1, <2>2, AsideKeeps
<1>2. CASE Graph!Debounced \/ Graph!Vanished
  <2>1. PICK x : x = graph' /\ graph.queue # << >> /\ (x = Graph!Taken \/ x = Graph!Handled)
    BY <1>2 DEF Graph!Debounced, Graph!Vanished, Graph!Handling
  <2>2. /\ GraphShaped(x) /\ x.queue \in Seq(Events) /\ x.disk = graph.disk /\ x.told = graph.told
        /\ x.nodes = graph.nodes /\ x.edges = graph.edges
        /\ x.parked = graph.parked /\ x.clean = graph.clean /\ x.snapshot = graph.snapshot /\ x.answers = graph.answers
    BY <2>1, EventTaken
  <2>3. Typed(x)
    BY <2>2 DEF GraphInv, Typed
  <2> QED
    BY <2>1, <2>2, <2>3, AsideKeeps
<1> QED
  BY <1>1, <1>2

\* The file is gone for the language server; its nodes and edges stay.
LEMMA RemovedKeeps ==
    ASSUME GraphInv, Graph!Removed
    PROVE  GraphInv'
<1>1. PICK x, f : x = Graph!Handled /\ f = Graph!Event.file /\ graph.queue # << >>
  BY DEF Graph!Removed, Graph!Handling
<1>2. /\ GraphShaped(x) /\ x.queue \in Seq(Events) /\ f \in Graph!Files
      /\ x.disk = graph.disk /\ x.told = graph.told /\ x.nodes = graph.nodes /\ x.edges = graph.edges
      /\ x.parked = graph.parked /\ x.clean = graph.clean /\ x.snapshot = graph.snapshot /\ x.answers = graph.answers
  BY <1>1, EventTaken
<1>3. PICK y, told : told = [x.told EXCEPT ![f] = Graph!Gone] /\ y = [x EXCEPT !.told = told]
  OBVIOUS
<1>4. graph' = [y EXCEPT !.snapshot = y.edges]
  BY <1>1, <1>3 DEF Graph!Removed, Graph!Persisted
<1>5. /\ GraphShaped(y) /\ y.queue = x.queue /\ y.disk = x.disk /\ y.told = told /\ y.nodes = x.nodes
      /\ y.edges = x.edges /\ y.parked = x.parked /\ y.clean = x.clean /\ y.answers = x.answers
  BY <1>2, <1>3 DEF GraphShaped
<1>6. /\ GraphShaped(graph)' /\ graph'.queue = x.queue /\ graph'.disk = graph.disk /\ graph'.told = told
      /\ graph'.snapshot = graph'.edges
      /\ UNCHANGED <<graph.nodes, graph.edges, graph.parked, graph.clean, graph.answers>>
  BY <1>2, <1>4, <1>5 DEF GraphShaped
<1>7. told = [h \in Graph!Files |-> told[h]] /\ \A h \in Graph!Files : told[h] = IF h = f THEN Graph!Gone ELSE graph.told[h]
  BY <1>2, <1>3 DEF GraphInv, Typed
<1>8. Typed(graph)'
  BY <1>2, <1>6, <1>7 DEF GraphInv, Typed, Source
<1>9. Named(graph)' /\ Rooted(graph)' /\ ParkedIn(graph)' /\ Saved(graph)'
  BY <1>6 DEF GraphInv, Named, Rooted, ParkedIn, Saved, HasNode
<1>10. Current(graph)'
  BY <1>6, <1>7 DEF GraphInv, Current, Match
<1> QED
  BY <1>6, <1>8, <1>9, <1>10 DEF GraphInv

\* A file that is left half parsed is not clean, and the others' calls stay.
LEMMA ParseFailsKeeps ==
    ASSUME GraphInv, Graph!ParseFails
    PROVE  GraphInv'
<1>1. PICK x, f, s : /\ x = Graph!Handled /\ f = Graph!Event.file /\ s = graph.disk[f] /\ graph.queue # << >>
  BY DEF Graph!ParseFails, Graph!Handling
<1>2. /\ GraphShaped(x) /\ x.queue \in Seq(Events) /\ f \in Graph!Files
      /\ x.disk = graph.disk /\ x.told = graph.told /\ x.nodes = graph.nodes /\ x.edges = graph.edges
      /\ x.parked = graph.parked /\ x.clean = graph.clean /\ x.snapshot = graph.snapshot /\ x.answers = graph.answers
  BY <1>1, EventTaken
<1>3. Source(f, s)
  BY <1>1, <1>2 DEF GraphInv, Typed
<1>4. Named(x) /\ Rooted(x) /\ ParkedIn(x)
  BY <1>2 DEF GraphInv, Named, Rooted, ParkedIn, HasNode
<1>5. PICK y : y = Graph!Parsed(Graph!Pruned(x, f), f, s) /\ graph' = [y EXCEPT !.clean = y.clean \ {f}]
  BY <1>1 DEF Graph!ParseFails
<1>6. ParsedAs(x, f, s, y)
  BY <1>2, <1>5, ParsedHas
<1>7. /\ Named(y) /\ Rooted(y) /\ ParkedIn(y)
      /\ \A h \in Graph!Files : h # f => Graph!CallsIn(y.edges, h) = Graph!CallsIn(x.edges, h)
  BY <1>2, <1>3, <1>4, <1>5, ParsedKeeps
<1>8. /\ GraphShaped(graph)' /\ graph'.queue = x.queue /\ graph'.disk = graph.disk /\ graph'.told = graph.told
      /\ graph'.clean = graph.clean \ {f} /\ graph'.nodes = y.nodes /\ graph'.edges = y.edges
      /\ graph'.parked = y.parked /\ graph'.answers = graph.answers
  BY <1>2, <1>5, <1>6 DEF ParsedAs, GraphShaped
<1>9. Typed(graph)'
  BY <1>2, <1>8 DEF GraphInv, Typed
<1>10. Named(graph)' /\ Rooted(graph)' /\ ParkedIn(graph)'
  BY <1>7, <1>8 DEF Named, Rooted, ParkedIn, HasNode
<1>11. ASSUME NEW h \in Graph!Files, h \in graph.clean, h # f, graph.told[h] # Graph!Gone
       PROVE  Match(graph', h, graph.told[h])
  <2>1. PICK t : t = graph.told[h] /\ Match(graph, h, t)
    BY <1>11 DEF GraphInv, Current
  <2>2. Graph!CallsIn(graph'.edges, h) = Graph!CallsIn(graph.edges, h)
    BY <1>2, <1>7, <1>8, <1>11
  <2> QED
    BY <1>8, <2>1, <2>2 DEF Match
<1>12. Current(graph)'
  BY <1>8, <1>11 DEF Current
<1>13. Saved(graph)' /\ graph'.clean \subseteq Graph!Files
  BY <1>2, <1>8 DEF Saved, GraphInv
<1> QED
  BY <1>8, <1>9, <1>10, <1>12, <1>13 DEF GraphInv

\* The clean files match, but those whose calls are now resolved have just been parsed.
Matching(x, files) ==
    \A f \in x.clean : x.told[f] # Graph!Gone =>
        IF f \in files THEN Unresolved(x, f, x.told[f]) ELSE Match(x, f, x.told[f])

\* What resolving and saving leave, of a graph whose files match.
LEMMA ResolvedAndSaved ==
    ASSUME NEW x, GraphShaped(x), Typed(x), x.clean \subseteq Graph!Files, Named(x), Rooted(x), ParkedIn(x),
           NEW files \in SUBSET Graph!Files, NEW to, NEW retaken \in SUBSET Graph!Retaken(Graph!Waiting(x, files), to),
           Matching(x, files), graph' = Graph!Persisted(Graph!Resolved(x, files, to, retaken))
    PROVE  GraphInv'
<1>1. PICK y : y = Graph!Resolved(x, files, to, retaken)
  OBVIOUS
<1>2. /\ GraphShaped(y) /\ y.disk = x.disk /\ y.told = x.told /\ y.queue = x.queue /\ y.clean = x.clean
      /\ y.nodes = x.nodes /\ y.answers = [f \in Graph!Files |-> y.answers[f]]
      /\ \A f \in Graph!Files : f \notin files => y.answers[f] = x.answers[f]
  <2>1. ResolvedAs(x, files, to, retaken, y)
    BY <1>1, ResolvedHas
  <2>2. /\ y.answers = [f \in Graph!Files |-> y.answers[f]]
        /\ \A f \in Graph!Files : f \notin files => y.answers[f] = x.answers[f]
    BY <2>1 DEF ResolvedAs
  <2> QED
    BY <2>1, <2>2 DEF ResolvedAs
<1>3. /\ Named(y) /\ Rooted(y) /\ ParkedIn(y)
      /\ \A h \in Graph!Files : h \notin files => Graph!CallsIn(y.edges, h) = Graph!CallsIn(x.edges, h)
  BY <1>1, ResolvedKeeps
<1>4. /\ GraphShaped(graph)' /\ graph'.disk = x.disk /\ graph'.told = x.told /\ graph'.queue = x.queue
      /\ graph'.clean = x.clean /\ graph'.nodes = y.nodes /\ graph'.edges = y.edges
      /\ graph'.parked = y.parked /\ graph'.snapshot = y.edges /\ graph'.answers = y.answers
  BY <1>1, <1>2 DEF Graph!Persisted, GraphShaped
<1>5. Typed(graph)' /\ Named(graph)' /\ Rooted(graph)' /\ ParkedIn(graph)' /\ Saved(graph)'
  BY <1>2, <1>3, <1>4 DEF Typed, Named, Rooted, ParkedIn, HasNode, Saved
<1>6. ASSUME NEW f \in x.clean, x.told[f] # Graph!Gone PROVE Match(graph', f, x.told[f])
  <2>1. PICK t : t = x.told[f]
    OBVIOUS
  <2>2. CASE f \in files
    <3>1. Unresolved(x, f, t)
      BY <1>6, <2>1, <2>2 DEF Matching
    <3>2. Match(y, f, t)
      BY <1>1, <2>2, <3>1, ResolvedAccounts
    <3> QED
      BY <1>4, <2>1, <3>2 DEF Match
  <2>3. CASE f \notin files
    <3>1. Match(x, f, t)
      BY <1>6, <2>1, <2>3 DEF Matching
    <3>2. Graph!CallsIn(y.edges, f) = Graph!CallsIn(x.edges, f) /\ y.answers[f] = x.answers[f]
      BY <1>2, <1>3, <2>3
    <3> QED
      BY <1>4, <2>1, <3>1, <3>2 DEF Match
  <2> QED
    BY <2>2, <2>3
<1>7. Current(graph)'
  BY <1>4, <1>6 DEF Current
<1> QED
  BY <1>4, <1>5, <1>7 DEF GraphInv

\* A file parsed again has the calls of its source, unless calls of an earlier one are left.
LEMMA ReparsedKeeps ==
    ASSUME GraphInv, Graph!Reparsed
    PROVE  GraphInv'
<1> DEFINE left == \E p \in graph.parked : p.file = Graph!Event.file
<1>a. PICK x, f, s : x = Graph!Handled /\ f = Graph!Event.file /\ s = graph.disk[f]
  OBVIOUS
<1>b. PICK y : y = Graph!Parsed(Graph!Pruned(x, f), f, s)
  OBVIOUS
<1>c. PICK g : g = [y EXCEPT !.told[f] = s, !.clean = IF left THEN y.clean \ {f} ELSE y.clean \cup {f}]
  OBVIOUS
<1>d. PICK files : files = {f}
  OBVIOUS
<1>e. PICK to, retaken : /\ retaken \in SUBSET Graph!Retaken(Graph!Waiting(g, files), to)
                         /\ graph' = Graph!Persisted(Graph!Resolved(g, files, to, retaken))
  <2> DEFINE read == Graph!Parsed(Graph!Pruned(Graph!Handled, Graph!Event.file), Graph!Event.file,
                                  graph.disk[Graph!Event.file])
             next == [read EXCEPT !.told[Graph!Event.file] = graph.disk[Graph!Event.file],
                                  !.clean = IF left THEN @ \ {Graph!Event.file} ELSE @ \cup {Graph!Event.file}]
  <2>1. g = next /\ files = {Graph!Event.file}
    BY <1>a, <1>b, <1>c, <1>d
  <2>2. \E to, retaken : /\ retaken \in SUBSET Graph!Retaken(Graph!Waiting(next, {Graph!Event.file}), to)
                         /\ graph' = Graph!Persisted(Graph!Resolved(next, {Graph!Event.file}, to, retaken))
    BY Zenon DEF Graph!Reparsed
  <2> HIDE DEF next
  <2> QED
    BY <2>1, <2>2, Zenon
<1>f. graph.queue # << >> /\ (left <=> \E p \in graph.parked : p.file = f)
  BY <1>a DEF Graph!Reparsed, Graph!Handling
<1> HIDE DEF left
<1>1. /\ x = Graph!Handled /\ f = Graph!Event.file /\ s = graph.disk[f] /\ graph.queue # << >>
      /\ left <=> \E p \in graph.parked : p.file = f
      /\ y = Graph!Parsed(Graph!Pruned(x, f), f, s)
      /\ g = [y EXCEPT !.told[f] = s, !.clean = IF left THEN y.clean \ {f} ELSE y.clean \cup {f}]
      /\ files = {f} /\ retaken \in SUBSET Graph!Retaken(Graph!Waiting(g, files), to)
      /\ graph' = Graph!Persisted(Graph!Resolved(g, files, to, retaken))
  BY <1>a, <1>b, <1>c, <1>d, <1>e, <1>f, Zenon
<1>2. /\ GraphShaped(x) /\ x.queue \in Seq(Events) /\ f \in Graph!Files
      /\ x.disk = graph.disk /\ x.told = graph.told /\ x.nodes = graph.nodes /\ x.edges = graph.edges
      /\ x.parked = graph.parked /\ x.clean = graph.clean /\ x.snapshot = graph.snapshot /\ x.answers = graph.answers
  BY <1>1, EventTaken
<1>3. Source(f, s)
  BY <1>1, <1>2 DEF GraphInv, Typed
<1>4. Named(x) /\ Rooted(x) /\ ParkedIn(x)
  BY <1>2 DEF GraphInv, Named, Rooted, ParkedIn, HasNode
<1>5. ParsedAs(x, f, s, y)
  BY <1>1, <1>2, ParsedHas
<1>6. /\ Named(y) /\ Rooted(y) /\ ParkedIn(y) /\ Graph!CallsIn(y.edges, f) = Graph!Called(f, s)
      /\ \A h \in Graph!Files : h # f => Graph!CallsIn(y.edges, h) = Graph!CallsIn(x.edges, h)
  BY <1>1, <1>2, <1>3, <1>4, ParsedKeeps
<1>7. PICK told, clean : /\ told = [y.told EXCEPT ![f] = s]
                         /\ clean = IF left THEN y.clean \ {f} ELSE y.clean \cup {f}
  OBVIOUS
<1>8. g = [y EXCEPT !.told = told, !.clean = clean]
  BY <1>1, <1>7
<1>9. /\ GraphShaped(g) /\ g.queue = x.queue /\ g.disk = graph.disk /\ g.told = told
      /\ g.clean = clean /\ g.nodes = y.nodes /\ g.edges = y.edges /\ g.parked = y.parked
      /\ g.answers = graph.answers
  BY <1>2, <1>5, <1>8 DEF ParsedAs, GraphShaped
<1>10. y.told = graph.told /\ y.clean = graph.clean /\ y.parked = graph.parked \cup Graph!Parks(f, s)
  BY <1>2, <1>5 DEF ParsedAs
<1>11. told = [h \in Graph!Files |-> told[h]] /\ \A h \in Graph!Files : told[h] = IF h = f THEN s ELSE graph.told[h]
  BY <1>2, <1>7, <1>10 DEF GraphInv, Typed
<1>12. Typed(g)
  BY <1>2, <1>3, <1>9, <1>11 DEF GraphInv, Typed
<1>13. Named(g) /\ Rooted(g) /\ ParkedIn(g) /\ g.clean \subseteq Graph!Files
  BY <1>2, <1>6, <1>7, <1>9, <1>10 DEF Named, Rooted, ParkedIn, HasNode, GraphInv
<1>14. ASSUME NEW h \in clean, told[h] # Graph!Gone
       PROVE  IF h \in files THEN Unresolved(g, h, told[h]) ELSE Match(g, h, told[h])
  <2>0. h \in Graph!Files
    BY <1>9, <1>13, <1>14
  <2>1. CASE h = f
    <3>1. told[h] = s /\ h \in Graph!Files
      BY <1>2, <1>11, <2>1
    <3>2. ~left
      BY <1>7, <1>14, <2>1
    <3>3. \A p \in Graph!Parks(f, s) : p.file = f
      BY <1>2, <1>3, SourceParts
    <3>4. Graph!Waiting(g, {f}) = Graph!Parks(f, s)
      BY <1>1, <1>9, <1>10, <3>2, <3>3 DEF Graph!Waiting
    <3>5. Unresolved(g, f, s)
      BY <1>6, <1>9, <3>4 DEF Unresolved
    <3> QED
      BY <1>1, <2>1, <3>1, <3>5
  <2>2. CASE h # f
    <3>1. PICK t : t = told[h] /\ t = graph.told[h] /\ h \in graph.clean
      BY <1>7, <1>10, <1>11, <1>14, <2>0, <2>2
    <3>2. Match(graph, h, t)
      BY <1>14, <2>0, <3>1 DEF GraphInv, Current
    <3>3. Graph!CallsIn(g.edges, h) = Graph!CallsIn(graph.edges, h) /\ g.answers = graph.answers
      BY <1>2, <1>6, <1>9, <2>0, <2>2
    <3>4. Match(g, h, t)
      BY <3>2, <3>3 DEF Match
    <3> QED
      BY <1>1, <2>2, <3>1, <3>4
  <2> QED
    BY <2>1, <2>2
<1>15. files \in SUBSET Graph!Files
  BY <1>1, <1>2
<1>16. Matching(g, files)
  BY <1>9, <1>14 DEF Matching
<1>17. /\ graph' = Graph!Persisted(Graph!Resolved(g, files, to, retaken)) /\ GraphShaped(g)
       /\ retaken \in SUBSET Graph!Retaken(Graph!Waiting(g, files), to)
  BY <1>1, <1>9
<1> QED
  BY <1>12, <1>13, <1>15, <1>16, <1>17, ResolvedAndSaved

\* After the bootstrap all files have the calls of their sources.
LEMMA BootstrapKeeps ==
    ASSUME GraphInv, NEW sources, sources = [f \in Graph!Files |-> sources[f]],
           \A f \in Graph!Files : sources[f] \in Sources[f] \cup {Graph!Gone}, Graph!Bootstrap(sources)
    PROVE  GraphInv'
<1> DEFINE found == {f \in Graph!Files : sources[f] # Graph!Gone}
<1>a. PICK told, edges, parked :
        /\ told = [f \in Graph!Files |-> IF sources[f].ok THEN sources[f] ELSE Graph!Gone]
        /\ edges = UNION {Graph!Called(f, sources[f]) : f \in found}
        /\ parked = UNION {Graph!Parks(f, sources[f]) : f \in found}
  OBVIOUS
<1>b. PICK names \in SUBSET UNION {Graph!Mentioned(f, sources[f]) : f \in found} :
        LET g == [graph EXCEPT
                          !.started = TRUE, !.disk = sources, !.clean = Graph!Files,
                          !.told = [f \in Graph!Files |-> IF sources[f].ok THEN sources[f] ELSE Graph!Gone],
                          !.nodes = names \cup UNION {Graph!Declared(f, sources[f]) : f \in found},
                          !.edges = UNION {Graph!Called(f, sources[f]) : f \in found},
                          !.parked = UNION {Graph!Parks(f, sources[f]) : f \in found}]
        IN \E to \in Graph!ResolvesTo(g, Graph!Waiting(g, Graph!Files)) :
             \E retaken \in SUBSET Graph!Retaken(Graph!Waiting(g, Graph!Files), to) :
                graph' = Graph!Persisted(Graph!Resolved(g, Graph!Files, to, retaken))
  BY Zenon DEF Graph!Bootstrap
<1>1. found = {f \in Graph!Files : sources[f] # Graph!Gone}
  OBVIOUS
<1> HIDE DEF found
<1>c. PICK nodes : nodes = names \cup UNION {Graph!Declared(f, sources[f]) : f \in found}
  OBVIOUS
<1>d. PICK g : g = [graph EXCEPT !.started = TRUE, !.disk = sources, !.clean = Graph!Files, !.told = told,
                             !.nodes = nodes, !.edges = edges, !.parked = parked]
  OBVIOUS
<1>e. PICK to, retaken : /\ retaken \in SUBSET Graph!Retaken(Graph!Waiting(g, Graph!Files), to)
                         /\ graph' = Graph!Persisted(Graph!Resolved(g, Graph!Files, to, retaken))
  BY <1>a, <1>b, <1>c, <1>d, Zenon
<1>2. /\ names \subseteq UNION {Graph!Mentioned(f, sources[f]) : f \in found}
      /\ told = [f \in Graph!Files |-> IF sources[f].ok THEN sources[f] ELSE Graph!Gone]
      /\ nodes = names \cup UNION {Graph!Declared(f, sources[f]) : f \in found}
      /\ edges = UNION {Graph!Called(f, sources[f]) : f \in found}
      /\ parked = UNION {Graph!Parks(f, sources[f]) : f \in found}
      /\ g = [graph EXCEPT !.started = TRUE, !.disk = sources, !.clean = Graph!Files, !.told = told,
                           !.nodes = nodes, !.edges = edges, !.parked = parked]
      /\ retaken \in SUBSET Graph!Retaken(Graph!Waiting(g, Graph!Files), to)
      /\ graph' = Graph!Persisted(Graph!Resolved(g, Graph!Files, to, retaken))
  BY <1>a, <1>b, <1>c, <1>d, <1>e, Zenon
<1>3. /\ GraphShaped(g) /\ g.disk = sources /\ g.clean = Graph!Files /\ g.told = told /\ g.nodes = nodes
      /\ g.edges = edges /\ g.parked = parked /\ g.queue = graph.queue /\ g.answers = graph.answers
  <2>1. PICK g1 : g1 = [graph EXCEPT !.started = TRUE]
    OBVIOUS
  <2>2. PICK g2 : g2 = [g1 EXCEPT !.disk = sources]
    OBVIOUS
  <2>3. PICK g3 : g3 = [g2 EXCEPT !.clean = Graph!Files]
    OBVIOUS
  <2>4. PICK g4 : g4 = [g3 EXCEPT !.told = told]
    OBVIOUS
  <2>5. PICK g5 : g5 = [g4 EXCEPT !.nodes = nodes]
    OBVIOUS
  <2>6. PICK g6 : g6 = [g5 EXCEPT !.edges = edges]
    OBVIOUS
  <2>7. g = [g6 EXCEPT !.parked = parked]
    BY <1>2, <2>1, <2>2, <2>3, <2>4, <2>5, <2>6, Zenon
  <2>8. GraphShaped(graph)
    BY DEF GraphInv
  <2>9. GraphShaped(g1) /\ g1.queue = graph.queue /\ g1.answers = graph.answers
    BY <2>1, <2>8 DEF GraphShaped
  <2>10. GraphShaped(g2) /\ g2.queue = graph.queue /\ g2.answers = graph.answers /\ g2.disk = sources
    BY <2>2, <2>9 DEF GraphShaped
  <2>11. GraphShaped(g3) /\ g3.queue = graph.queue /\ g3.answers = graph.answers /\ g3.disk = sources /\ g3.clean = Graph!Files
    BY <2>3, <2>10 DEF GraphShaped
  <2>12. GraphShaped(g4) /\ g4.queue = graph.queue /\ g4.answers = graph.answers /\ g4.disk = sources /\ g4.clean = Graph!Files /\ g4.told = told
    BY <2>4, <2>11 DEF GraphShaped
  <2>13. /\ GraphShaped(g5) /\ g5.queue = graph.queue /\ g5.answers = graph.answers /\ g5.disk = sources /\ g5.clean = Graph!Files /\ g5.told = told
         /\ g5.nodes = nodes
    BY <2>5, <2>12 DEF GraphShaped
  <2>14. /\ GraphShaped(g6) /\ g6.queue = graph.queue /\ g6.answers = graph.answers /\ g6.disk = sources /\ g6.clean = Graph!Files /\ g6.told = told
         /\ g6.nodes = nodes /\ g6.edges = edges
    BY <2>6, <2>13 DEF GraphShaped
  <2> QED
    BY <2>7, <2>14 DEF GraphShaped
<1>4. \A f \in Graph!Files : Source(f, sources[f]) /\ Source(f, told[f]) /\ told[f] \in {Graph!Gone, sources[f]}
  BY <1>2 DEF Source
<1>5. Typed(g)
  <2>1. told = [f \in Graph!Files |-> told[f]]
    BY <1>2
  <2> QED
    BY <1>3, <1>4, <2>1 DEF GraphInv, Typed
<1>6. ASSUME NEW f \in found
      PROVE  /\ f \in Graph!Files /\ Source(f, sources[f])
             /\ \A c \in sources[f].calls : /\ Graph!Caller(f, sources[f], c).scope # "external"
                                            /\ Graph!Caller(f, sources[f], c).file = f
  BY <1>1, <1>4, CallerIsDeclared
<1>7. ASSUME NEW n \in nodes PROVE n.id.scope # "external" => n.file = n.id.file
  <2>0. /\ names \subseteq UNION {Graph!Mentioned(f, sources[f]) : f \in found}
        /\ nodes = names \cup UNION {Graph!Declared(f, sources[f]) : f \in found}
    BY <1>2
  <2>1. PICK f \in found : n \in Graph!Declared(f, sources[f]) \cup Graph!Mentioned(f, sources[f])
    BY <2>0
  <2>2. PICK s : s = sources[f] /\ Source(f, s) /\ f \in Graph!Files
    BY <1>6
  <2> QED
    BY <2>1, <2>2, SourceParts
<1>8. Named(g)
  BY <1>3, <1>7 DEF Named
<1>9. ASSUME NEW f \in found, NEW c \in sources[f].calls PROVE HasNode(g, Graph!Caller(f, sources[f], c))
  <2>1. \E n \in Graph!Declared(f, sources[f]) : n.id = Graph!Caller(f, sources[f], c)
    <3>1. PICK s : s = sources[f] /\ Source(f, s) /\ f \in Graph!Files
      BY <1>6
    <3> QED
      BY <3>1, SourceParts
  <2>2. Graph!Declared(f, sources[f]) \subseteq nodes
    BY <1>2
  <2> QED
    BY <1>3, <2>1, <2>2 DEF HasNode
<1>10. ASSUME NEW e \in edges
       PROVE  \E f \in found : \E c \in sources[f].calls : e.kind = "Calls" /\ e.from = Graph!Caller(f, sources[f], c)
  <2>1. PICK f \in found : e \in Graph!Called(f, sources[f])
    BY <1>2
  <2>2. PICK s : s = sources[f] /\ Source(f, s) /\ f \in Graph!Files
    BY <1>6
  <2> QED
    BY <2>1, <2>2, SourceParts
<1>11. Rooted(g)
  <2>1. ASSUME NEW e \in edges PROVE e.from.scope # "external" /\ HasNode(g, e.from)
    <3>1. PICK f \in found : \E c \in sources[f].calls : e.from = Graph!Caller(f, sources[f], c)
      BY <1>10
    <3> QED
      BY <1>6, <1>9, <3>1
  <2> QED
    BY <1>3, <2>1 DEF Rooted
<1>12. ASSUME NEW p \in parked
       PROVE  \E f \in found : p.file = f /\ \E c \in sources[f].calls : p.from = Graph!Caller(f, sources[f], c)
  <2>1. PICK f \in found : p \in Graph!Parks(f, sources[f])
    BY <1>2
  <2>2. PICK s : s = sources[f] /\ Source(f, s) /\ f \in Graph!Files
    BY <1>6
  <2>3. p.file = f /\ \E c \in s.calls : p.from = Graph!Caller(f, s, c)
    BY <2>1, <2>2, SourceParts
  <2> QED
    BY <2>2, <2>3
<1>13. ParkedIn(g)
  <2>1. ASSUME NEW p \in parked
        PROVE  p.file \in Graph!Files /\ p.from.scope # "external" /\ p.from.file = p.file /\ HasNode(g, p.from)
    <3>1. PICK f \in found : p.file = f /\ \E c \in sources[f].calls : p.from = Graph!Caller(f, sources[f], c)
      BY <1>12
    <3>2. PICK c \in sources[f].calls : p.from = Graph!Caller(f, sources[f], c)
      BY <3>1
    <3> QED
      BY <1>6, <1>9, <3>1, <3>2
  <2> QED
    BY <1>3, <2>1 DEF ParkedIn
<1>14. ASSUME NEW f \in Graph!Files, told[f] # Graph!Gone
       PROVE  Unresolved(g, f, told[f])
  <2>1. PICK s : s = told[f] /\ s = sources[f] /\ f \in found /\ Source(f, s)
    BY <1>1, <1>4, <1>14
  <2>2. ASSUME NEW h \in found, NEW e \in Graph!Called(h, sources[h]) PROVE e.kind = "Calls" /\ e.from.file = h
    <3>1. PICK u : u = sources[h] /\ Source(h, u) /\ h \in Graph!Files
      BY <1>6
    <3>2. PICK c \in u.calls : e.kind = "Calls" /\ e.from = Graph!Caller(h, u, c)
      BY <2>2, <3>1, SourceParts
    <3> QED
      BY <1>6, <3>1, <3>2
  <2>3. Graph!CallsIn(edges, f) = Graph!Called(f, s)
    <3>1. edges = UNION {Graph!Called(h, sources[h]) : h \in found}
      BY <1>2
    <3> QED
      BY <2>1, <2>2, <3>1 DEF Graph!CallsIn
  <2>4. ASSUME NEW h \in found, NEW p \in Graph!Parks(h, sources[h]) PROVE p.file = h
    <3>1. PICK u : u = sources[h] /\ Source(h, u) /\ h \in Graph!Files
      BY <1>6
    <3> QED
      BY <2>4, <3>1, SourceParts
  <2>5. {p \in parked : p.file \in {f}} = Graph!Parks(f, s)
    <3>1. parked = UNION {Graph!Parks(h, sources[h]) : h \in found}
      BY <1>2
    <3> QED
      BY <2>1, <2>4, <3>1
  <2> QED
    BY <1>3, <2>1, <2>3, <2>5 DEF Unresolved, Graph!Waiting
<1>15. Matching(g, Graph!Files)
  BY <1>3, <1>14 DEF Matching
<1>16. g.clean \subseteq Graph!Files /\ GraphShaped(g)
  BY <1>3
<1> QED
  BY <1>2, <1>5, <1>8, <1>11, <1>13, <1>15, <1>16, ResolvedAndSaved

\* Before the bootstrap no file is clean.
LEMMA GraphStart ==
    ASSUME Graph!Init
    PROVE  GraphInv
<1>1. /\ graph.disk = [f \in Graph!Files |-> Graph!Gone] /\ graph.told = [f \in Graph!Files |-> Graph!Gone] /\ graph.queue = << >>
      /\ graph.nodes = {} /\ graph.edges = {} /\ graph.parked = {} /\ graph.clean = {} /\ graph.snapshot = {}
      /\ graph.answers = [f \in Graph!Files |-> {}]
  BY DEF Graph!Init
<1>2. GraphShaped(graph)
  BY <1>1 DEF Graph!Init, GraphShaped
<1>3. Typed(graph)
  BY <1>1 DEF Typed, Source
<1>4. Named(graph) /\ Rooted(graph) /\ ParkedIn(graph) /\ Current(graph) /\ Saved(graph)
  BY <1>1 DEF Named, Rooted, ParkedIn, Current, Saved
<1> QED
  BY <1>1, <1>2, <1>3, <1>4 DEF GraphInv

\* The properties are the invariant's.
LEMMA GraphInvIsCurrent ==
    ASSUME GraphInv
    PROVE  Graph!GraphIsCurrent
<1>1. ASSUME NEW f \in graph.clean, graph.told[f] # Graph!Gone
      PROVE  Graph!Accounted(Graph!CallsIn(graph.edges, f), f, graph.told[f], graph.answers[f])
  BY <1>1 DEF GraphInv, Current, Match
<1>2. Graph!CallsAreCurrent
  BY <1>1 DEF Graph!CallsAreCurrent
<1>3. Graph!SnapshotIsGraph
  BY DEF GraphInv, Saved, Graph!SnapshotIsGraph
<1> QED
  BY <1>2, <1>3 DEF Graph!GraphIsCurrent

\* The graph has the calls of the sources last read, and the snapshot is the graph's.
LEMMA GraphStaysCurrent == Graph!Init /\ [][Graph!Next]_graph => []Graph!GraphIsCurrent
<1>1. GraphInv /\ [Graph!Next]_graph => GraphInv'
  <2>1. ASSUME GraphInv, UNCHANGED graph PROVE GraphInv'
    <3>1. Typed(graph)' /\ GraphShaped(graph)'
      BY <2>1 DEF GraphInv, Typed, GraphShaped
    <3> QED
      BY <2>1, <3>1, AsideKeeps
  <2>2. ASSUME GraphInv, NEW sources \in {v \in [Graph!Files -> UNION {Sources[f] : f \in Graph!Files} \cup {Graph!Gone}] :
                                           \A f \in Graph!Files : v[f] \in Sources[f] \cup {Graph!Gone}},
               Graph!Bootstrap(sources)
        PROVE  GraphInv'
    <3>1. sources = [f \in Graph!Files |-> sources[f]] /\ \A f \in Graph!Files : sources[f] \in Sources[f] \cup {Graph!Gone}
      OBVIOUS
    <3> QED
      BY <2>2, <3>1, BootstrapKeeps
  <2>3. ASSUME GraphInv, NEW f \in Graph!Files, NEW s \in Sources[f] \cup {Graph!Gone}, Graph!Write(f, s) PROVE GraphInv'
    BY <2>3, WriteKeeps
  <2> QED
    BY <2>1, <2>2, <2>3, PassKeeps, RemovedKeeps, ParseFailsKeeps, ReparsedKeeps DEF Graph!Next
<1> QED
  BY <1>1, GraphStart, GraphInvIsCurrent, PTL

\* For any sources and any number of changes: the graph has the calls of the sources last read,
\* each an edge to what it resolved to, and no others.
THEOREM IndexesAreTrue == Spec => []CodeIndexIsTrue
<1>1. Init => Graph!Init
  BY DEF Init
<1>2. [Next]_vars => [Graph!Next]_graph
  BY DEF Next, vars
<1>3. Graph!GraphIsCurrent => CodeIndexIsTrue
  BY DEF CodeIndexIsTrue
<1> QED
  BY <1>1, <1>2, <1>3, GraphStaysCurrent, PTL DEF Spec
===============================================================================
