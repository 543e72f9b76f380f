---------------------------- MODULE Draws_proof ----------------------------
(***************************************************************************)
(* Proofs about Draws, for every set of requests, every surface layout and *)
(* every bound.  The inductive invariant has two parts: Structure says     *)
(* which command each picture asked for belongs to and where the running   *)
(* command's sequencer, engine and counters are, and Content what the      *)
(* pending writes will make of DRAM, who made them, and that what the      *)
(* engine read ahead is the picture its item is drawn on.                  *)
(***************************************************************************)
EXTENDS Draws, DrawEngines_proof

IsSeq(s) == \E T : s \in Seq(T)

LEMMA SeqFacts ==
    ASSUME NEW s, IsSeq(s)
    PROVE  /\ Len(s) \in Nat /\ DOMAIN s = 1 .. Len(s)
           /\ s = << >> <=> Len(s) = 0
BY DEF IsSeq

LEMMA AppendFacts ==
    ASSUME NEW s, IsSeq(s), NEW e
    PROVE  /\ IsSeq(Append(s, e)) /\ Len(Append(s, e)) = Len(s) + 1
           /\ \A i \in 1 .. Len(s) : Append(s, e)[i] = s[i]
           /\ Append(s, e)[Len(s) + 1] = e
<1>1. PICK T : s \in Seq(T)
  BY DEF IsSeq
<1>2. s \in Seq(T \cup {e}) /\ e \in T \cup {e}
  <2>1. s \in [1 .. Len(s) -> T \cup {e}] /\ Len(s) \in Nat
    BY <1>1
  <2> QED BY <2>1
<1>3. Append(s, e) \in Seq(T \cup {e})
  BY <1>2
<1> QED BY <1>2, <1>3 DEF IsSeq

LEMMA TailFacts ==
    ASSUME NEW s, IsSeq(s), Len(s) > 0
    PROVE  /\ IsSeq(Tail(s)) /\ Len(Tail(s)) = Len(s) - 1
           /\ \A i \in 1 .. Len(s) - 1 : Tail(s)[i] = s[i + 1]
           /\ Head(s) = s[1]
<1>1. PICK T : s \in Seq(T)
  BY DEF IsSeq
<1>2. s # << >>
  BY <1>1
<1> QED BY <1>1, <1>2 DEF IsSeq

LEMMA NoEntries ==
    ASSUME NEW s, s = << >>
    PROVE  IsSeq(s) /\ Len(s) = 0
<1>1. Len(s) = 0
  OBVIOUS
<1>2. IsSeq(s)
  <2>1. s \in Seq({})
    OBVIOUS
  <2> QED BY <2>1 DEF IsSeq
<1> QED BY <1>1, <1>2

LEMMA OneSeq ==
    ASSUME NEW e
    PROVE  IsSeq(<<e>>) /\ Len(<<e>>) = 1 /\ <<e>>[1] = e
<1>1. <<e>> \in Seq({e})
  OBVIOUS
<1> QED BY <1>1 DEF IsSeq

\* Joining a sequence of at most two entries appends them.
LEMMA JoinFew ==
    ASSUME NEW s, IsSeq(s), NEW v, NEW w
    PROVE  /\ s \o << >> = s
           /\ s \o <<v>> = Append(s, v)
           /\ s \o <<v, w>> = Append(Append(s, v), w)
<1>1. PICK T : s \in Seq(T)
  BY DEF IsSeq
<1>2. s \o << >> = s
  BY <1>1
<1>3. s \o <<v>> = Append(s, v)
  <2>1. s \in Seq(T \cup {v}) /\ <<v>> \in Seq(T \cup {v})
    BY <1>1
  <2> QED BY <2>1
<1>4. s \o <<v, w>> = Append(Append(s, v), w)
  <2>1. s \in Seq(T \cup {v, w}) /\ <<v, w>> \in Seq(T \cup {v, w})
    BY <1>1
  <2> QED BY <2>1
<1> QED BY <1>2, <1>3, <1>4

LEMMA JoinEmpty ==
    ASSUME NEW v, NEW w
    PROVE  /\ << >> \o << >> = << >> /\ << >> \o <<w>> = <<w>>
           /\ <<v>> \o << >> = <<v>> /\ <<v>> \o <<w>> = <<v, w>>
<1> DEFINE T == {v, w}
<1>1. << >> \in Seq(T)
  OBVIOUS
<1>2. <<v>> \in Seq(T) /\ <<w>> \in Seq(T)
  OBVIOUS
<1>3. << >> \o << >> = << >>
  BY <1>1
<1>4. << >> \o <<w>> = <<w>> /\ <<v>> \o << >> = <<v>>
  BY <1>1, <1>2
<1>5. <<v>> \o <<w>> = <<v, w>>
  <2> DEFINE s == <<v>>
             t == <<w>>
             u == <<v, w>>
  <2>1. s \in Seq(T) /\ t \in Seq(T) /\ u \in Seq(T)
    BY <1>2
  <2>2. Len(s) = 1 /\ Len(t) = 1 /\ Len(u) = 2
    OBVIOUS
  <2>3. s[1] = v /\ t[1] = w /\ u[1] = v /\ u[2] = w
    OBVIOUS
  <2> HIDE DEF s, t, u, T
  <2>4. Len(s \o t) = 2 /\ (s \o t)[1] = v /\ (s \o t)[2] = w /\ s \o t \in Seq(T)
    <3>1. Joined(s, t) \in Seq(T) /\ Size(Joined(s, t)) = Size(s) + Size(t)
          /\ (\A k \in 1 .. Size(s) : Joined(s, t)[k] = s[k])
          /\ (\A l \in 1 .. Size(t) : Joined(s, t)[Size(s) + l] = t[l])
      BY <2>1, Joining
    <3> QED BY <2>2, <2>3, <3>1 DEF Joined, Size
  <2>5. \A z \in Seq(T) : Len(z) = 2 => z = [i \in 1 .. 2 |-> z[i]]
    OBVIOUS
  <2> DEFINE z == s \o t
  <2>6. z \in Seq(T) /\ Len(z) = 2 /\ z[1] = v /\ z[2] = w
    BY <2>4
  <2> HIDE DEF z
  <2>7. z = u
    BY <2>1, <2>2, <2>3, <2>5, <2>6
  <2>8. s \o t = u
    BY <2>7 DEF z
  <2> QED BY <2>8 DEF s, t, u
<1> QED BY <1>3, <1>4, <1>5

-----------------------------------------------------------------------------
(* Pending writes.                                                         *)

\* What the writes queue, drained over memory, leaves at address a: from some
\* point on every write that covers a has value v.
Settles(queued, memory, a, v) ==
    \E i \in 0 .. Len(queued) :
        /\ i = 0 => memory[a] = v
        /\ i > 0 => a \in DOMAIN queued[i].at /\ queued[i].at[a] = v
        /\ \A m \in i + 1 .. Len(queued) : a \in DOMAIN queued[m].at => queued[m].at[a] = v

Covers(queued, a) == \E i \in 1 .. Len(queued) : a \in DOMAIN queued[i].at

LEMMA SettlesUncovered ==
    ASSUME NEW queued, IsSeq(queued), NEW memory, NEW a, NEW v,
           Settles(queued, memory, a, v), ~Covers(queued, a)
    PROVE  memory[a] = v
<1>1. Len(queued) \in Nat
  BY SeqFacts
<1> QED BY <1>1 DEF Settles, Covers

LEMMA SettlesMemory ==
    ASSUME NEW queued, IsSeq(queued), NEW memory, NEW a, ~Covers(queued, a)
    PROVE  Settles(queued, memory, a, memory[a])
<1>1. Len(queued) \in Nat
  BY SeqFacts
<1> QED BY <1>1 DEF Settles, Covers

\* Draining the oldest write.
LEMMA SettlesTail ==
    ASSUME NEW queued, IsSeq(queued), Len(queued) > 0, NEW memory, NEW landed,
           NEW a, NEW v, Settles(queued, memory, a, v),
           landed[a] = IF a \in DOMAIN queued[1].at THEN queued[1].at[a] ELSE memory[a]
    PROVE  Settles(Tail(queued), landed, a, v)
<1> DEFINE left == Tail(queued)
           n == Len(queued)
<1>1. n \in Nat /\ n > 0 /\ Len(left) = n - 1
      /\ \A i \in 1 .. n - 1 : left[i] = queued[i + 1]
  BY SeqFacts, TailFacts
<1> HIDE DEF left, n
<1>2. PICK i \in 0 .. n :
        /\ i = 0 => memory[a] = v
        /\ i > 0 => a \in DOMAIN queued[i].at /\ queued[i].at[a] = v
        /\ \A m \in i + 1 .. n : a \in DOMAIN queued[m].at => queued[m].at[a] = v
  BY DEF Settles, n
<1>3. CASE i <= 1
  <2>1. landed[a] = v
    BY <1>1, <1>2, <1>3
  <2>2. \A m \in 1 .. n - 1 : m + 1 \in i + 1 .. n /\ left[m] = queued[m + 1]
    BY <1>1, <1>2, <1>3
  <2>3. \A m \in 0 + 1 .. n - 1 : a \in DOMAIN left[m].at => left[m].at[a] = v
    BY <1>2, <2>2
  <2>4. 0 \in 0 .. n - 1
    BY <1>1
  <2> DEFINE z == 0
  <2>5. /\ z \in 0 .. Len(left) /\ (z = 0 => landed[a] = v) /\ ~(z > 0)
        /\ \A m \in z + 1 .. Len(left) : a \in DOMAIN left[m].at => left[m].at[a] = v
    BY <1>1, <2>1, <2>3, <2>4
  <2> HIDE DEF z
  <2> QED BY <2>5 DEF Settles, left
<1>4. CASE i > 1
  <2>1. i - 1 \in 0 .. n - 1 /\ i - 1 > 0 /\ left[i - 1] = queued[i]
    BY <1>1, <1>2, <1>4
  <2>2. \A m \in (i - 1) + 1 .. n - 1 : m + 1 \in i + 1 .. n /\ left[m] = queued[m + 1]
    BY <1>1, <1>2, <1>4
  <2>3. \A m \in (i - 1) + 1 .. n - 1 : a \in DOMAIN left[m].at => left[m].at[a] = v
    BY <1>2, <2>2
  <2> QED BY <1>1, <1>2, <1>4, <2>1, <2>3 DEF Settles, left
<1> QED BY <1>1, <1>2, <1>3, <1>4

\* More writes, of values v where they cover a.
LEMMA SettlesMore ==
    ASSUME NEW queued, IsSeq(queued), NEW more, IsSeq(more), Len(queued) <= Len(more),
           \A i \in 1 .. Len(queued) : more[i] = queued[i],
           NEW memory, NEW a, NEW u, Settles(queued, memory, a, u), NEW v,
           \A i \in Len(queued) + 1 .. Len(more) :
                a \in DOMAIN more[i].at => more[i].at[a] = v,
           u = v \/ \E i \in Len(queued) + 1 .. Len(more) : a \in DOMAIN more[i].at
    PROVE  Settles(more, memory, a, v)
<1> DEFINE n == Len(queued)
           k == Len(more)
<1>1. n \in Nat /\ k \in Nat /\ n <= k
  BY SeqFacts
<1>2. CASE \E i \in n + 1 .. k : a \in DOMAIN more[i].at
  <2>1. PICK i \in n + 1 .. k : a \in DOMAIN more[i].at
    BY <1>2
  <2> HIDE DEF n, k
  <2>2. i \in 0 .. k /\ i > 0 /\ \A m \in i + 1 .. k : m \in n + 1 .. k
    BY <1>1, <2>1
  <2> QED BY <2>1, <2>2 DEF Settles, n, k
<1>3. CASE u = v
  <2>1. PICK i \in 0 .. n :
          /\ i = 0 => memory[a] = v
          /\ i > 0 => a \in DOMAIN queued[i].at /\ queued[i].at[a] = v
          /\ \A m \in i + 1 .. n : a \in DOMAIN queued[m].at => queued[m].at[a] = v
    BY <1>3 DEF Settles
  <2> HIDE DEF n, k
  <2>2. i \in 0 .. k /\ (i > 0 => more[i] = queued[i])
        /\ \A m \in i + 1 .. k : (m \in i + 1 .. n /\ more[m] = queued[m]) \/ m \in n + 1 .. k
    BY <1>1, <2>1 DEF n, k
  <2>3. \A m \in i + 1 .. k : a \in DOMAIN more[m].at => more[m].at[a] = v
    BY <2>1, <2>2 DEF n, k
  <2> QED BY <2>1, <2>2, <2>3 DEF Settles, k
<1> QED BY <1>2, <1>3

-----------------------------------------------------------------------------
(* What a unit writes.                                                     *)

LEMMA JobKinds ==
    ASSUME NEW op \in Opcodes, NEW d, IsItem(op, d)
    PROVE  LET j == Job(op, d) IN
           /\ j.kind \in {"fill", "copy", "copy64", "blend"}
           /\ j.solid <=> op \in FillOps
           /\ j.kind = "fill" => /\ ~j.key /\ j.modulation = "identity" /\ j.mode = "none"
                                 /\ op \in {"SOLID_FILL", "FILL_BATCH"}
           /\ j.kind = "copy" => /\ j.modulation = "identity" /\ j.mode = "none"
                                 /\ op \in {"BLIT_COPY", "BLIT_COPY_KEY"}
           /\ j.kind = "copy64" => /\ j.modulation = "identity" /\ j.mode = "none"
                                   /\ op = "SPRITE_BATCH" /\ ~Flagged(d)
           /\ j.kind = "blend" => \/ op \in {"BLIT_BLEND", "BLEND_FILL"}
                                  \/ op = "SPRITE_BATCH" /\ Flagged(d)
<1> DEFINE j == Job(op, d)
           e == JobOf(op, d)
<1>1. j.kind = KindOf(op, d) /\ j.solid = e.solid /\ j.key = e.key
      /\ j.modulation = e.modulation /\ j.mode = e.mode
  BY DEF Job
<1> HIDE DEF j
<1>2. CASE op \in {"SOLID_FILL", "FILL_BATCH"}
  BY <1>1, <1>2 DEF KindOf, JobOf, Store, FillOps, j
<1>3. CASE op \in {"BLIT_COPY", "BLIT_COPY_KEY"}
  BY <1>1, <1>3 DEF KindOf, JobOf, Store, FillOps, j
<1>4. CASE op \in {"BLIT_BLEND", "BLEND_FILL"}
  BY <1>1, <1>4 DEF KindOf, JobOf, Store, FillOps, j
<1>5. CASE op = "SPRITE_BATCH" /\ ~Flagged(d)
  <2>1. e = [Store EXCEPT !.key = d.flags.key]
    BY <1>5 DEF JobOf, SpriteJob
  <2>2. e.solid = FALSE /\ e.modulation = "identity" /\ e.mode = "none"
    BY <2>1 DEF Store
  <2> HIDE DEF e
  <2> QED BY <1>1, <1>5, <2>2 DEF KindOf, FillOps, j
<1>6. CASE op = "SPRITE_BATCH" /\ Flagged(d)
  <2>1. e.solid = FALSE
    BY <1>6 DEF JobOf, SpriteJob, Store
  <2> HIDE DEF e
  <2> QED BY <1>1, <1>6, <2>1 DEF KindOf, FillOps, j
<1> QED BY <1>2, <1>3, <1>4, <1>5, <1>6 DEF Opcodes

\* A write that shows pixels of a unit as they are in the picture after.
Depicts(w, unit, after) ==
    w.fence = 0 /\ \A a \in DOMAIN w.at : \E l \in DOMAIN unit :
                        a = unit[l].to /\ w.at[a] = after[a]

\* The queue more is queued and then writes that make of a unit's pixels what
\* they are in the picture after.
Adds(queued, more, unit, before, after) ==
    /\ IsSeq(more) /\ Len(queued) <= Len(more)
    /\ \A i \in 1 .. Len(queued) : more[i] = queued[i]
    /\ \A i \in Len(queued) + 1 .. Len(more) : Depicts(more[i], unit, after)
    /\ \A l \in DOMAIN unit :
        \/ after[unit[l].to] = before[unit[l].to]
        \/ \E i \in Len(queued) + 1 .. Len(more) : unit[l].to \in DOMAIN more[i].at

LEMMA AddsNone ==
    ASSUME NEW queued, IsSeq(queued), NEW unit, NEW before, NEW after,
           \A l \in DOMAIN unit : after[unit[l].to] = before[unit[l].to]
    PROVE  Adds(queued, queued, unit, before, after)
<1>1. Len(queued) \in Nat
  BY SeqFacts
<1> QED BY <1>1 DEF Adds

LEMMA AddsOne ==
    ASSUME NEW queued, IsSeq(queued), NEW w, NEW unit, NEW before, NEW after,
           Depicts(w, unit, after),
           \A l \in DOMAIN unit : \/ after[unit[l].to] = before[unit[l].to]
                                  \/ unit[l].to \in DOMAIN w.at
    PROVE  Adds(queued, Append(queued, w), unit, before, after)
<1> DEFINE more == Append(queued, w)
           n == Len(queued)
<1>1. /\ n \in Nat /\ IsSeq(more) /\ Len(more) = n + 1 /\ more[n + 1] = w
      /\ \A i \in 1 .. n : more[i] = queued[i]
  BY SeqFacts, AppendFacts
<1> HIDE DEF more, n
<1>2. n + 1 \in n + 1 .. n + 1 /\ \A i \in n + 1 .. n + 1 : i = n + 1
  BY <1>1
<1>3. \A i \in n + 1 .. n + 1 : Depicts(more[i], unit, after)
  BY <1>1, <1>2
<1>4. \A l \in DOMAIN unit :
        \/ after[unit[l].to] = before[unit[l].to]
        \/ \E i \in n + 1 .. n + 1 : unit[l].to \in DOMAIN more[i].at
  BY <1>1, <1>2
<1>5. n <= n + 1
  BY <1>1
<1> QED BY <1>1, <1>3, <1>4, <1>5 DEF Adds, more, n

LEMMA AddsTwo ==
    ASSUME NEW queued, IsSeq(queued), NEW v, NEW w, NEW unit, NEW before, NEW after,
           Depicts(v, unit, after), Depicts(w, unit, after),
           \A l \in DOMAIN unit : \/ after[unit[l].to] = before[unit[l].to]
                                  \/ unit[l].to \in DOMAIN v.at
                                  \/ unit[l].to \in DOMAIN w.at
    PROVE  Adds(queued, Append(Append(queued, v), w), unit, before, after)
<1> DEFINE one == Append(queued, v)
           more == Append(one, w)
           n == Len(queued)
<1>1. /\ n \in Nat /\ IsSeq(one) /\ Len(one) = n + 1 /\ one[n + 1] = v
      /\ \A i \in 1 .. n : one[i] = queued[i]
  BY SeqFacts, AppendFacts
<1>2. /\ IsSeq(more) /\ Len(more) = Len(one) + 1 /\ more[Len(one) + 1] = w
      /\ \A i \in 1 .. Len(one) : more[i] = one[i]
  <2> HIDE DEF one
  <2> QED BY <1>1, AppendFacts
<1> HIDE DEF one, more, n
<1>3. Len(more) = n + 2 /\ more[n + 2] = w /\ more[n + 1] = v
      /\ \A i \in 1 .. n : more[i] = queued[i]
  BY <1>1, <1>2
<1>4. /\ n + 1 \in n + 1 .. n + 2 /\ n + 2 \in n + 1 .. n + 2 /\ n <= n + 2
      /\ \A i \in n + 1 .. n + 2 : i = n + 1 \/ i = n + 2
  BY <1>1
<1>5. \A i \in n + 1 .. n + 2 : Depicts(more[i], unit, after)
  BY <1>3, <1>4
<1>6. \A l \in DOMAIN unit :
        \/ after[unit[l].to] = before[unit[l].to]
        \/ \E i \in n + 1 .. n + 2 : unit[l].to \in DOMAIN more[i].at
  BY <1>3, <1>4
<1> QED BY <1>2, <1>3, <1>4, <1>5, <1>6 DEF Adds, one, more, n

\* One write of some lanes' values.
LEMMA WrittenDepicts ==
    ASSUME NEW values, DOMAIN values \subseteq DOMAIN Unit, NEW after,
           \A l, m \in DOMAIN Unit : Unit[l].to = Unit[m].to => l = m,
           \A l \in DOMAIN values : values[l] = after[Unit[l].to]
    PROVE  /\ Depicts(Written(values), Unit, after)
           /\ \A l \in DOMAIN values : Unit[l].to \in DOMAIN Written(values).at
<1> DEFINE at == [a \in {Unit[l].to : l \in DOMAIN values} |->
                    values[CHOOSE l \in DOMAIN values : Unit[l].to = a]]
<1>1. Written(values).at = at /\ Written(values).fence = 0
  BY DEF Written, PixelWrite
<1>2. ASSUME NEW l \in DOMAIN values
      PROVE  Unit[l].to \in DOMAIN at /\ at[Unit[l].to] = after[Unit[l].to]
  <2> DEFINE m == CHOOSE m \in DOMAIN values : Unit[m].to = Unit[l].to
  <2>1. m \in DOMAIN values /\ Unit[m].to = Unit[l].to
    OBVIOUS
  <2> HIDE DEF m
  <2>2. m = l
    BY <2>1
  <2>3. Unit[l].to \in DOMAIN at /\ at[Unit[l].to] = values[m]
    BY DEF m
  <2> QED BY <2>2, <2>3
<1>3. \A a \in DOMAIN at : \E l \in DOMAIN values : a = Unit[l].to
  OBVIOUS
<1> HIDE DEF at
<1> QED BY <1>1, <1>2, <1>3 DEF Depicts

\* What the engine's first unit writes are its pixels in the picture after,
\* if the picture after is the one before with the unit made from the data the
\* engine holds.
LEMMA UnitAdds ==
    ASSUME IsSeq(writes), NEW before, NEW after,
           DOMAIN Unit = {1} \/ DOMAIN Unit = {1, 2}, Len(Unit) \in {1, 2},
           DOMAIN Unit = 1 .. Len(Unit),
           \A l, m \in DOMAIN Unit : Unit[l].to = Unit[m].to => l = m,
           DOMAIN Sources = DOMAIN Unit,
           \A l \in DOMAIN Unit : after[Unit[l].to] =
                Made(engine.job, Sources[l], before[Unit[l].to]),
           engine.job.kind \in {"fill", "copy", "copy64", "blend"},
           engine.job.kind = "fill" => ~engine.job.key,
           engine.job.kind # "blend" => /\ engine.job.modulation = "identity"
                                        /\ engine.job.mode = "none",
           engine.job.kind = "blend" => \A l \in DOMAIN Unit :
                engine.words[1][Unit[l].to] = before[Unit[l].to]
    PROVE  /\ Adds(writes, writes \o UnitWrites, Unit, before, after)
           /\ Len(writes \o UnitWrites) = Len(writes) + Len(UnitWrites)
<1> DEFINE Result(w) == /\ Adds(writes, writes \o w, Unit, before, after)
                        /\ Len(writes \o w) = Len(writes) + Len(w)
<1>0. Len(writes) \in Nat
  BY SeqFacts
<1>n. ASSUME \A l \in DOMAIN Unit : after[Unit[l].to] = before[Unit[l].to]
      PROVE  Result(<< >>)
  <2>1. writes \o << >> = writes
    BY JoinFew
  <2>2. Len(<< >>) = 0
    OBVIOUS
  <2>3. Adds(writes, writes, Unit, before, after)
    BY <1>n, AddsNone
  <2>4. Len(writes) = Len(writes) + 0
    BY <1>0
  <2> QED BY <2>1, <2>2, <2>3, <2>4, Zenon
<1>o. ASSUME NEW w, Depicts(w, Unit, after),
             \A l \in DOMAIN Unit : \/ after[Unit[l].to] = before[Unit[l].to]
                                    \/ Unit[l].to \in DOMAIN w.at
      PROVE  Result(<<w>>)
  <2>1. writes \o <<w>> = Append(writes, w)
    BY JoinFew
  <2>2. Len(<<w>>) = 1
    OBVIOUS
  <2>3. Adds(writes, Append(writes, w), Unit, before, after)
    BY <1>o, AddsOne
  <2>4. Len(Append(writes, w)) = Len(writes) + 1
    BY AppendFacts
  <2> QED BY <2>1, <2>2, <2>3, <2>4, Zenon
<1>t. ASSUME NEW v, NEW w, Depicts(v, Unit, after), Depicts(w, Unit, after),
             \A l \in DOMAIN Unit : \/ after[Unit[l].to] = before[Unit[l].to]
                                    \/ Unit[l].to \in DOMAIN v.at
                                    \/ Unit[l].to \in DOMAIN w.at
      PROVE  Result(<<v, w>>)
  <2>1. writes \o <<v, w>> = Append(Append(writes, v), w)
    BY JoinFew
  <2>2. Len(<<v, w>>) = 2
    OBVIOUS
  <2>3. Adds(writes, Append(Append(writes, v), w), Unit, before, after)
    BY <1>t, AddsTwo
  <2>4. Len(Append(Append(writes, v), w)) = Len(writes) + 2
    BY <1>0, AppendFacts
  <2> QED BY <2>1, <2>2, <2>3, <2>4, Zenon
<1> HIDE DEF Result
<1>1. ASSUME engine.job.kind # "blend", NEW l \in DOMAIN Unit
      PROVE  IF Keyed(engine.job, Sources[l]) THEN after[Unit[l].to] = before[Unit[l].to]
             ELSE Sources[l] = after[Unit[l].to]
  BY <1>1 DEF Made, Combine, Modulated
<1>2. Lanes = {l \in DOMAIN Unit : ~Keyed(engine.job, Sources[l])}
  BY DEF Lanes
<1>3. CASE engine.job.kind = "fill"
  <2>1. \A l \in DOMAIN Unit : Sources[l] = after[Unit[l].to]
    BY <1>1, <1>3 DEF Keyed
  <2>2. Depicts(Store64, Unit, after) /\ \A l \in DOMAIN Unit : Unit[l].to \in DOMAIN Store64.at
    BY <2>1, WrittenDepicts DEF Store64
  <2>3. UnitWrites = <<Store64>>
    BY <1>3 DEF UnitWrites
  <2> QED BY <1>o, <2>2, <2>3 DEF Result
<1>4. CASE engine.job.kind \in {"copy", "copy64"}
  <2> DEFINE one(l) == Written([k \in {l} |-> Sources[k]])
             single(l) == IF l \in Lanes THEN <<one(l)>> ELSE << >>
  <2>1. UnitWrites = CopyWrites
    BY <1>4 DEF UnitWrites
  <2>2. ASSUME NEW l \in Lanes
        PROVE  Depicts(one(l), Unit, after) /\ Unit[l].to \in DOMAIN one(l).at
    <3> DEFINE values == [k \in {l} |-> Sources[k]]
    <3>1. l \in DOMAIN Unit /\ Sources[l] = after[Unit[l].to]
      BY <1>1, <1>2, <1>4, <2>2
    <3>2. DOMAIN values = {l} /\ values[l] = Sources[l]
      OBVIOUS
    <3> HIDE DEF values
    <3>3. DOMAIN values \subseteq DOMAIN Unit
          /\ \A k \in DOMAIN values : values[k] = after[Unit[k].to]
      BY <3>1, <3>2
    <3>4. Depicts(Written(values), Unit, after) /\ Unit[l].to \in DOMAIN Written(values).at
      BY <3>2, <3>3, WrittenDepicts
    <3> QED BY <3>4 DEF values
  <2>3. \A l \in DOMAIN Unit : l \notin Lanes => after[Unit[l].to] = before[Unit[l].to]
    BY <1>1, <1>2, <1>4
  <2>4. CASE Len(Unit) = 2 /\ Lanes = {1, 2} /\ Unit[1].to % 2 = 0
    <3>1. DOMAIN Unit = {1, 2}
      BY <2>4
    <3>2. \A l \in DOMAIN Unit : Sources[l] = after[Unit[l].to]
      BY <1>1, <1>2, <1>4, <2>4, <3>1
    <3>3. Depicts(Store64, Unit, after) /\ \A l \in DOMAIN Unit : Unit[l].to \in DOMAIN Store64.at
      BY <3>2, WrittenDepicts DEF Store64
    <3>4. CopyWrites = <<Store64>>
      BY <2>4 DEF CopyWrites
    <3> QED BY <1>o, <2>1, <3>3, <3>4 DEF Result
  <2>5. CASE ~(Len(Unit) = 2 /\ Lanes = {1, 2} /\ Unit[1].to % 2 = 0)
    <3> HIDE DEF one
    <3>1. CASE Len(Unit) = 1
      <4>1. CopyWrites = single(1) /\ DOMAIN Unit = {1}
        BY <2>5, <3>1 DEF CopyWrites, one
      <4>2. CASE 1 \in Lanes
        <5>1. CopyWrites = <<one(1)>>
          BY <4>1, <4>2
        <5> QED BY <1>o, <2>1, <2>2, <4>1, <4>2, <5>1 DEF Result
      <4>3. CASE 1 \notin Lanes
        <5>1. CopyWrites = << >>
          BY <4>1, <4>3
        <5> QED BY <1>n, <2>1, <2>3, <4>1, <4>3, <5>1 DEF Result
      <4> QED BY <4>2, <4>3
    <3>2. CASE Len(Unit) # 1
      <4>1. CopyWrites = single(1) \o single(2) /\ DOMAIN Unit = {1, 2}
        BY <2>5, <3>2 DEF CopyWrites, one
      <4>2. CASE 1 \in Lanes /\ 2 \in Lanes
        <5>1. CopyWrites = <<one(1), one(2)>>
          BY <4>1, <4>2, JoinEmpty
        <5>2. \A l \in DOMAIN Unit : Unit[l].to \in DOMAIN one(1).at \/ Unit[l].to \in DOMAIN one(2).at
          BY <2>2, <4>1, <4>2
        <5> QED BY <1>t, <2>1, <2>2, <4>2, <5>1, <5>2 DEF Result
      <4>3. CASE 1 \in Lanes /\ 2 \notin Lanes
        <5>1. CopyWrites = <<one(1)>>
          BY <4>1, <4>3, JoinEmpty
        <5> QED BY <1>o, <2>1, <2>2, <2>3, <4>1, <4>3, <5>1 DEF Result
      <4>4. CASE 1 \notin Lanes /\ 2 \in Lanes
        <5>1. CopyWrites = <<one(2)>>
          BY <4>1, <4>4, JoinEmpty
        <5> QED BY <1>o, <2>1, <2>2, <2>3, <4>1, <4>4, <5>1 DEF Result
      <4>5. CASE 1 \notin Lanes /\ 2 \notin Lanes
        <5>1. CopyWrites = << >>
          BY <4>1, <4>5, JoinEmpty
        <5> QED BY <1>n, <2>1, <2>3, <4>1, <4>5, <5>1 DEF Result
      <4> QED BY <4>2, <4>3, <4>4, <4>5
    <3> QED BY <3>1, <3>2
  <2> QED BY <2>4, <2>5
<1>5. CASE engine.job.kind = "blend"
  <2>1. UnitWrites = BlendWrites
    BY <1>5 DEF UnitWrites
  <2>2. ASSUME NEW l \in DOMAIN Unit
        PROVE  IF l \in Lanes THEN Blended(l) = after[Unit[l].to]
               ELSE after[Unit[l].to] = before[Unit[l].to]
    BY <1>2, <1>5, <2>2 DEF Made, Blended
  <2>3. CASE \A l \in Lanes : Blended(l) = engine.words[1][Unit[l].to]
    <3>1. BlendWrites = << >>
      BY <2>3 DEF BlendWrites
    <3>2. \A l \in DOMAIN Unit : after[Unit[l].to] = before[Unit[l].to]
      BY <1>2, <1>5, <2>2, <2>3
    <3> QED BY <1>n, <2>1, <3>1, <3>2 DEF Result
  <2>4. CASE ~(\A l \in Lanes : Blended(l) = engine.words[1][Unit[l].to])
    <3> DEFINE values == [l \in Lanes |-> Blended(l)]
    <3>1. BlendWrites = <<Written(values)>>
      BY <2>4 DEF BlendWrites
    <3>2. DOMAIN values = Lanes /\ \A l \in Lanes : values[l] = Blended(l)
      OBVIOUS
    <3> HIDE DEF values
    <3>3. DOMAIN values \subseteq DOMAIN Unit
          /\ \A l \in DOMAIN values : values[l] = after[Unit[l].to]
      BY <1>2, <2>2, <3>2
    <3>4. Depicts(Written(values), Unit, after)
          /\ \A l \in DOMAIN values : Unit[l].to \in DOMAIN Written(values).at
      BY <3>3, WrittenDepicts
    <3>5. \A l \in DOMAIN Unit : \/ after[Unit[l].to] = before[Unit[l].to]
                                 \/ Unit[l].to \in DOMAIN Written(values).at
      BY <2>2, <3>2, <3>4
    <3> QED BY <1>o, <2>1, <3>1, <3>4, <3>5 DEF Result
  <2> QED BY <2>3, <2>4
<1> QED BY <1>3, <1>4, <1>5

-----------------------------------------------------------------------------
(* The commands asked for, and where the one that runs is.                 *)

Commands == {Pushed(r) : r \in {q \in Requests : Pushes(q)}}

\* The commands accepted.
Current == Submitted - Len(queue)

\* Command c is the n-th submitted.
Asked(n, c) ==
    /\ asked[n + 1].region = Region(c)
    /\ asked[n + 1].picture = Stack(asked[n].picture, ItemLayers(c))[Len(c.items)]

History ==
    /\ IsSeq(asked) /\ Len(asked) >= 1 /\ Submitted <= MaxCommands
    /\ IsSeq(queue) /\ Len(queue) <= Submitted
    /\ \A n \in 1 .. Len(asked) :
        /\ asked[n] = [region |-> asked[n].region, picture |-> asked[n].picture]
        /\ IsPicture(asked[n].picture) /\ DOMAIN asked[n].picture = Addresses
    /\ \A n \in 1 .. Submitted : \A a \in Addresses :
        a \notin asked[n + 1].region => asked[n + 1].picture[a] = asked[n].picture[a]
    /\ \A i \in 1 .. Len(queue) : queue[i] \in Commands /\ Asked(Current + i, queue[i])
    /\ command # None => command \in Commands /\ Current >= 1 /\ Asked(Current, command)

\* The items of the command whose engine is done.
ItemsDone ==
    IF command.op \notin BatchOps THEN IF engine = None THEN 1 ELSE 0
    ELSE IF batch.state = "idle" THEN Len(command.items)
    ELSE IF batch.state = "finish" THEN batch.index
    ELSE batch.index - 1

States == {"idle", "fetch", "launch", "drain", "run", "finish"}

Sequencer ==
    /\ done_seen \in BOOLEAN
    /\ batch \in [state : States, index : Nat, word : Nat, prev_flagged : BOOLEAN]
    /\ batch.state = "idle" => batch = NoBatch
    /\ command = None => batch.state = "idle" /\ engine = None /\ ~done_seen
    /\ command # None /\ command.op \notin BatchOps =>
        batch.state = "idle" /\ (done_seen <=> engine = None)
    /\ command # None /\ command.op \in BatchOps =>
        /\ done_seen <=> batch.state = "idle"
        /\ engine = None <=> batch.state # "run"
        /\ batch.state # "idle" => batch.index \in 1 .. Len(command.items)
        /\ batch.state = "finish" => batch.index = Len(command.items)

\* What the batch sequencer remembers of the descriptor before.
FlagSeen ==
    command # None /\ command.op = "SPRITE_BATCH" =>
        /\ batch.state \in {"run", "finish"} =>
            (batch.prev_flagged <=> Flagged(command.items[batch.index]))
        /\ batch.state \in {"fetch", "launch", "drain"} /\ batch.index > 1 =>
            (batch.prev_flagged <=> Flagged(command.items[batch.index - 1]))

\* An engine e that draws item d: what it was started with, and the units it
\* has left.
EngineRecord == {"job", "work", "pixels", "words", "fast", "retired"}

Runs(e, op, d) ==
    /\ DOMAIN e = EngineRecord
    /\ e.job = Job(op, d)
    /\ e.retired \in Nat /\ e.fast \in BOOLEAN
    /\ IsSeq(e.work) /\ IsSeq(e.pixels) /\ IsSeq(e.words)
    /\ Len(e.work) = Len(Work(e.job)) - e.retired
    /\ \A i \in 1 .. Len(e.work) : e.work[i] = Work(e.job)[e.retired + i]
    /\ Len(e.pixels) <= Len(e.work) /\ Len(e.words) <= Len(e.work)
    /\ \A i \in 1 .. Len(e.pixels) : DOMAIN e.pixels[i] = DOMAIN e.work[i]
    /\ e.fast => FastAlpha(e.job) /\ Len(e.words) = 0

EngineRuns == engine # None => Runs(engine, command.op, command.items[ItemsDone + 1])

\* The counters, and the queue: pixels of one command, and fences, which come
\* in the order of their counts and behind all they vouch for.
Counters ==
    /\ published \in Nat /\ sent \in Nat /\ completed \in Nat
    /\ published <= sent /\ sent <= completed
    /\ completed = Current - (IF command # None /\ ~done_seen THEN 1 ELSE 0)

Queued ==
    /\ IsSeq(writes) /\ Len(writes) <= QueueDepth
    /\ DOMAIN dram = Addresses /\ IsPicture(dram)
    /\ \A i \in 1 .. Len(writes) :
        /\ writes[i].fence \in Nat /\ DOMAIN writes[i].at \subseteq Addresses
        /\ writes[i].fence > 0 => /\ DOMAIN writes[i].at = {}
                                  /\ published <= writes[i].fence /\ writes[i].fence <= sent
    /\ \A i \in 1 .. Len(writes) : \A m \in i .. Len(writes) :
        /\ writes[i].fence > 0 /\ writes[m].fence > 0 => writes[i].fence <= writes[m].fence
        /\ writes[i].fence = Current /\ Current > 0 => DOMAIN writes[m].at = {}
    /\ published = Current \/ command = None =>
        \A i \in 1 .. Len(writes) : DOMAIN writes[i].at = {}

Structure == History /\ Sequencer /\ FlagSeen /\ EngineRuns /\ Counters /\ Queued

-----------------------------------------------------------------------------
(* What the pending writes make of DRAM.                                   *)

\* The picture after n items of the running command.
PictureAfter(n) == Stack(Picture(Current - 1), ItemLayers(command))[n]
Before == IF command = None THEN Picture(Current) ELSE PictureAfter(ItemsDone)

RetiredPixels(e) ==
    {a \in Addresses : \E i \in 1 .. e.retired :
        \E l \in DOMAIN Work(e.job)[i] : Work(e.job)[i][l].to = a}

\* What was made so far of pixel a.
Value(a) == IF engine # None /\ a \in RetiredPixels(engine) THEN PictureAfter(ItemsDone + 1)[a]
            ELSE Before[a]

Landing == \A a \in Addresses : Settles(writes, dram, a, Value(a))

\* Item j may have writes pending: in a batch of sprites, the last one or one
\* of an unflagged run that has not ended.
Undrained(j) ==
    command.op = "SPRITE_BATCH" =>
        IF engine # None THEN \A m \in j .. ItemsDone + 1 : ~Flagged(command.items[m])
        ELSE j = ItemsDone \/ \A m \in j .. ItemsDone : ~Flagged(command.items[m])

Origin ==
    \A a \in Addresses : Covers(writes, a) =>
        \/ engine # None /\ a \in RetiredPixels(engine)
        \/ \E j \in 1 .. ItemsDone : Inside(Target(command.items[j]), a) /\ Undrained(j)

\* What the engine e read ahead is of a picture.
HasRead(e, picture) ==
    /\ ~e.job.solid => \A i \in 1 .. Len(e.pixels) : \A l \in DOMAIN e.work[i] :
            e.pixels[i][l] = picture[e.work[i][l].from]
    /\ e.job.kind = "blend" => \A i \in 1 .. Len(e.words) : \A l \in DOMAIN e.work[i] :
            e.words[i][e.work[i][l].to] = picture[e.work[i][l].to]

ReadAhead == engine # None => HasRead(engine, Before)

Content == Landing /\ Origin /\ ReadAhead

-----------------------------------------------------------------------------
(* Commands and pictures.                                                  *)

LEMMA CommandGood ==
    ASSUME NEW c \in Commands
    PROVE  IsGood(c) /\ c # None
<1>1. PICK r \in Requests : Pushes(r) /\ c = Pushed(r)
  BY DEF Commands
<1>2. IsRequest(r)
  BY DrawsAssumption
<1>3. IsGood(c)
  BY <1>1, <1>2, PushedIsGood
<1>4. c # None
  <2>1. c = [op |-> c.op, items |-> c.items]
    <3>1. CASE IsRaw(r)
      BY <1>1, <1>2, <3>1 DEF IsRequest, IsCommand, Pushed
    <3>2. CASE ~IsRaw(r)
      BY <1>1, <3>2 DEF Pushed, CommandFor
    <3> QED BY <3>1, <3>2
  <2>2. DOMAIN c = {"op", "items"} /\ DOMAIN None = {"none"}
    BY <2>1 DEF None
  <2> QED BY <2>2
<1> QED BY <1>3, <1>4

LEMMA AddressesInt == Addresses \subseteq Int /\ Addresses = DOMAIN Memory /\ IsPicture(Memory)
<1>1. Dram.first \in Int /\ Dram.end \in Int
  BY DrawCallsAssumption
<1>2. Memory = [a \in Addresses |-> Memory[a]]
  BY DrawsAssumption DEF Addresses
<1> QED BY <1>1, <1>2 DEF Addresses, IsPicture

\* The pictures of a command's items, and where they are alike.
LEMMA ItemPictures ==
    ASSUME NEW c, IsGood(c), NEW picture, IsPicture(picture), DOMAIN picture = Addresses
    PROVE  LET after == Stack(picture, ItemLayers(c)) IN
           /\ after[0] = picture
           /\ \A k \in 0 .. Len(c.items) :
                IsPicture(after[k]) /\ DOMAIN after[k] = Addresses
           /\ \A k \in 1 .. Len(c.items) :
                after[k] = Painted(after[k - 1], ItemLayer(c.op, c.items[k]))
           /\ \A a \in Addresses : a \notin Region(c) =>
                \A k \in 0 .. Len(c.items) : after[k][a] = picture[a]
<1> DEFINE N == Len(c.items)
           after == Stack(picture, ItemLayers(c))
<1>1. N \in Nat /\ DOMAIN c.items = 1 .. N
  BY DEF IsGood
<1>2. Len(ItemLayers(c)) = N /\ \A i \in 1 .. N : ItemLayers(c)[i] = ItemLayer(c.op, c.items[i])
  BY <1>1, ItemLayersOf
<1>3. /\ after[0] = picture
      /\ \A k \in 1 .. N : after[k] = Painted(after[k - 1], ItemLayers(c)[k])
  BY <1>1, <1>2, StackPictures
<1>4. \A k \in 0 .. N : IsPicture(after[k]) /\ DOMAIN after[k] = Addresses
  BY <1>1, <1>2, StackPicture
<1> SUFFICES /\ after[0] = picture
             /\ \A k \in 0 .. N : IsPicture(after[k]) /\ DOMAIN after[k] = Addresses
             /\ \A k \in 1 .. N : after[k] = Painted(after[k - 1], ItemLayer(c.op, c.items[k]))
             /\ \A a \in Addresses : a \notin Region(c) =>
                    \A k \in 0 .. N : after[k][a] = picture[a]
  OBVIOUS
<1> HIDE DEF after, N
<1>5. ASSUME NEW a \in Addresses, a \notin Region(c)
      PROVE  \A k \in 0 .. N : after[k][a] = picture[a]
  <2> DEFINE S == {k \in 0 .. N : after[k][a] = picture[a]}
  <2>1. 0 \in S
    BY <1>1, <1>3
  <2>2. ASSUME NEW k \in 0 .. N - 1, k \in S PROVE k + 1 \in S
    <3>1. k + 1 \in 1 .. N /\ (k + 1) - 1 = k /\ k \in 0 .. N
      BY <1>1
    <3>2. after[k + 1] = Painted(after[k], ItemLayer(c.op, c.items[k + 1]))
      BY <1>2, <1>3, <3>1
    <3>3. ~Inside(Target(c.items[k + 1]), a)
      BY <1>1, <1>5, <3>1 DEF Region, Target, Addresses
    <3>4. ItemLayer(c.op, c.items[k + 1]).area = Target(c.items[k + 1])
      BY DEF ItemLayer, Target
    <3>5. Painted(after[k], ItemLayer(c.op, c.items[k + 1]))[a] = after[k][a]
      BY <1>4, <1>5, <3>1, <3>3, <3>4, PaintedOutside, AddressesInt
    <3> QED BY <2>2, <3>1, <3>2, <3>5
  <2>3. 0 .. N \subseteq S
    <3> HIDE DEF S
    <3> QED BY <1>1, <2>1, <2>2, UpTo
  <2> QED BY <2>3
<1> QED BY <1>2, <1>3, <1>4, <1>5

LEMMA InRegion ==
    ASSUME NEW c, IsGood(c), NEW k \in 1 .. Len(c.items), NEW a \in Addresses,
           Inside(Target(c.items[k]), a)
    PROVE  a \in Region(c)
<1>1. k \in DOMAIN c.items
  BY DEF IsGood
<1> QED BY <1>1 DEF Region, Target, Addresses

\* What a request that pushes a command asks for.
LEMMA SubmittedPicture ==
    ASSUME NEW r \in Requests, Pushes(r), NEW picture, IsPicture(picture),
           DOMAIN picture = Addresses
    PROVE  LET c == Pushed(r)
               after == Requested(picture, r)
           IN  /\ c \in Commands
               /\ after = Stack(picture, ItemLayers(c))[Len(c.items)]
               /\ IsPicture(after) /\ DOMAIN after = Addresses
               /\ \A a \in Addresses : a \notin Region(c) => after[a] = picture[a]
<1> DEFINE c == Pushed(r)
<1>1. c \in Commands /\ IsRequest(r)
  BY DrawsAssumption DEF Commands
<1>2. Requested(picture, r) = Stack(picture, ItemLayers(c))[Len(c.items)]
  BY <1>1, PushedPicture
<1> HIDE DEF c
<1>3. IsGood(c)
  BY <1>1, CommandGood
<1>4. Len(c.items) \in 0 .. Len(c.items)
  BY <1>3 DEF IsGood
<1>5. LET after == Stack(picture, ItemLayers(c))[Len(c.items)] IN
      /\ IsPicture(after) /\ DOMAIN after = Addresses
      /\ \A a \in Addresses : a \notin Region(c) => after[a] = picture[a]
  BY <1>3, <1>4, ItemPictures
<1> QED BY <1>1, <1>2, <1>5 DEF c

-----------------------------------------------------------------------------
(* The initial state, and the steps of the host.                           *)

LEMMA InitStructure == Init => Structure
<1> SUFFICES ASSUME Init PROVE Structure
  OBVIOUS
<1>1. IsSeq(queue) /\ Len(queue) = 0 /\ IsSeq(writes) /\ Len(writes) = 0
  <2>1. queue = << >> /\ writes = << >>
    BY DEF Init
  <2> QED BY <2>1, NoEntries
<1>2. IsSeq(asked) /\ Len(asked) = 1 /\ asked[1] = [region |-> {}, picture |-> Memory]
  <2>1. asked = <<[region |-> {}, picture |-> Memory]>>
    BY DEF Init
  <2> QED BY <2>1, OneSeq
<1>3. command = None /\ engine = None /\ batch = NoBatch /\ done_seen = FALSE
      /\ dram = Memory /\ completed = 0 /\ sent = 0 /\ published = 0
  BY DEF Init
<1>4. Submitted = 0 /\ Current = 0
  BY <1>1, <1>2 DEF Submitted, Current
<1>5. History
  <2>1. MaxCommands \in Nat
    BY DrawsAssumption
  <2> QED BY <1>1, <1>2, <1>3, <1>4, <2>1, AddressesInt DEF History
<1>6. Sequencer /\ FlagSeen /\ EngineRuns
  BY <1>3 DEF Sequencer, FlagSeen, EngineRuns, NoBatch, States
<1>7. Counters /\ Queued
  <2>1. QueueDepth \in Nat
    BY DrawsAssumption
  <2> QED BY <1>1, <1>3, <1>4, <2>1, AddressesInt DEF Counters, Queued
<1> QED BY <1>5, <1>6, <1>7 DEF Structure

LEMMA InitContent == Init => Content
<1> SUFFICES ASSUME Init PROVE Content
  OBVIOUS
<1>1. IsSeq(writes) /\ Len(writes) = 0
  <2>1. writes = << >>
    BY DEF Init
  <2> QED BY <2>1, NoEntries
<1>2. asked[1] = [region |-> {}, picture |-> Memory] /\ Len(asked) = 1
  <2>1. asked = <<[region |-> {}, picture |-> Memory]>>
    BY DEF Init
  <2> QED BY <2>1, OneSeq
<1>3. Len(queue) = 0
  <2>1. queue = << >>
    BY DEF Init
  <2> QED BY <2>1, NoEntries
<1>4. command = None /\ engine = None /\ dram = Memory
  BY DEF Init
<1>5. \A a \in Addresses : ~Covers(writes, a)
  BY <1>1 DEF Covers
<1>6. \A a \in Addresses : Value(a) = dram[a]
  <2>1. Current = 0
    BY <1>2, <1>3 DEF Current, Submitted
  <2> QED BY <1>2, <1>4, <2>1 DEF Value, Before, Picture
<1>7. Landing
  BY <1>1, <1>5, <1>6, SettlesMemory DEF Landing
<1> QED BY <1>4, <1>5, <1>7 DEF Content, Origin, ReadAhead

\* Nothing but the history changes when a command is submitted, and of that
\* only what comes after the commands accepted.
LEMMA SubmitHistory ==
    ASSUME History, NEW r \in Requests, Submit(r)
    PROVE  /\ History' /\ Current' = Current
           /\ \A n \in 1 .. Current + 1 : asked'[n] = asked[n]
<1> DEFINE n == Len(asked)
           c == Pushed(r)
           m == Len(queue)
           new == [region |-> Region(c), picture |-> Requested(Picture(Submitted), r)]
<1>1. /\ Submitted < MaxCommands /\ Pushes(r)
      /\ queue' = Append(queue, c) /\ asked' = Append(asked, new)
      /\ command' = command
  BY DEF Submit
<1>2. /\ n \in Nat /\ n >= 1 /\ m \in Nat /\ m <= n - 1 /\ IsSeq(asked) /\ IsSeq(queue)
      /\ Submitted = n - 1 /\ Current = (n - 1) - m
  BY SeqFacts DEF History, Submitted, Current
<1> HIDE DEF new, c
<1>3. /\ IsSeq(asked') /\ Len(asked') = n + 1 /\ asked'[n + 1] = new
      /\ \A i \in 1 .. n : asked'[i] = asked[i]
  BY <1>1, <1>2, AppendFacts
<1>4. /\ IsSeq(queue') /\ Len(queue') = m + 1 /\ queue'[m + 1] = c
      /\ \A i \in 1 .. m : queue'[i] = queue[i]
  BY <1>1, <1>2, AppendFacts
<1> HIDE DEF n, m
<1>5. Submitted' = n /\ Current' = (n - 1) - m /\ Submitted' = Submitted + 1
  BY <1>2, <1>3, <1>4 DEF Submitted, Current
<1>6. Picture(Submitted) = asked[n].picture /\ IsPicture(asked[n].picture)
      /\ DOMAIN asked[n].picture = Addresses
  <2>1. (n - 1) + 1 = n /\ n \in 1 .. n
    BY <1>2
  <2> QED BY <1>2, <2>1 DEF Picture, History, n
<1>7. /\ c \in Commands
      /\ new.region = Region(c)
      /\ new.picture = Stack(asked[n].picture, ItemLayers(c))[Len(c.items)]
      /\ IsPicture(new.picture) /\ DOMAIN new.picture = Addresses
      /\ \A a \in Addresses : a \notin Region(c) => new.picture[a] = asked[n].picture[a]
  BY <1>1, <1>6, SubmittedPicture DEF new, c
<1>8. \A i \in 1 .. n + 1 :
        /\ asked'[i] = [region |-> asked'[i].region, picture |-> asked'[i].picture]
        /\ IsPicture(asked'[i].picture) /\ DOMAIN asked'[i].picture = Addresses
  <2>1. new = [region |-> new.region, picture |-> new.picture]
    BY DEF new
  <2>2. \A i \in 1 .. n + 1 : i \in 1 .. n \/ i = n + 1
    BY <1>2
  <2>3. \A i \in 1 .. n :
        /\ asked[i] = [region |-> asked[i].region, picture |-> asked[i].picture]
        /\ IsPicture(asked[i].picture) /\ DOMAIN asked[i].picture = Addresses
    BY DEF History, n
  <2> QED BY <1>3, <1>7, <2>1, <2>2, <2>3
<1>9. \A i \in 1 .. n : \A a \in Addresses :
        a \notin asked'[i + 1].region => asked'[i + 1].picture[a] = asked'[i].picture[a]
  <2>1. \A i \in 1 .. n - 1 : \A a \in Addresses :
        a \notin asked[i + 1].region => asked[i + 1].picture[a] = asked[i].picture[a]
    BY <1>2 DEF History
  <2>2. \A i \in 1 .. n : \/ i = n
                          \/ i \in 1 .. n - 1 /\ i + 1 \in 1 .. n
    BY <1>2
  <2>3. n \in 1 .. n
    BY <1>2
  <2> QED BY <1>3, <1>7, <2>1, <2>2, <2>3
<1>10. ASSUME NEW i \in 1 .. m + 1
       PROVE  queue'[i] \in Commands /\ Asked(Current + i, queue[i])'
  <2>1. CASE i = m + 1
    <3>1. Current + i = n /\ n \in 1 .. n
      BY <1>2, <2>1
    <3> QED BY <1>3, <1>4, <1>5, <1>7, <2>1, <3>1, <1>2 DEF Asked
  <2>2. CASE i \in 1 .. m
    <3>1. Current + i \in 1 .. n /\ Current + i + 1 \in 1 .. n
      BY <1>2, <2>2
    <3>2. queue[i] \in Commands /\ Asked(Current + i, queue[i])
      BY <2>2 DEF History, m
    <3> QED BY <1>2, <1>3, <1>4, <1>5, <2>2, <3>1, <3>2 DEF Asked
  <2>3. i = m + 1 \/ i \in 1 .. m
    BY <1>2
  <2> QED BY <2>1, <2>2, <2>3
<1>11. ASSUME command # None
       PROVE  command \in Commands /\ Current' >= 1 /\ Asked(Current, command)'
  <2>1. command \in Commands /\ Current >= 1 /\ Asked(Current, command)
    BY <1>11 DEF History
  <2>2. Current \in 1 .. n /\ Current + 1 \in 1 .. n
    BY <1>2, <2>1
  <2> QED BY <1>1, <1>2, <1>3, <1>5, <2>1, <2>2 DEF Asked
<1>12. Submitted' <= MaxCommands /\ n + 1 >= 1 /\ m + 1 <= n
  BY <1>1, <1>2, <1>5, DrawsAssumption
<1>13. \A i \in 1 .. Current + 1 : asked'[i] = asked[i]
  BY <1>2, <1>3
<1> QED BY <1>1, <1>2, <1>3, <1>4, <1>5, <1>8, <1>9, <1>10, <1>11, <1>12, <1>13 DEF History

LEMMA SubmitNothingSame ==
    ASSUME History, NEW r \in Requests, SubmitNothing(r)
    PROVE  UNCHANGED vars
<1> DEFINE n == Len(asked)
<1>1. n \in Nat /\ n >= 1 /\ Submitted + 1 = n /\ DOMAIN asked = 1 .. n /\ n \in 1 .. n
      /\ asked \in Seq({asked[i] : i \in 1 .. n}) 
  <2>1. n \in Nat /\ n >= 1 /\ DOMAIN asked = 1 .. n /\ \E T : asked \in Seq(T)
    BY SeqFacts DEF History, IsSeq
  <2> QED BY <2>1 DEF Submitted
<1>2. asked[n] = [region |-> asked[n].region, picture |-> asked[n].picture]
      /\ IsPicture(asked[n].picture)
  BY <1>1 DEF History
<1>3. Requested(asked[n].picture, r) = asked[n].picture
  BY <1>2, NothingPicture, DrawsAssumption DEF SubmitNothing
<1>4. asked' = [asked EXCEPT ![n].picture = Requested(@, r)]
  BY <1>1 DEF SubmitNothing
<1>5. asked' = [asked EXCEPT ![n] = [asked[n] EXCEPT !.picture = asked[n].picture]]
  BY <1>1, <1>3, <1>4
<1>6. [asked[n] EXCEPT !.picture = asked[n].picture] = asked[n]
  BY <1>2
<1>7. asked' = asked
  BY <1>1, <1>5, <1>6
<1> QED BY <1>7 DEF SubmitNothing, vars

LEMMA SubmitStep ==
    ASSUME Structure, NEW r \in Requests, Submit(r)
    PROVE  Structure' /\ (Content => Content')
<1>1. /\ History' /\ Current' = Current
      /\ \A n \in 1 .. Current + 1 : asked'[n] = asked[n]
  BY SubmitHistory DEF Structure
<1>2. UNCHANGED <<command, done_seen, batch, engine, dram, writes, completed, sent, published>>
  BY DEF Submit
<1>3. ItemsDone' = ItemsDone
  BY <1>2 DEF ItemsDone
<1>4. Sequencer' /\ FlagSeen' /\ EngineRuns' /\ Counters' /\ Queued'
  BY <1>1, <1>2, <1>3 DEF Structure, Sequencer, FlagSeen, EngineRuns, Counters, Queued
<1>5. Current \in Nat /\ (command # None => Current >= 1)
  BY SeqFacts DEF Structure, History, Current, Submitted
<1>6. \A n : command # None => PictureAfter(n)' = PictureAfter(n)
  <2>1. command # None => asked'[(Current - 1) + 1] = asked[(Current - 1) + 1]
    BY <1>1, <1>5
  <2> QED BY <1>1, <1>2, <2>1 DEF PictureAfter, Picture
<1>7. Before' = Before
  <2>1. asked'[Current + 1] = asked[Current + 1]
    BY <1>1, <1>5
  <2> QED BY <1>1, <1>2, <1>3, <1>6, <2>1 DEF Before, Picture
<1>8. \A a : Value(a)' = Value(a)
  <2>1. engine # None => command # None
    BY DEF Structure, Sequencer
  <2> QED BY <1>2, <1>3, <1>6, <1>7, <2>1 DEF Value
<1>9. Content => Content'
  BY <1>2, <1>3, <1>7, <1>8 DEF Content, Landing, Origin, ReadAhead, Undrained
<1> QED BY <1>1, <1>4, <1>9 DEF Structure

-----------------------------------------------------------------------------
(* The running command and its engine.                                     *)

\* A walk of an item, whatever the picture.
LEMMA ItemWalk ==
    ASSUME NEW c \in Commands, NEW k \in 1 .. Len(c.items)
    PROVE  LET d == c.items[k]
               j == Job(c.op, d)
           IN  /\ IsItem(c.op, d) /\ c.op \in Opcodes
               /\ IsWalk(j, Work(j), Total(j)) /\ Total(j) \in Nat /\ Total(j) > 0
               /\ IsSeq(Work(j)) /\ Len(Work(j)) = Total(j)
               /\ \A i \in 1 .. Total(j) : \A l \in DOMAIN Work(j)[i] :
                    Work(j)[i][l].to \in Addresses
<1> DEFINE d == c.items[k]
           j == Job(c.op, d)
           walk == Work(j)
<1>1. IsGood(c)
  BY CommandGood
<1>2. PICK n \in Nat : IsTask(c.op, d, Memory, Painted(Memory, ItemLayer(c.op, d)), walk, n)
  BY <1>1, ItemTask, AddressesInt
<1>3. IsWalk(j, walk, n) /\ n > 0
      /\ \A i \in 1 .. n : \A l \in DOMAIN walk[i] : walk[i][l].to \in Addresses
  BY <1>2 DEF IsTask
<1>4. Total(j) = n
  BY <1>3 DEF IsWalk
<1>5. IsItem(c.op, d) /\ c.op \in Opcodes
  BY <1>1 DEF IsGood
<1> HIDE DEF walk, j
<1>6. IsSeq(walk) /\ Len(walk) = n
  BY <1>3 DEF IsWalk, IsSeq
<1> QED BY <1>2, <1>3, <1>4, <1>5, <1>6 DEF walk, j

LEMMA IsEngine == ASSUME NEW e, DOMAIN e = EngineRecord PROVE e # None
<1>1. DOMAIN None = {"none"}
  BY DEF None
<1> QED BY <1>1 DEF EngineRecord

LEMMA StartRuns ==
    ASSUME NEW c \in Commands, NEW k \in 1 .. Len(c.items)
    PROVE  LET e == Start(Job(c.op, c.items[k])) IN
           /\ e # None /\ Runs(e, c.op, c.items[k]) /\ RetiredPixels(e) = {}
           /\ \A picture : HasRead(e, picture)
<1> DEFINE j == Job(c.op, c.items[k])
           e == Start(j)
<1>1. IsSeq(Work(j)) /\ Len(Work(j)) \in Nat
  BY ItemWalk
<1> HIDE DEF j
<1>2. /\ e.job = j /\ e.work = Work(j) /\ e.fast = FastAlpha(j) /\ e.retired = 0
      /\ e.pixels = << >> /\ e.words = << >> /\ DOMAIN e = EngineRecord
  BY DEF Start, EngineRecord
<1>3. e # None
  <2> HIDE DEF e
  <2> QED BY <1>2, IsEngine
<1> HIDE DEF e
<1>4. IsSeq(e.pixels) /\ Len(e.pixels) = 0 /\ IsSeq(e.words) /\ Len(e.words) = 0
  BY <1>2, NoEntries
<1>5. FastAlpha(j) \in BOOLEAN
  BY DEF FastAlpha
<1>6. Runs(e, c.op, c.items[k])
  <2>1. \A i \in 1 .. Len(Work(j)) : 0 + i = i
    OBVIOUS
  <2> QED BY <1>1, <1>2, <1>4, <1>5, <2>1 DEF Runs, j
<1>7. RetiredPixels(e) = {} /\ \A picture : HasRead(e, picture)
  BY <1>2, <1>4 DEF RetiredPixels, HasRead
<1> QED BY <1>3, <1>6, <1>7 DEF e, j

\* Where the running command is in its items.
LEMMA ItemsCounted ==
    ASSUME Structure, command # None
    PROVE  /\ command \in Commands /\ IsGood(command) /\ Len(command.items) \in Nat
           /\ Current \in Nat /\ Current >= 1
           /\ ItemsDone \in 0 .. Len(command.items)
           /\ engine # None => ItemsDone + 1 \in 1 .. Len(command.items)
           /\ done_seen => ItemsDone = Len(command.items)
<1>1. command \in Commands /\ Current >= 1
  BY DEF Structure, History
<1>2. IsGood(command)
  BY <1>1, CommandGood
<1>3. /\ Len(command.items) \in Nat /\ Len(command.items) > 0
      /\ command.op \notin BatchOps => Len(command.items) = 1
  BY <1>2 DEF IsGood
<1>4. Current \in Nat
  BY SeqFacts DEF Structure, History, Current, Submitted
<1>5. batch.index \in Nat /\ batch.state \in States /\ done_seen \in BOOLEAN
  BY DEF Structure, Sequencer
<1>6. CASE command.op \notin BatchOps
  <2>1. done_seen <=> engine = None
    BY <1>6 DEF Structure, Sequencer
  <2>2. ItemsDone = IF engine = None THEN 1 ELSE 0
    BY <1>6 DEF ItemsDone
  <2>3. Len(command.items) = 1
    BY <1>3, <1>6
  <2>4. ItemsDone \in 0 .. 1 /\ (engine # None => ItemsDone + 1 \in 1 .. 1)
    BY <2>2
  <2>5. done_seen => ItemsDone = 1
    BY <2>1, <2>2, Zenon
  <2> HIDE DEF ItemsDone
  <2> QED BY <1>1, <1>2, <1>4, <2>3, <2>4, <2>5
<1>7. CASE command.op \in BatchOps
  <2>1. /\ done_seen <=> batch.state = "idle"
        /\ engine = None <=> batch.state # "run"
        /\ batch.state # "idle" => batch.index \in 1 .. Len(command.items)
        /\ batch.state = "finish" => batch.index = Len(command.items)
    BY <1>7 DEF Structure, Sequencer
  <2> QED BY <1>1, <1>2, <1>3, <1>4, <1>5, <1>7, <2>1 DEF ItemsDone
<1> QED BY <1>6, <1>7

\* The pictures of the running command.
LEMMA RunningPictures ==
    ASSUME Structure, command # None
    PROVE  /\ Before = PictureAfter(ItemsDone)
           /\ PictureAfter(0) = Picture(Current - 1)
           /\ PictureAfter(Len(command.items)) = Picture(Current)
           /\ \A k \in 0 .. Len(command.items) :
                IsPicture(PictureAfter(k)) /\ DOMAIN PictureAfter(k) = Addresses
           /\ \A k \in 1 .. Len(command.items) : PictureAfter(k) =
                Painted(PictureAfter(k - 1), ItemLayer(command.op, command.items[k]))
           /\ \A a \in Addresses : a \notin Region(command) =>
                \A k \in 0 .. Len(command.items) : PictureAfter(k)[a] = Picture(Current - 1)[a]
           /\ Region(command) = asked[Current + 1].region
<1> DEFINE picture == Picture(Current - 1)
           n == Len(asked)
<1>1. /\ IsGood(command) /\ Current \in Nat /\ Current >= 1
  BY ItemsCounted
<1>2. Asked(Current, command)
  BY DEF Structure, History
<1>3. picture = asked[Current].picture /\ Picture(Current) = asked[Current + 1].picture
  <2>1. (Current - 1) + 1 = Current
    BY <1>1
  <2> QED BY <2>1 DEF Picture
<1>4. IsPicture(picture) /\ DOMAIN picture = Addresses
  <2>1. Current \in 1 .. Len(asked)
    BY <1>1, SeqFacts DEF Structure, History, Current, Submitted
  <2> QED BY <1>3, <2>1 DEF Structure, History
<1> HIDE DEF picture
<1>5. LET after == Stack(picture, ItemLayers(command)) IN
           /\ after[0] = picture
           /\ \A k \in 0 .. Len(command.items) :
                IsPicture(after[k]) /\ DOMAIN after[k] = Addresses
           /\ \A k \in 1 .. Len(command.items) :
                after[k] = Painted(after[k - 1], ItemLayer(command.op, command.items[k]))
           /\ \A a \in Addresses : a \notin Region(command) =>
                \A k \in 0 .. Len(command.items) : after[k][a] = picture[a]
  BY <1>1, <1>4, ItemPictures
<1>6. \A k : PictureAfter(k) = Stack(picture, ItemLayers(command))[k]
  BY DEF PictureAfter, picture
<1>7. Before = PictureAfter(ItemsDone)
  BY DEF Before
<1>8. PictureAfter(Len(command.items)) = Picture(Current) /\ Region(command) = asked[Current + 1].region
  BY <1>2, <1>3, <1>6 DEF Asked
<1> QED BY <1>5, <1>6, <1>7, <1>8 DEF picture

\* What the running engine has to do.
LEMMA RunningTask ==
    ASSUME Structure, engine # None
    PROVE  LET d == command.items[ItemsDone + 1]
               n == Total(engine.job)
           IN  /\ command # None /\ command \in Commands
               /\ ItemsDone \in Nat /\ ItemsDone + 1 \in 1 .. Len(command.items)
               /\ Runs(engine, command.op, d) /\ IsItem(command.op, d)
               /\ n \in Nat /\ n > 0 /\ Len(Work(engine.job)) = n
               /\ engine.retired \in 0 .. n /\ Len(engine.work) = n - engine.retired
               /\ IsTask(command.op, d, Before, PictureAfter(ItemsDone + 1), Work(engine.job), n)
<1> DEFINE k == ItemsDone
           d == command.items[k + 1]
           n == Total(engine.job)
           walk == Work(engine.job)
           j == Job(command.op, d)
<1>1. command # None
  BY DEF Structure, Sequencer
<1>2. command \in Commands /\ IsGood(command) /\ k \in Nat /\ k + 1 \in 1 .. Len(command.items)
  BY <1>1, ItemsCounted
<1>3. Runs(engine, command.op, d)
  BY DEF Structure, EngineRuns
<1>4. engine.job = j /\ engine.retired \in Nat /\ IsSeq(engine.work)
      /\ Len(engine.work) = Len(walk) - engine.retired
  BY <1>3 DEF Runs
<1>5. /\ Before = PictureAfter(k) /\ IsPicture(PictureAfter(k))
      /\ DOMAIN PictureAfter(k) = Addresses
      /\ PictureAfter(k + 1) = Painted(PictureAfter(k), ItemLayer(command.op, d))
  <2>1. k \in 0 .. Len(command.items) /\ (k + 1) - 1 = k
    BY <1>2
  <2> QED BY <1>1, <1>2, <2>1, RunningPictures
<1> HIDE DEF k
<1>6. IsItem(command.op, d) /\ Total(j) \in Nat /\ Total(j) > 0 /\ Len(Work(j)) = Total(j)
      /\ IsWalk(j, Work(j), Total(j))
  BY <1>2, ItemWalk
<1>7. PICK m \in Nat : IsTask(command.op, d, PictureAfter(k),
                              Painted(PictureAfter(k), ItemLayer(command.op, d)), Work(j), m)
  BY <1>2, <1>5, ItemTask
<1>8. m = Total(j)
  BY <1>7 DEF IsTask, IsWalk
<1>9. Len(engine.work) \in Nat
  BY <1>4, SeqFacts
<1>10. n \in Nat /\ n > 0 /\ Len(walk) = n
  BY <1>4, <1>6
<1>11. IsTask(command.op, d, Before, PictureAfter(k + 1), walk, n)
  BY <1>4, <1>5, <1>7, <1>8
<1>12. engine.retired \in 0 .. n /\ Len(engine.work) = n - engine.retired
  BY <1>4, <1>9, <1>10
<1> QED BY <1>1, <1>2, <1>3, <1>6, <1>10, <1>11, <1>12 DEF k

\* The engine's first unit, if it has one left.
LEMMA FirstUnit ==
    ASSUME Structure, engine # None, engine.work # << >>
    PROVE  LET r == engine.retired
               before == Before
               after == PictureAfter(ItemsDone + 1)
           IN  /\ r + 1 \in 1 .. Total(engine.job) /\ Unit = Work(engine.job)[r + 1]
               /\ Len(engine.work) > 0 /\ IsSeq(engine.work)
               /\ DOMAIN Unit = {1} \/ DOMAIN Unit = {1, 2}
               /\ Len(Unit) \in {1, 2} /\ DOMAIN Unit = 1 .. Len(Unit)
               /\ \A l, m \in DOMAIN Unit : Unit[l].to = Unit[m].to => l = m
               /\ \A l \in DOMAIN Unit :
                    /\ Unit[l].to \in Addresses
                    /\ after[Unit[l].to] = Made(engine.job, Sourced(engine.job, Unit[l], before),
                                                before[Unit[l].to])
<1> DEFINE d == command.items[ItemsDone + 1]
           n == Total(engine.job)
           walk == Work(engine.job)
           r == engine.retired
           after == PictureAfter(ItemsDone + 1)
<1>1. /\ Runs(engine, command.op, d) /\ n \in Nat /\ r \in 0 .. n /\ Len(engine.work) = n - r
      /\ IsTask(command.op, d, Before, after, walk, n)
  BY RunningTask
<1>2. engine.job = Job(command.op, d) /\ IsSeq(engine.work)
      /\ \A i \in 1 .. Len(engine.work) : engine.work[i] = walk[r + i]
  BY <1>1 DEF Runs
<1>3. Len(engine.work) \in Nat /\ Len(engine.work) > 0
  BY <1>2, SeqFacts
<1>4. r + 1 \in 1 .. n /\ Unit = walk[r + 1]
  BY <1>1, <1>2, <1>3 DEF Unit
<1> HIDE DEF walk, n, r, d, after
<1>5. IsWalk(Job(command.op, d), walk, n)
  BY <1>1 DEF IsTask
<1>6. /\ DOMAIN Unit = {1} \/ DOMAIN Unit = {1, 2}
      /\ Unit = [l \in DOMAIN Unit |-> Unit[l]]
      /\ \A l, m \in DOMAIN Unit : Unit[l].to = Unit[m].to => l = m
  <2>1. /\ walk[r + 1] = [l \in DOMAIN walk[r + 1] |-> walk[r + 1][l]]
        /\ DOMAIN walk[r + 1] = {1} \/ DOMAIN walk[r + 1] = {1, 2}
    BY <1>4, <1>5 DEF IsWalk
  <2>2. \A i, k \in 1 .. n : \A l \in DOMAIN walk[i], m \in DOMAIN walk[k] :
          walk[i][l].to = walk[k][m].to => i = k /\ l = m
    BY <1>5 DEF IsWalk
  <2>3. \A l, m \in DOMAIN walk[r + 1] : walk[r + 1][l].to = walk[r + 1][m].to => l = m
    BY <1>4, <2>2
  <2> QED BY <1>4, <2>1, <2>3
<1>7. Len(Unit) \in {1, 2} /\ DOMAIN Unit = 1 .. Len(Unit)
  <2> DEFINE u == Unit
  <2> SUFFICES Len(u) \in {1, 2} /\ DOMAIN u = 1 .. Len(u)
    OBVIOUS
  <2>1. u = [l \in DOMAIN u |-> u[l]] /\ (DOMAIN u = {1} \/ DOMAIN u = {1, 2})
    BY <1>6
  <2> HIDE DEF u
  <2>2. \E m \in {1, 2} : DOMAIN u = 1 .. m /\ u \in [1 .. m -> {u[l] : l \in DOMAIN u}]
    <3>1. {1} = 1 .. 1 /\ {1, 2} = 1 .. 2
      OBVIOUS
    <3>2. u \in [DOMAIN u -> {u[l] : l \in DOMAIN u}]
      BY <2>1
    <3> QED BY <2>1, <3>1, <3>2
  <2> QED BY <2>2, SMTT(30)
<1>8. \A l \in DOMAIN Unit :
        /\ Unit[l].to \in Addresses
        /\ after[Unit[l].to] = Made(engine.job, Sourced(engine.job, Unit[l], Before),
                                    Before[Unit[l].to])
  BY <1>1, <1>2, <1>4 DEF IsTask
<1> QED BY <1>2, <1>3, <1>4, <1>6, <1>7, <1>8 DEF walk, n, r, after

-----------------------------------------------------------------------------
(* The steps of cmdq and the batches.                                      *)

LEMMA AcceptStep ==
    ASSUME Structure, Accept
    PROVE  Structure' /\ (Content => Content')
<1> DEFINE c == queue[1]
           m == Len(queue)
           d == c.items[1]
           e == Start(Job(c.op, d))
<1>1. /\ command = None /\ queue # << >> /\ engine = None
      /\ command' = Head(queue) /\ queue' = Tail(queue)
      /\ UNCHANGED <<done_seen, dram, writes, completed, sent, published, asked>>
  BY DEF Accept
<1>2. /\ IsSeq(queue) /\ m \in Nat /\ m > 0 /\ command' = c
      /\ IsSeq(queue') /\ Len(queue') = m - 1
      /\ \A i \in 1 .. m - 1 : queue'[i] = queue[i + 1]
  <2>1. IsSeq(queue)
    BY DEF Structure, History
  <2>2. m \in Nat /\ m > 0
    BY <1>1, <2>1, SeqFacts
  <2> QED BY <1>1, <2>1, <2>2, TailFacts
<1>3. /\ Submitted' = Submitted /\ Submitted \in Nat /\ Current \in Nat
      /\ Current' = Current + 1 /\ Current = Submitted - m
  <2>1. Len(asked) \in Nat /\ Len(asked) >= 1 /\ m <= Submitted
    BY SeqFacts DEF Structure, History
  <2> QED BY <1>1, <1>2, <2>1 DEF Submitted, Current
<1>4. c \in Commands /\ Asked(Current + 1, c)
  BY <1>2 DEF Structure, History
<1>5. IsGood(c) /\ c # None /\ Len(c.items) \in Nat /\ Len(c.items) > 0 /\ 1 \in 1 .. Len(c.items)
  <2>1. IsGood(c) /\ c # None
    BY <1>4, CommandGood
  <2>2. Len(c.items) \in Nat /\ Len(c.items) > 0
    BY <2>1 DEF IsGood
  <2> QED BY <2>1, <2>2
<1>6. e # None /\ Runs(e, c.op, d) /\ RetiredPixels(e) = {} /\ \A picture : HasRead(e, picture)
  BY <1>4, <1>5, StartRuns
<1>7. IF c.op \in BatchOps
      THEN batch' = [state |-> "fetch", index |-> 1, word |-> 0, prev_flagged |-> FALSE] /\ engine' = None
      ELSE batch' = batch /\ engine' = e
  <2>1. command'.op = c.op /\ command'.items[1] = d
    BY <1>2
  <2>2. CASE c.op \in BatchOps
    <3>1. batch' = [NoBatch EXCEPT !.state = "fetch", !.index = 1] /\ engine' = engine
      BY <2>1, <2>2 DEF Accept
    <3>2. batch' = [state |-> "fetch", index |-> 1, word |-> 0, prev_flagged |-> FALSE]
      BY <3>1 DEF NoBatch
    <3> QED BY <1>1, <2>2, <3>1, <3>2
  <2>3. CASE c.op \notin BatchOps
    BY <1>2, <2>3 DEF Accept
  <2> QED BY <2>2, <2>3
<1> HIDE DEF c, m, d, e
<1>8. batch.state = "idle" /\ ~done_seen /\ done_seen \in BOOLEAN
      /\ batch \in [state : States, index : Nat, word : Nat, prev_flagged : BOOLEAN]
      /\ batch = NoBatch
  BY <1>1 DEF Structure, Sequencer
<1>9. History'
  <2>1. Len(queue') <= Submitted'
    BY <1>2, <1>3 DEF Structure, History, m
  <2>2. ASSUME NEW i \in 1 .. m - 1
        PROVE  queue'[i] \in Commands /\ Asked(Current + i, queue[i])'
    <3>1. i + 1 \in 1 .. m /\ queue'[i] = queue[i + 1] /\ Current + (i + 1) = (Current + 1) + i
      BY <1>2, <1>3
    <3>2. queue[i + 1] \in Commands /\ Asked(Current + (i + 1), queue[i + 1])
      BY <3>1 DEF Structure, History, m
    <3> QED BY <1>1, <1>3, <3>1, <3>2 DEF Asked
  <2>3. command' \in Commands /\ Current' >= 1 /\ Asked(Current, command)'
    BY <1>1, <1>2, <1>3, <1>4 DEF Asked
  <2> QED BY <1>1, <1>2, <1>3, <2>1, <2>2, <2>3 DEF Structure, History
<1>10. ItemsDone' = 0
  <2>1. command' = c
    BY <1>2 DEF c
  <2>2. CASE c.op \in BatchOps
    BY <1>7, <2>1, <2>2 DEF ItemsDone
  <2>3. CASE c.op \notin BatchOps
    BY <1>6, <1>7, <2>1, <2>3 DEF ItemsDone
  <2> QED BY <2>2, <2>3
<1>11. Sequencer' /\ FlagSeen'
  <2>1. command' = c /\ c # None
    BY <1>2, <1>5 DEF c
  <2>2. CASE c.op \in BatchOps
    <3>1. batch' \in [state : States, index : Nat, word : Nat, prev_flagged : BOOLEAN]
      <4>1. "fetch" \in States /\ 1 \in Nat /\ 0 \in Nat /\ FALSE \in BOOLEAN
        BY DEF States
      <4>2. [state |-> "fetch", index |-> 1, word |-> 0, prev_flagged |-> FALSE]
                \in [state : States, index : Nat, word : Nat, prev_flagged : BOOLEAN]
        BY <4>1
      <4> QED BY <1>7, <2>2, <4>2
    <3> QED BY <1>1, <1>5, <1>7, <1>8, <2>1, <2>2, <3>1 DEF Sequencer, FlagSeen, BatchOps
  <2>3. CASE c.op \notin BatchOps
    BY <1>1, <1>6, <1>7, <1>8, <2>1, <2>3 DEF Sequencer, FlagSeen, BatchOps
  <2> QED BY <2>2, <2>3
<1>12. EngineRuns'
  <2>1. command' = c /\ d = c.items[0 + 1]
    BY <1>2 DEF c, d
  <2> QED BY <1>6, <1>7, <1>10, <2>1 DEF EngineRuns
<1>13. Counters'
  BY <1>1, <1>2, <1>3, <1>5, <1>8 DEF Structure, Counters, c
<1>14. Queued'
  <2>1. sent <= Current /\ published <= Current /\ sent \in Nat /\ published \in Nat
    BY <1>1, <1>3 DEF Structure, Counters
  <2>2. command' # None
    BY <1>2, <1>5 DEF c
  <2>3. \A i \in 1 .. Len(writes) : writes[i].fence \in Nat /\ writes[i].fence # Current + 1
    BY <1>3, <2>1 DEF Structure, Queued
  <2> QED BY <1>1, <1>3, <2>1, <2>2, <2>3 DEF Structure, Queued
<1>15. \A a \in Addresses : ~Covers(writes, a)
  BY <1>1 DEF Structure, Queued, Covers
<1>16. Before' = Before /\ Before' = Picture(Current)
  <2>1. command' # None
    BY <1>2, <1>5 DEF c
  <2>2. Structure'
    BY <1>9, <1>11, <1>12, <1>13, <1>14 DEF Structure
  <2>3. (Current + 1) - 1 = Current
    BY <1>3
  <2>4. Stack(Picture(Current), ItemLayers(c))[0] = Picture(Current)
    <3>1. Picture(Current) = asked[Current + 1].picture /\ Current + 1 \in 1 .. Len(asked)
      BY <1>2, <1>3 DEF Picture, Submitted
    <3>2. IsPicture(Picture(Current)) /\ DOMAIN Picture(Current) = Addresses
      BY <3>1 DEF Structure, History
    <3> QED BY <1>5, <3>2, ItemPictures
  <2>5. Before' = Stack(Picture(Current), ItemLayers(c))[0]
    <3>1. Picture(Current - 1)' = Picture(Current)
      BY <1>1, <1>3, <2>3 DEF Picture
    <3>2. command' = c
      BY <1>2 DEF c
    <3> QED BY <1>10, <2>1, <3>1, <3>2 DEF Before, PictureAfter
  <2> QED BY <1>1, <2>4, <2>5 DEF Before
<1>17. ASSUME Content PROVE Content'
  <2>1. engine' # None => engine' = e
    BY <1>7
  <2>2. \A a : Value(a)' = Value(a)
    BY <1>1, <1>6, <1>16, <2>1 DEF Value
  <2>3. Landing'
    BY <1>1, <1>17, <2>2 DEF Content, Landing
  <2>4. Origin'
    BY <1>1, <1>15 DEF Origin
  <2>5. ReadAhead'
    BY <1>6, <2>1 DEF ReadAhead
  <2> QED BY <2>3, <2>4, <2>5 DEF Content
<1> QED BY <1>9, <1>11, <1>12, <1>13, <1>14, <1>17 DEF Structure

BatchRecord == [state : States, index : Nat, word : Nat, prev_flagged : BOOLEAN]

LEMMA BatchFields ==
    ASSUME NEW b \in BatchRecord, NEW s \in States
    PROVE  LET c == [b EXCEPT !.state = s] IN
           c \in BatchRecord /\ c.state = s /\ c.index = b.index
           /\ c.prev_flagged = b.prev_flagged
BY DEF BatchRecord

LEMMA BatchNext ==
    ASSUME NEW b \in BatchRecord, NEW s \in States, NEW i \in Nat
    PROVE  LET c == [b EXCEPT !.state = s, !.index = i] IN
           c \in BatchRecord /\ c.state = s /\ c.index = i
           /\ c.prev_flagged = b.prev_flagged
BY DEF BatchRecord

LEMMA BatchFlag ==
    ASSUME NEW b \in BatchRecord, NEW p, p \in BOOLEAN, NEW c,
           c = [b EXCEPT !.state = "run", !.prev_flagged = p]
    PROVE  c \in BatchRecord /\ c.state = "run" /\ c.index = b.index /\ c.prev_flagged = p
BY DEF BatchRecord, States

LEMMA BatchWord ==
    ASSUME NEW b \in BatchRecord, NEW s \in States, NEW w \in Nat
    PROVE  LET c == [b EXCEPT !.state = s, !.word = w]
               f == [b EXCEPT !.word = w] IN
           /\ c \in BatchRecord /\ c.state = s /\ c.index = b.index
           /\ c.prev_flagged = b.prev_flagged
           /\ f \in BatchRecord /\ f.state = b.state /\ f.index = b.index
           /\ f.prev_flagged = b.prev_flagged
BY DEF BatchRecord

\* Steps that leave the commands and the history.
LEMMA HistoryKept ==
    ASSUME History, UNCHANGED <<queue, command, asked>>
    PROVE  /\ History' /\ Current' = Current /\ Submitted' = Submitted
           /\ \A n : Picture(n)' = Picture(n) /\ PictureAfter(n)' = PictureAfter(n)
BY DEF History, Current, Submitted, Picture, PictureAfter, Asked

LEMMA RetireStep ==
    ASSUME Structure, Retire
    PROVE  Structure' /\ (Content => Content')
<1>1. /\ command # None /\ done_seen /\ writes = << >>
      /\ command' = None /\ done_seen' = FALSE
      /\ UNCHANGED <<queue, batch, engine, dram, writes, completed, sent, published, asked>>
  BY DEF Retire, MemoryIdle
<1>2. Len(writes) = 0 /\ IsSeq(writes)
  BY <1>1, NoEntries
<1>3. batch.state = "idle" /\ engine = None /\ batch = NoBatch
  BY <1>1 DEF Structure, Sequencer
<1>4. Current' = Current
  BY <1>1 DEF Current, Submitted
<1>5. History'
  BY <1>1 DEF Structure, History, Current, Submitted, Asked
<1>6. Sequencer' /\ FlagSeen' /\ EngineRuns'
  BY <1>1, <1>3 DEF Structure, Sequencer, FlagSeen, EngineRuns
<1>7. Counters' /\ Queued'
  BY <1>1, <1>2, <1>4 DEF Structure, Counters, Queued
<1>8. Before' = Before
  <2>1. ItemsDone = Len(command.items)
    BY <1>1, ItemsCounted
  <2>2. Before = Picture(Current)
    BY <1>1, <2>1, RunningPictures
  <2>3. Before' = Picture(Current)
    BY <1>1, <1>4 DEF Before, Picture
  <2> QED BY <2>2, <2>3
<1>9. \A a : Value(a)' = Value(a)
  BY <1>1, <1>3, <1>8 DEF Value
<1>10. \A a \in Addresses : ~Covers(writes, a)
  BY <1>2 DEF Covers
<1>11. Content => Content'
  BY <1>1, <1>3, <1>9, <1>10 DEF Content, Landing, Origin, ReadAhead
<1> QED BY <1>5, <1>6, <1>7, <1>11 DEF Structure

\* A batch's sequencer is at one of its descriptors.
LEMMA BatchItem ==
    ASSUME Structure, batch.state # "idle"
    PROVE  /\ command # None /\ command.op \in BatchOps /\ command \in Commands
           /\ ~done_seen /\ batch \in BatchRecord
           /\ batch.index \in 1 .. Len(command.items) /\ Len(command.items) \in Nat
           /\ engine = None <=> batch.state # "run"
           /\ ItemsDone = IF batch.state = "finish" THEN batch.index ELSE batch.index - 1
<1>1. command # None
  BY DEF Structure, Sequencer
<1>2. command.op \in BatchOps
  BY <1>1 DEF Structure, Sequencer
<1>3. command \in Commands /\ Len(command.items) \in Nat
  BY <1>1, ItemsCounted
<1> QED BY <1>1, <1>2, <1>3 DEF Structure, Sequencer, BatchRecord, ItemsDone

\* The engine is started for the sequencer's item: no write of what it reads
\* that is not read past is pending.
LEMMA ItemStarts ==
    ASSUME Structure, batch.state \in {"launch", "drain"},
           UNCHANGED <<queue, command, done_seen, dram, writes, completed, sent,
                       published, asked>>,
           batch' \in BatchRecord, batch'.state = "run", batch'.index = batch.index,
           command.op = "SPRITE_BATCH" =>
                (batch'.prev_flagged <=> Flagged(command.items[batch.index])),
           engine' = Start(Job(command.op, Item)),
           \/ \A a \in Addresses : ~Covers(writes, a)
           \/ command.op = "SPRITE_BATCH" => /\ ~Flagged(command.items[batch.index])
                                             /\ ~batch.prev_flagged
    PROVE  Structure' /\ (Content => Content')
<1> DEFINE k == batch.index
           d == command.items[k]
           e == Start(Job(command.op, d))
<1>1. /\ command # None /\ command.op \in BatchOps /\ command \in Commands /\ ~done_seen
      /\ k \in 1 .. Len(command.items) /\ Len(command.items) \in Nat
      /\ engine = None /\ ItemsDone = k - 1
  BY BatchItem
<1>2. engine' = e
  BY DEF Item
<1>3. /\ e # None /\ Runs(e, command.op, d) /\ RetiredPixels(e) = {}
      /\ \A picture : HasRead(e, picture)
  BY <1>1, StartRuns
<1> HIDE DEF d, e
<1>4. /\ History' /\ Current' = Current
      /\ \A n : Picture(n)' = Picture(n) /\ PictureAfter(n)' = PictureAfter(n)
  BY HistoryKept DEF Structure
<1>5. ItemsDone' = k - 1 /\ ItemsDone' = ItemsDone
  BY <1>1 DEF ItemsDone
<1>6. Sequencer' /\ FlagSeen'
  BY <1>1, <1>2, <1>3 DEF Structure, Sequencer, FlagSeen, BatchRecord, BatchOps
<1>7. EngineRuns'
  <2>1. (k - 1) + 1 = k
    BY <1>1
  <2> QED BY <1>2, <1>3, <1>5, <2>1 DEF EngineRuns, d
<1>8. Counters' /\ Queued'
  BY <1>4 DEF Structure, Counters, Queued
<1>9. Before' = Before
  BY <1>1, <1>4, <1>5 DEF Before
<1>10. \A a : Value(a)' = Value(a)
  BY <1>1, <1>2, <1>3, <1>9 DEF Value
<1>11. Content => Landing' /\ ReadAhead'
  BY <1>2, <1>3, <1>10 DEF Content, Landing, ReadAhead
<1>12. ASSUME Content PROVE Origin'
  <2> SUFFICES ASSUME NEW a \in Addresses, Covers(writes, a)
               PROVE  \E j \in 1 .. ItemsDone : /\ Inside(Target(command.items[j]), a)
                                                /\ Undrained(j)'
    BY <1>1, <1>5 DEF Origin
  <2>1. PICK j \in 1 .. ItemsDone : Inside(Target(command.items[j]), a) /\ Undrained(j)
    BY <1>1, <1>12 DEF Content, Origin
  <2>2. ASSUME command.op = "SPRITE_BATCH", NEW m \in j .. ItemsDone + 1
        PROVE  ~Flagged(command.items[m])
    <3>1. ~Flagged(command.items[k]) /\ ~batch.prev_flagged
      BY <2>2
    <3>2. j = ItemsDone \/ \A i \in j .. ItemsDone : ~Flagged(command.items[i])
      BY <1>1, <2>1, <2>2 DEF Undrained
    <3>3. batch.index > 1 /\ batch.index - 1 = ItemsDone
      BY <1>1, <2>1
    <3>4. ~Flagged(command.items[ItemsDone])
      BY <1>1, <2>2, <3>1, <3>3 DEF Structure, FlagSeen
    <3>5. m = k \/ m = ItemsDone \/ m \in j .. ItemsDone
      BY <1>1, <2>1, <2>2
    <3>6. j = ItemsDone /\ m \in j .. ItemsDone => m = ItemsDone
      BY <1>1, <2>1
    <3> QED BY <3>1, <3>2, <3>4, <3>5, <3>6
  <2>3. Undrained(j)'
    BY <1>2, <1>3, <1>5, <2>2 DEF Undrained
  <2> QED BY <2>1, <2>3
<1> QED BY <1>4, <1>6, <1>7, <1>8, <1>11, <1>12 DEF Structure, Content

LEMMA LaunchStep ==
    ASSUME Structure, Launch
    PROVE  Structure' /\ (Content => Content')
<1>1. batch.state = "launch" /\ batch \in BatchRecord
      /\ UNCHANGED <<queue, command, done_seen, dram, writes, completed, sent,
                     published, asked>>
  BY BatchItem DEF Launch
<1>2. /\ command # None /\ command.op \in BatchOps /\ engine = None /\ ItemsDone = batch.index - 1
      /\ ~done_seen /\ batch.index \in 1 .. Len(command.items)
  BY <1>1, BatchItem
<1>3. CASE NeedsDrain
  <2>1. engine' = engine
    BY <1>3 DEF Launch
  <2>2. batch' = [batch EXCEPT !.state = "drain"]
    BY <1>3 DEF Launch
  <2>3. /\ batch' \in BatchRecord /\ batch'.state = "drain" /\ batch'.index = batch.index
        /\ batch'.prev_flagged = batch.prev_flagged
    <3>1. "drain" \in States
      BY DEF States
    <3> QED BY <1>1, <2>2, <3>1, BatchFields
  <2>4. /\ History' /\ Current' = Current
        /\ \A n : Picture(n)' = Picture(n) /\ PictureAfter(n)' = PictureAfter(n)
    BY <1>1, HistoryKept DEF Structure
  <2>5. ItemsDone' = ItemsDone
    BY <1>1, <1>2, <2>3 DEF ItemsDone
  <2>6. Sequencer' /\ FlagSeen'
    BY <1>1, <1>2, <2>1, <2>3 DEF Structure, Sequencer, FlagSeen, BatchRecord
  <2>7. EngineRuns' /\ Counters' /\ Queued'
    BY <1>1, <1>2, <2>1, <2>4 DEF Structure, EngineRuns, Counters, Queued
  <2>8. \A a : Value(a)' = Value(a)
    BY <1>1, <1>2, <2>1, <2>4, <2>5 DEF Value, Before
  <2>9. Content => Content'
    BY <1>1, <1>2, <2>1, <2>5, <2>8 DEF Content, Landing, Origin, ReadAhead, Undrained
  <2> QED BY <2>4, <2>6, <2>7, <2>9 DEF Structure
<1>4. CASE ~NeedsDrain
  <2>1. engine' = Start(Job(command.op, Item))
    BY <1>4 DEF Launch
  <2>2. batch' = [batch EXCEPT !.state = "run"]
    BY <1>4 DEF Launch
  <2>3. /\ batch' \in BatchRecord /\ batch'.state = "run" /\ batch'.index = batch.index
        /\ batch'.prev_flagged = batch.prev_flagged
    <3>1. "run" \in States
      BY DEF States
    <3> QED BY <1>1, <2>2, <3>1, BatchFields
  <2>4. command.op = "SPRITE_BATCH" => /\ ~Flagged(command.items[batch.index])
                                       /\ ~batch.prev_flagged
    BY <1>4 DEF NeedsDrain, Item
  <2>5. command.op = "SPRITE_BATCH" =>
          (batch'.prev_flagged <=> Flagged(command.items[batch.index]))
    BY <2>3, <2>4
  <2> QED BY <1>1, <2>1, <2>3, <2>4, <2>5, ItemStarts
<1> QED BY <1>3, <1>4

LEMMA DrainedStep ==
    ASSUME Structure, Drained
    PROVE  Structure' /\ (Content => Content')
<1>1. batch.state = "drain" /\ batch \in BatchRecord /\ writes = << >>
      /\ UNCHANGED <<queue, command, done_seen, dram, writes, completed, sent,
                     published, asked>>
      /\ batch' = [batch EXCEPT !.state = "run", !.prev_flagged = Flagged(Item)]
      /\ engine' = Start(Job(command.op, Item))
  BY BatchItem DEF Drained, MemoryIdle
<1>2. Flagged(Item) \in BOOLEAN
  BY DEF Flagged
<1>3. /\ batch' \in BatchRecord /\ batch'.state = "run" /\ batch'.index = batch.index
      /\ batch'.prev_flagged = Flagged(Item)
  <2> DEFINE p == Flagged(Item)
  <2>1. batch \in BatchRecord /\ p \in BOOLEAN
    BY <1>1, <1>2
  <2>2. batch' = [batch EXCEPT !.state = "run", !.prev_flagged = p]
    BY <1>1
  <2> SUFFICES /\ batch' \in BatchRecord /\ batch'.state = "run" /\ batch'.index = batch.index
               /\ batch'.prev_flagged = p
    OBVIOUS
  <2> HIDE DEF p
  <2> QED BY <2>1, <2>2, BatchFlag
<1>4. batch'.prev_flagged <=> Flagged(command.items[batch.index])
  BY <1>3 DEF Item
<1>5. \A a \in Addresses : ~Covers(writes, a)
  <2>1. Len(writes) = 0
    BY <1>1, NoEntries
  <2> QED BY <2>1 DEF Covers
<1> QED BY <1>1, <1>3, <1>4, <1>5, ItemStarts

LEMMA FinishBatchStep ==
    ASSUME Structure, FinishBatch
    PROVE  Structure' /\ (Content => Content')
<1>1. batch.state = "finish" /\ batch' = NoBatch /\ done_seen' = TRUE
      /\ completed' = completed + 1
      /\ UNCHANGED <<queue, command, engine, dram, writes, sent, published, asked>>
  BY DEF FinishBatch
<1>2. /\ command # None /\ command.op \in BatchOps /\ engine = None /\ ~done_seen
      /\ ItemsDone = batch.index
  BY <1>1, BatchItem
<1>3. batch.index = Len(command.items)
  BY <1>1, <1>2 DEF Structure, Sequencer
<1>4. batch' \in BatchRecord /\ batch'.state = "idle"
  <2>1. "idle" \in States /\ 0 \in Nat /\ FALSE \in BOOLEAN
    BY DEF States
  <2> QED BY <1>1, <2>1 DEF NoBatch, BatchRecord
<1>5. /\ History' /\ Current' = Current
      /\ \A n : Picture(n)' = Picture(n) /\ PictureAfter(n)' = PictureAfter(n)
  BY <1>1, HistoryKept DEF Structure
<1>6. ItemsDone' = ItemsDone
  BY <1>1, <1>2, <1>3, <1>4 DEF ItemsDone
<1>7. Sequencer' /\ FlagSeen' /\ EngineRuns'
  BY <1>1, <1>2, <1>4 DEF Structure, Sequencer, FlagSeen, EngineRuns, BatchRecord, BatchOps
<1>8. Counters' /\ Queued'
  <2>1. Current \in Nat /\ completed = Current - 1
    BY <1>2, ItemsCounted DEF Structure, Counters
  <2>2. Counters'
    BY <1>1, <1>2, <1>5, <2>1 DEF Structure, Counters
  <2> QED BY <1>1, <1>2, <1>5, <2>2 DEF Structure, Queued
<1>9. \A a : Value(a)' = Value(a)
  BY <1>1, <1>2, <1>5, <1>6 DEF Value, Before
<1>10. Content => Content'
  BY <1>1, <1>2, <1>6, <1>9 DEF Content, Landing, Origin, ReadAhead, Undrained
<1> QED BY <1>5, <1>7, <1>8, <1>10 DEF Structure

-----------------------------------------------------------------------------
(* The engine's steps.                                                     *)

LEMMA PixelsRead ==
    ASSUME NEW e, DOMAIN e = EngineRecord, NEW v
    PROVE  LET f == [e EXCEPT !.pixels = v] IN
           /\ DOMAIN f = EngineRecord /\ f.job = e.job /\ f.work = e.work /\ f.pixels = v
           /\ f.words = e.words /\ f.fast = e.fast /\ f.retired = e.retired
BY DEF EngineRecord

LEMMA WordsRead ==
    ASSUME NEW e, DOMAIN e = EngineRecord, NEW v
    PROVE  LET f == [e EXCEPT !.words = v] IN
           /\ DOMAIN f = EngineRecord /\ f.job = e.job /\ f.work = e.work /\ f.pixels = e.pixels
           /\ f.words = v /\ f.fast = e.fast /\ f.retired = e.retired
BY DEF EngineRecord

LEMMA FastLeft ==
    ASSUME NEW e, DOMAIN e = EngineRecord, NEW v
    PROVE  LET f == [e EXCEPT !.fast = FALSE, !.words = v] IN
           /\ DOMAIN f = EngineRecord /\ f.job = e.job /\ f.work = e.work /\ f.pixels = e.pixels
           /\ f.words = v /\ f.fast = FALSE /\ f.retired = e.retired
BY DEF EngineRecord

LEMMA Advanced ==
    ASSUME NEW e, DOMAIN e = EngineRecord
    PROVE  LET f == Advance(e) IN
           /\ DOMAIN f = EngineRecord /\ f.job = e.job /\ f.work = Tail(e.work)
           /\ f.pixels = IF e.pixels = << >> THEN e.pixels ELSE Tail(e.pixels)
           /\ f.words = IF e.words = << >> THEN e.words ELSE Tail(e.words)
           /\ f.fast = e.fast /\ f.retired = e.retired + 1
BY DEF EngineRecord, Advance

\* Steps of an engine that retire nothing.
LEMMA EngineReads ==
    ASSUME Structure, engine # None, engine' # None,
           UNCHANGED <<queue, command, done_seen, batch, dram, writes, completed, sent,
                       published, asked>>,
           Runs(engine', command.op, command.items[ItemsDone + 1]),
           engine'.job = engine.job, engine'.retired = engine.retired
    PROVE  Structure' /\ (Content /\ HasRead(engine', Before) => Content')
<1>1. /\ History' /\ Current' = Current
      /\ \A n : Picture(n)' = Picture(n) /\ PictureAfter(n)' = PictureAfter(n)
  BY HistoryKept DEF Structure
<1>2. ItemsDone' = ItemsDone
  BY DEF ItemsDone
<1>3. Sequencer' /\ FlagSeen' /\ EngineRuns' /\ Counters' /\ Queued'
  BY <1>1, <1>2 DEF Structure, Sequencer, FlagSeen, EngineRuns, Counters, Queued
<1>4. Before' = Before /\ RetiredPixels(engine') = RetiredPixels(engine)
  BY <1>1, <1>2 DEF Before, RetiredPixels
<1>5. \A a : Value(a)' = Value(a)
  BY <1>1, <1>2, <1>4 DEF Value
<1>6. Content /\ HasRead(engine', Before) => Content'
  BY <1>2, <1>4, <1>5 DEF Content, Landing, Origin, ReadAhead, Undrained
<1> QED BY <1>1, <1>3, <1>6 DEF Structure

\* A pixel that no pending write covers and the engine did not retire is in
\* DRAM as it is in the picture before the item.
LEMMA Unpending ==
    ASSUME Structure, Content, engine # None, NEW a \in Addresses,
           a \notin RetiredPixels(engine),
           \A j \in 1 .. ItemsDone : Undrained(j) => ~Inside(Target(command.items[j]), a)
    PROVE  dram[a] = Before[a]
<1>1. ~Covers(writes, a)
  BY DEF Content, Origin
<1>2. IsSeq(writes)
  BY DEF Structure, Queued
<1>3. Settles(writes, dram, a, Before[a])
  BY DEF Content, Landing, Value
<1> QED BY <1>1, <1>2, <1>3, SettlesUncovered

\* The raw commands of the requests are Apart; an SDK call's always are.
RawSourcesApart == \A r \in Requests : IsRaw(r) /\ Pushes(r) => Apart(r.command)

LEMMA CommandApart ==
    ASSUME RawSourcesApart, NEW c \in Commands
    PROVE  Apart(c)
<1>1. PICK r \in Requests : Pushes(r) /\ c = Pushed(r)
  BY DEF Commands
<1>2. CASE IsRaw(r)
  BY <1>1, <1>2 DEF RawSourcesApart, Pushed
<1>3. CASE ~IsRaw(r)
  BY <1>1, <1>3, CallApart, DrawsAssumption DEF IsRequest, Pushes, Pushed
<1> QED BY <1>2, <1>3

\* A unit the engine has left: its cells.
LEMMA UnitLeft ==
    ASSUME Structure, engine # None, NEW i \in 1 .. Len(engine.work)
    PROVE  LET d == command.items[ItemsDone + 1]
               unit == engine.work[i]
           IN  /\ engine.retired + i \in 1 .. Total(engine.job)
               /\ unit = Work(engine.job)[engine.retired + i]
               /\ \A l \in DOMAIN unit :
                    /\ unit[l].to \in Addresses /\ Inside(Target(d), unit[l].to)
                    /\ unit[l].to \notin RetiredPixels(engine)
                    /\ ~engine.job.solid =>
                        unit[l].from \in Addresses /\ Inside(Shown(d), unit[l].from)
               /\ engine.job.kind = "blend" => \A l \in DOMAIN unit :
                    LET low == unit[1].to - (unit[1].to % 2) IN unit[l].to \in {low, low + 1}
<1> DEFINE d == command.items[ItemsDone + 1]
           n == Total(engine.job)
           walk == Work(engine.job)
           r == engine.retired
           unit == engine.work[i]
           after == PictureAfter(ItemsDone + 1)
<1>1. /\ Runs(engine, command.op, d) /\ n \in Nat /\ r \in 0 .. n /\ Len(engine.work) = n - r
      /\ IsTask(command.op, d, Before, after, walk, n)
  BY RunningTask
<1>2. engine.job = Job(command.op, d)
      /\ \A k \in 1 .. Len(engine.work) : engine.work[k] = walk[r + k]
  BY <1>1 DEF Runs
<1>3. r + i \in 1 .. n /\ unit = walk[r + i]
  BY <1>1, <1>2
<1> HIDE DEF walk, n, r, d, after, unit
<1>4. IsWalk(engine.job, walk, n)
  BY <1>1, <1>2 DEF IsTask
<1>5. ASSUME NEW l \in DOMAIN unit PROVE unit[l].to \notin RetiredPixels(engine)
  <2> SUFFICES ASSUME NEW k \in 1 .. r, NEW m \in DOMAIN walk[k], walk[k][m].to = unit[l].to
               PROVE  FALSE
    BY DEF RetiredPixels, walk, r
  <2>1. k \in 1 .. n /\ k # r + i
    BY <1>1, <1>3
  <2>2. \A x, y \in 1 .. n : \A s \in DOMAIN walk[x], t \in DOMAIN walk[y] :
          walk[x][s].to = walk[y][t].to => x = y /\ s = t
    BY <1>4 DEF IsWalk
  <2> QED BY <1>3, <1>5, <2>1, <2>2
<1>6. ASSUME NEW l \in DOMAIN unit
      PROVE  /\ unit[l].to \in Addresses /\ Inside(Target(d), unit[l].to)
             /\ ~engine.job.solid =>
                    unit[l].from \in Addresses /\ Inside(Shown(d), unit[l].from)
  BY <1>1, <1>2, <1>3, <1>6 DEF IsTask
<1>7. ASSUME engine.job.kind = "blend", NEW l \in DOMAIN unit
      PROVE  LET low == unit[1].to - (unit[1].to % 2) IN unit[l].to \in {low, low + 1}
  BY <1>3, <1>4, <1>7 DEF IsWalk
<1> QED BY <1>3, <1>5, <1>6, <1>7 DEF d, unit, r, walk, n

\* A source pixel, when it is read, is as in the picture before the item.
LEMMA SourceRead ==
    ASSUME Structure, Content, RawSourcesApart, engine # None, ~engine.job.solid,
           NEW i \in 1 .. Len(engine.work), NEW l \in DOMAIN engine.work[i]
    PROVE  dram[engine.work[i][l].from] = Before[engine.work[i][l].from]
<1> DEFINE k == ItemsDone + 1
           d == command.items[k]
           a == engine.work[i][l].from
           n == Total(engine.job)
<1>1. /\ command \in Commands /\ ItemsDone \in Nat /\ k \in 1 .. Len(command.items)
      /\ Runs(engine, command.op, d) /\ IsItem(command.op, d)
      /\ IsTask(command.op, d, Before, PictureAfter(ItemsDone + 1), Work(engine.job), n)
      /\ engine.retired \in 0 .. n /\ n \in Nat
  BY RunningTask
<1>2. a \in Addresses /\ a \in Int /\ Inside(Shown(d), a)
  BY UnitLeft, AddressesInt
<1>3. engine.job = Job(command.op, d) /\ command.op \in Opcodes
  BY <1>1 DEF Runs, IsItem
<1> HIDE DEF a, n
<1>4. command.op \notin FillOps
  BY <1>1, <1>3, JobKinds
<1>5. IsGood(command) /\ Apart(command)
  BY <1>1, CommandGood, CommandApart
<1>6. Len(command.items) \in Nat
  BY <1>5 DEF IsGood
<1>7. ASSUME NEW j \in 1 .. k,
             j = k \/ (command.op = "SPRITE_BATCH" /\ \A m \in j .. k : ~Flagged(command.items[m]))
      PROVE  ~Inside(Target(command.items[j]), a)
  BY <1>1, <1>2, <1>4, <1>5, <1>7 DEF Apart
<1>8. a \notin RetiredPixels(engine)
  <2> SUFFICES ASSUME NEW x \in 1 .. engine.retired, NEW m \in DOMAIN Work(engine.job)[x],
                      Work(engine.job)[x][m].to = a
               PROVE  FALSE
    BY DEF RetiredPixels
  <2>1. x \in 1 .. n
    BY <1>1
  <2>2. Inside(Target(d), a)
    BY <1>1, <2>1 DEF IsTask
  <2>3. k \in 1 .. k
    BY <1>1
  <2> QED BY <1>7, <2>2, <2>3
<1>9. ASSUME NEW j \in 1 .. ItemsDone, Undrained(j)
      PROVE  ~Inside(Target(command.items[j]), a)
  <2>1. command.op = "SPRITE_BATCH"
    <3> SUFFICES ASSUME command.op # "SPRITE_BATCH" PROVE FALSE
      OBVIOUS
    <3>1. command.op \notin BatchOps
      BY <1>4 DEF BatchOps, FillOps
    <3>2. Len(command.items) = 1
      BY <1>5, <3>1 DEF IsGood
    <3> QED BY <1>1, <1>9, <3>2
  <2>2. \A m \in j .. k : ~Flagged(command.items[m])
    BY <1>9, <2>1 DEF Undrained
  <2>3. j \in 1 .. k
    BY <1>1
  <2> QED BY <1>7, <2>1, <2>2, <2>3
<1>10. dram[a] = Before[a]
  BY <1>2, <1>8, <1>9, Unpending
<1> QED BY <1>10 DEF a

\* A blend's destination pixel, when it is read, likewise.
LEMMA DestinationRead ==
    ASSUME Structure, Content, engine # None, engine.job.kind = "blend",
           NEW i \in 1 .. Len(engine.work), NEW l \in DOMAIN engine.work[i]
    PROVE  WordOf(engine.work[i][1].to)[engine.work[i][l].to] = Before[engine.work[i][l].to]
<1> DEFINE k == ItemsDone + 1
           d == command.items[k]
           a == engine.work[i][l].to
           first == engine.work[i][1].to
<1>1. /\ command \in Commands /\ ItemsDone \in Nat /\ k \in 1 .. Len(command.items)
      /\ Runs(engine, command.op, d) /\ IsItem(command.op, d)
  BY RunningTask
<1>2. /\ a \in Addresses /\ a \notin RetiredPixels(engine)
      /\ a \in {first - (first % 2), first - (first % 2) + 1}
  BY UnitLeft
<1>3. engine.job = Job(command.op, d) /\ command.op \in Opcodes
  BY <1>1 DEF Runs, IsItem
<1> HIDE DEF a
<1>4. \/ command.op \in {"BLIT_BLEND", "BLEND_FILL"}
      \/ command.op = "SPRITE_BATCH" /\ Flagged(d)
  BY <1>1, <1>3, JobKinds
<1>5. IsGood(command)
  BY <1>1, CommandGood
<1>6. ASSUME NEW j \in 1 .. ItemsDone PROVE ~Undrained(j)
  <2>1. command.op = "SPRITE_BATCH"
    <3> SUFFICES ASSUME command.op # "SPRITE_BATCH" PROVE FALSE
      OBVIOUS
    <3>1. command.op \notin BatchOps
      BY <1>4 DEF BatchOps
    <3>2. Len(command.items) = 1
      BY <1>5, <3>1 DEF IsGood
    <3> QED BY <1>1, <1>6, <3>2
  <2>2. Flagged(command.items[k]) /\ k \in j .. k
    BY <1>1, <1>4, <2>1
  <2> QED BY <2>1, <2>2 DEF Undrained
<1>7. dram[a] = Before[a]
  BY <1>2, <1>6, Unpending
<1>8. WordOf(first)[a] = dram[a]
  <2> HIDE DEF first
  <2> QED BY <1>2 DEF WordOf
<1> QED BY <1>7, <1>8 DEF a

LEMMA FetchSourceStep ==
    ASSUME Structure, FetchSource
    PROVE  Structure' /\ (RawSourcesApart /\ Content => Content')
<1> DEFINE d == command.items[ItemsDone + 1]
           m == Len(engine.pixels)
           unit == engine.work[m + 1]
           read == [l \in DOMAIN unit |-> dram[unit[l].from]]
           pixels == Append(engine.pixels, read)
<1>1. /\ engine # None /\ ~engine.job.solid /\ m < Len(engine.work)
      /\ engine' = [engine EXCEPT !.pixels = pixels]
      /\ UNCHANGED <<queue, command, done_seen, batch, dram, writes, completed,
                     sent, published, asked>>
  BY DEF FetchSource, Working, Reads
<1>2. Runs(engine, command.op, d)
  BY <1>1, RunningTask
<1>3. /\ DOMAIN engine = EngineRecord /\ IsSeq(engine.pixels) /\ IsSeq(engine.work)
      /\ \A i \in 1 .. m : DOMAIN engine.pixels[i] = DOMAIN engine.work[i]
  BY <1>2 DEF Runs
<1>4. m \in Nat /\ Len(engine.work) \in Nat /\ m + 1 \in 1 .. Len(engine.work)
  BY <1>1, <1>3, SeqFacts
<1>5. DOMAIN read = DOMAIN unit /\ \A l \in DOMAIN unit : read[l] = dram[unit[l].from]
  OBVIOUS
<1> HIDE DEF read
<1>6. /\ IsSeq(pixels) /\ Len(pixels) = m + 1 /\ pixels[m + 1] = read
      /\ \A i \in 1 .. m : pixels[i] = engine.pixels[i]
  BY <1>3, AppendFacts
<1> HIDE DEF pixels
<1>7. /\ DOMAIN engine' = EngineRecord /\ engine'.job = engine.job /\ engine'.work = engine.work
      /\ engine'.pixels = pixels /\ engine'.words = engine.words
      /\ engine'.fast = engine.fast /\ engine'.retired = engine.retired
  BY <1>1, <1>3, PixelsRead
<1>8. engine' # None
  BY <1>7, IsEngine
<1> HIDE DEF m, d
<1>9. \A i \in 1 .. m + 1 : i \in 1 .. m \/ i = m + 1
  BY <1>4
<1>10. Runs(engine', command.op, d)
  <2>1. \A i \in 1 .. m + 1 : DOMAIN pixels[i] = DOMAIN engine.work[i]
    BY <1>3, <1>5, <1>6, <1>9
  <2>2. m + 1 <= Len(engine.work)
    BY <1>4
  <2> QED BY <1>2, <1>6, <1>7, <2>1, <2>2 DEF Runs
<1>11. ASSUME RawSourcesApart, Content PROVE HasRead(engine', Before)
  <2>1. ASSUME NEW l \in DOMAIN unit PROVE read[l] = Before[unit[l].from]
    BY <1>1, <1>4, <1>5, <1>11, <2>1, SourceRead
  <2>2. \A i \in 1 .. m : \A l \in DOMAIN engine.work[i] :
            pixels[i][l] = Before[engine.work[i][l].from]
    BY <1>1, <1>6, <1>11 DEF Content, ReadAhead, HasRead, m
  <2>3. \A i \in 1 .. m + 1 : \A l \in DOMAIN engine.work[i] :
            pixels[i][l] = Before[engine.work[i][l].from]
    BY <1>6, <1>9, <2>1, <2>2
  <2> QED BY <1>1, <1>6, <1>7, <1>11, <2>3 DEF Content, ReadAhead, HasRead
<1>12. Structure' /\ (Content /\ HasRead(engine', Before) => Content')
  BY <1>1, <1>7, <1>8, <1>10, EngineReads DEF d
<1> QED BY <1>11, <1>12

LEMMA FetchDestinationStep ==
    ASSUME Structure, FetchDestination
    PROVE  Structure' /\ (Content => Content')
<1> DEFINE d == command.items[ItemsDone + 1]
           m == Len(engine.words)
           unit == engine.work[m + 1]
           read == WordOf(unit[1].to)
           words == Append(engine.words, read)
<1>1. /\ engine # None /\ engine.job.kind = "blend" /\ ~engine.fast /\ m < Len(engine.work)
      /\ engine' = [engine EXCEPT !.words = words]
      /\ UNCHANGED <<queue, command, done_seen, batch, dram, writes, completed,
                     sent, published, asked>>
  BY DEF FetchDestination, Working, ReadsDestination
<1>2. Runs(engine, command.op, d)
  BY <1>1, RunningTask
<1>3. DOMAIN engine = EngineRecord /\ IsSeq(engine.words) /\ IsSeq(engine.work)
  BY <1>2 DEF Runs
<1>4. m \in Nat /\ Len(engine.work) \in Nat /\ m + 1 \in 1 .. Len(engine.work)
  BY <1>1, <1>3, SeqFacts
<1> HIDE DEF read
<1>6. /\ IsSeq(words) /\ Len(words) = m + 1 /\ words[m + 1] = read
      /\ \A i \in 1 .. m : words[i] = engine.words[i]
  BY <1>3, AppendFacts
<1> HIDE DEF words
<1>7. /\ DOMAIN engine' = EngineRecord /\ engine'.job = engine.job /\ engine'.work = engine.work
      /\ engine'.pixels = engine.pixels /\ engine'.words = words
      /\ engine'.fast = engine.fast /\ engine'.retired = engine.retired
  BY <1>1, <1>3, WordsRead
<1>8. engine' # None
  BY <1>7, IsEngine
<1> HIDE DEF m, d
<1>9. \A i \in 1 .. m + 1 : i \in 1 .. m \/ i = m + 1
  BY <1>4
<1>10. Runs(engine', command.op, d)
  <2>1. m + 1 <= Len(engine.work)
    BY <1>4
  <2> QED BY <1>1, <1>2, <1>6, <1>7, <2>1 DEF Runs
<1>11. ASSUME Content PROVE HasRead(engine', Before)
  <2>1. ASSUME NEW l \in DOMAIN unit PROVE read[unit[l].to] = Before[unit[l].to]
    BY <1>1, <1>4, <1>11, <2>1, DestinationRead DEF read
  <2>2. \A i \in 1 .. m : \A l \in DOMAIN engine.work[i] :
            words[i][engine.work[i][l].to] = Before[engine.work[i][l].to]
    BY <1>1, <1>6, <1>11 DEF Content, ReadAhead, HasRead, m
  <2>3. \A i \in 1 .. m + 1 : \A l \in DOMAIN engine.work[i] :
            words[i][engine.work[i][l].to] = Before[engine.work[i][l].to]
    BY <1>6, <1>9, <2>1, <2>2
  <2> QED BY <1>1, <1>6, <1>7, <1>11, <2>3 DEF Content, ReadAhead, HasRead
<1>12. Structure' /\ (Content /\ HasRead(engine', Before) => Content')
  BY <1>1, <1>7, <1>8, <1>10, EngineReads DEF d
<1> QED BY <1>11, <1>12

LEMMA LeaveFastStep ==
    ASSUME Structure, LeaveFast
    PROVE  Structure' /\ (Content => Content')
<1> DEFINE d == command.items[ItemsDone + 1]
           read == WordOf(Unit[1].to)
           words == <<read>>
<1>1. /\ engine # None /\ engine.fast /\ engine.work # << >>
      /\ engine' = [engine EXCEPT !.fast = FALSE, !.words = words]
      /\ UNCHANGED <<queue, command, done_seen, batch, dram, writes, completed,
                     sent, published, asked>>
  BY DEF LeaveFast, Working
<1>2. Runs(engine, command.op, d)
  BY <1>1, RunningTask
<1>3. DOMAIN engine = EngineRecord /\ IsSeq(engine.work) /\ FastAlpha(engine.job)
  BY <1>1, <1>2 DEF Runs
<1>4. Len(engine.work) \in Nat /\ Len(engine.work) > 0 /\ 1 \in 1 .. Len(engine.work)
  BY <1>1, <1>3, SeqFacts
<1>5. engine.job.kind = "blend"
  BY <1>3 DEF FastAlpha
<1> HIDE DEF read
<1>6. IsSeq(words) /\ Len(words) = 1 /\ words[1] = read
  BY OneSeq
<1> HIDE DEF words
<1>7. /\ DOMAIN engine' = EngineRecord /\ engine'.job = engine.job /\ engine'.work = engine.work
      /\ engine'.pixels = engine.pixels /\ engine'.words = words
      /\ engine'.fast = FALSE /\ engine'.retired = engine.retired
  BY <1>1, <1>3, FastLeft
<1>8. engine' # None
  BY <1>7, IsEngine
<1> HIDE DEF d
<1>10. Runs(engine', command.op, d)
  <2>1. 1 <= Len(engine.work)
    BY <1>4
  <2> QED BY <1>2, <1>6, <1>7, <2>1 DEF Runs
<1>11. ASSUME Content PROVE HasRead(engine', Before)
  <2>1. ASSUME NEW l \in DOMAIN engine.work[1]
        PROVE  read[engine.work[1][l].to] = Before[engine.work[1][l].to]
    BY <1>1, <1>4, <1>5, <1>11, <2>1, DestinationRead DEF read, Unit
  <2>2. \A i \in 1 .. 1 : i = 1
    OBVIOUS
  <2>3. \A i \in 1 .. 1 : \A l \in DOMAIN engine.work[i] :
            words[i][engine.work[i][l].to] = Before[engine.work[i][l].to]
    BY <1>6, <2>1, <2>2
  <2>4. HasRead(engine, Before)
    BY <1>1, <1>11 DEF Content, ReadAhead
  <2>5. ~engine'.job.solid => \A i \in 1 .. Len(engine'.pixels) : \A l \in DOMAIN engine'.work[i] :
            engine'.pixels[i][l] = Before[engine'.work[i][l].from]
    BY <1>7, <2>4 DEF HasRead
  <2>6. \A i \in 1 .. Len(engine'.words) : \A l \in DOMAIN engine'.work[i] :
            engine'.words[i][engine'.work[i][l].to] = Before[engine'.work[i][l].to]
    <3>1. engine'.words = words /\ engine'.work = engine.work /\ Len(words) = 1
      BY <1>6, <1>7
    <3>2. ASSUME NEW i \in 1 .. 1, NEW l \in DOMAIN engine.work[i]
          PROVE  engine'.words[i][engine.work[i][l].to] = Before[engine.work[i][l].to]
      BY <2>3, <3>1
    <3>3. Len(engine'.words) = 1
      BY <3>1
    <3> HIDE DEF words
    <3> QED BY <3>1, <3>2, <3>3
  <2> QED BY <2>5, <2>6 DEF HasRead
<1>12. Structure' /\ (Content /\ HasRead(engine', Before) => Content')
  BY <1>1, <1>7, <1>8, <1>10, EngineReads DEF d
<1> QED BY <1>11, <1>12

\* A sequence of what was read ahead, when a unit retires.
LEMMA ReadShifted ==
    ASSUME NEW s, IsSeq(s), NEW t, NEW n, n \in Nat, Len(s) <= n + 1,
           Len(s) = 0 => t = s, Len(s) # 0 => t = Tail(s)
    PROVE  /\ IsSeq(t) /\ Len(t) \in Nat /\ Len(t) <= n /\ (Len(s) = 0 => Len(t) = 0)
           /\ \A i \in 1 .. Len(t) : t[i] = s[i + 1] /\ i + 1 \in 1 .. Len(s)
<1>1. Len(s) \in Nat /\ (s = << >> <=> Len(s) = 0)
  BY SeqFacts
<1>2. CASE Len(s) = 0
  BY <1>1, <1>2
<1>3. CASE Len(s) > 0
  <2>1. /\ t = Tail(s) /\ IsSeq(Tail(s)) /\ Len(Tail(s)) = Len(s) - 1
        /\ \A i \in 1 .. Len(s) - 1 : Tail(s)[i] = s[i + 1]
    BY <1>1, <1>3, TailFacts
  <2> QED BY <1>1, <1>3, <2>1
<1> QED BY <1>1, <1>2, <1>3

\* The engine after its first unit retires.
LEMMA RetiredRuns ==
    ASSUME Structure, engine # None, engine.work # << >>, engine' = Advance(engine)
    PROVE  /\ engine' # None /\ Runs(engine', command.op, command.items[ItemsDone + 1])
           /\ engine'.job = engine.job /\ engine'.retired = engine.retired + 1
           /\ HasRead(engine, Before) => HasRead(engine', Before)
           /\ \A a \in Addresses : a \in RetiredPixels(engine') <=>
                a \in RetiredPixels(engine) \/ \E l \in DOMAIN Unit : Unit[l].to = a
<1> DEFINE d == command.items[ItemsDone + 1]
           r == engine.retired
           n == Len(engine.work)
           walk == Work(engine.job)
<1>1. Runs(engine, command.op, d) /\ r \in Nat
  BY RunningTask
<1>2. DOMAIN engine = EngineRecord /\ IsSeq(engine.work) /\ IsSeq(engine.pixels)
      /\ IsSeq(engine.words) /\ Len(engine.pixels) <= n /\ Len(engine.words) <= n
      /\ Len(walk) = n + r /\ \A i \in 1 .. n : engine.work[i] = walk[r + i]
  <2>1. n \in Nat /\ n = Len(walk) - r
    BY <1>1, SeqFacts DEF Runs
  <2>2. Len(walk) \in Nat
    BY RunningTask
  <2>3. Len(walk) = n + r
    <3> DEFINE total == Len(walk)
    <3>1. total \in Nat /\ n = total - r
      BY <2>1, <2>2
    <3> HIDE DEF total, n, r
    <3>2. total = n + r
      BY <1>1, <3>1
    <3> QED BY <3>2 DEF total
  <2> QED BY <1>1, <2>3 DEF Runs
<1>3. n \in Nat /\ n > 0 /\ Unit = walk[r + 1]
  BY <1>2, FirstUnit, SeqFacts
<1>4. /\ DOMAIN engine' = EngineRecord /\ engine'.job = engine.job
      /\ engine'.work = Tail(engine.work)
      /\ engine'.pixels = IF engine.pixels = << >> THEN engine.pixels ELSE Tail(engine.pixels)
      /\ engine'.words = IF engine.words = << >> THEN engine.words ELSE Tail(engine.words)
      /\ engine'.fast = engine.fast /\ engine'.retired = r + 1
  BY <1>2, Advanced
<1>5. engine' # None
  BY <1>4, IsEngine
<1>6. /\ IsSeq(engine'.work) /\ Len(engine'.work) = n - 1
      /\ \A i \in 1 .. n - 1 : engine'.work[i] = engine.work[i + 1]
  BY <1>2, <1>3, <1>4, TailFacts
<1>7. /\ IsSeq(engine'.pixels) /\ Len(engine'.pixels) \in Nat /\ Len(engine'.pixels) <= n - 1
      /\ \A i \in 1 .. Len(engine'.pixels) :
            engine'.pixels[i] = engine.pixels[i + 1] /\ i + 1 \in 1 .. Len(engine.pixels)
  <2> DEFINE s == engine.pixels
             t == engine'.pixels
             k == n - 1
  <2>1. IsSeq(s) /\ k \in Nat /\ Len(s) <= k + 1
    BY <1>2, <1>3
  <2>2. (Len(s) = 0 => t = s) /\ (Len(s) # 0 => t = Tail(s))
    <3>1. s = << >> <=> Len(s) = 0
      BY <1>2, SeqFacts
    <3> QED BY <1>4, <3>1
  <2> SUFFICES /\ IsSeq(t) /\ Len(t) \in Nat /\ Len(t) <= k
               /\ \A i \in 1 .. Len(t) : t[i] = s[i + 1] /\ i + 1 \in 1 .. Len(s)
    OBVIOUS
  <2> HIDE DEF s, t, k
  <2> QED BY <2>1, <2>2, ReadShifted
<1>8. /\ IsSeq(engine'.words) /\ Len(engine'.words) \in Nat /\ Len(engine'.words) <= n - 1
      /\ Len(engine.words) = 0 => Len(engine'.words) = 0
      /\ \A i \in 1 .. Len(engine'.words) :
            engine'.words[i] = engine.words[i + 1] /\ i + 1 \in 1 .. Len(engine.words)
  <2> DEFINE s == engine.words
             t == engine'.words
             k == n - 1
  <2>1. IsSeq(s) /\ k \in Nat /\ Len(s) <= k + 1
    BY <1>2, <1>3
  <2>2. (Len(s) = 0 => t = s) /\ (Len(s) # 0 => t = Tail(s))
    <3>1. s = << >> <=> Len(s) = 0
      BY <1>2, SeqFacts
    <3> QED BY <1>4, <3>1
  <2> SUFFICES /\ IsSeq(t) /\ Len(t) \in Nat /\ Len(t) <= k
               /\ Len(s) = 0 => Len(t) = 0
               /\ \A i \in 1 .. Len(t) : t[i] = s[i + 1] /\ i + 1 \in 1 .. Len(s)
    OBVIOUS
  <2> HIDE DEF s, t, k
  <2> QED BY <2>1, <2>2, ReadShifted
<1> HIDE DEF n, r, walk, d
<1>9. Runs(engine', command.op, d)
  <2>1. \A i \in 1 .. n - 1 : i + 1 \in 1 .. n /\ r + (i + 1) = (r + 1) + i
    BY <1>1, <1>3
  <2>2. \A i \in 1 .. n - 1 : engine'.work[i] = walk[(r + 1) + i]
    BY <1>2, <1>6, <2>1
  <2>3. n - 1 = Len(walk) - (r + 1)
    BY <1>1, <1>2, <1>3
  <2>4. \A i \in 1 .. Len(engine'.pixels) : DOMAIN engine'.pixels[i] = DOMAIN engine'.work[i]
    <3> SUFFICES ASSUME NEW i \in 1 .. Len(engine'.pixels)
                 PROVE  DOMAIN engine'.pixels[i] = DOMAIN engine'.work[i]
      OBVIOUS
    <3>1. engine'.pixels[i] = engine.pixels[i + 1] /\ i + 1 \in 1 .. Len(engine.pixels)
          /\ i \in 1 .. n - 1
      BY <1>3, <1>7
    <3>2. DOMAIN engine.pixels[i + 1] = DOMAIN engine.work[i + 1]
      BY <1>1, <3>1 DEF Runs
    <3> QED BY <1>6, <3>1, <3>2
  <2>5. engine'.job = Job(command.op, d) /\ engine'.retired \in Nat /\ engine'.fast \in BOOLEAN
        /\ (engine'.fast => FastAlpha(engine'.job) /\ Len(engine'.words) = 0)
    BY <1>1, <1>4, <1>8 DEF Runs
  <2>6. Len(engine'.work) = Len(Work(engine'.job)) - engine'.retired
        /\ \A i \in 1 .. Len(engine'.work) : engine'.work[i] = Work(engine'.job)[engine'.retired + i]
    BY <1>4, <1>6, <2>2, <2>3 DEF walk
  <2> QED BY <1>4, <1>6, <1>7, <1>8, <2>4, <2>5, <2>6 DEF Runs
<1>10. ASSUME HasRead(engine, Before) PROVE HasRead(engine', Before)
  <2>1. ASSUME ~engine'.job.solid, NEW i \in 1 .. Len(engine'.pixels),
               NEW l \in DOMAIN engine'.work[i]
        PROVE  engine'.pixels[i][l] = Before[engine'.work[i][l].from]
    <3>1. engine'.pixels[i] = engine.pixels[i + 1] /\ i + 1 \in 1 .. Len(engine.pixels)
          /\ engine'.work[i] = engine.work[i + 1]
      <4>1. i \in 1 .. n - 1
        BY <1>3, <1>7, <2>1
      <4>2. engine'.work[i] = engine.work[i + 1]
        BY <1>6, <4>1
      <4>3. engine'.pixels[i] = engine.pixels[i + 1] /\ i + 1 \in 1 .. Len(engine.pixels)
        BY <1>7, <2>1
      <4> QED BY <4>2, <4>3
    <3> QED BY <1>4, <1>10, <2>1, <3>1 DEF HasRead
  <2>2. ASSUME engine'.job.kind = "blend", NEW i \in 1 .. Len(engine'.words),
               NEW l \in DOMAIN engine'.work[i]
        PROVE  engine'.words[i][engine'.work[i][l].to] = Before[engine'.work[i][l].to]
    <3>1. engine'.words[i] = engine.words[i + 1] /\ i + 1 \in 1 .. Len(engine.words)
          /\ engine'.work[i] = engine.work[i + 1]
      <4>1. i \in 1 .. n - 1
        BY <1>3, <1>8, <2>2
      <4>2. engine'.work[i] = engine.work[i + 1]
        BY <1>6, <4>1
      <4>3. engine'.words[i] = engine.words[i + 1] /\ i + 1 \in 1 .. Len(engine.words)
        BY <1>8, <2>2
      <4> QED BY <4>2, <4>3
    <3> QED BY <1>4, <1>10, <2>2, <3>1 DEF HasRead
  <2> QED BY <2>1, <2>2 DEF HasRead
<1>11. ASSUME NEW a \in Addresses
       PROVE  a \in RetiredPixels(engine') <=>
                a \in RetiredPixels(engine) \/ \E l \in DOMAIN Unit : Unit[l].to = a
  <2>1. a \in RetiredPixels(engine) <=>
            \E i \in 1 .. r : \E l \in DOMAIN walk[i] : walk[i][l].to = a
    BY DEF RetiredPixels, r, walk
  <2>2. a \in RetiredPixels(engine') <=>
            \E i \in 1 .. r + 1 : \E l \in DOMAIN walk[i] : walk[i][l].to = a
    BY <1>4 DEF RetiredPixels, walk
  <2>3. /\ \A i \in 1 .. r + 1 : i \in 1 .. r \/ i = r + 1
        /\ r + 1 \in 1 .. r + 1 /\ \A i \in 1 .. r : i \in 1 .. r + 1
    BY <1>1
  <2> QED BY <1>3, <2>1, <2>2, <2>3
<1> QED BY <1>4, <1>5, <1>9, <1>10, <1>11 DEF d, r

\* A unit retires, and what its writes add to the queue is of its pixels.
LEMMA UnitRetires ==
    ASSUME Structure, engine # None, engine.work # << >>, engine' = Advance(engine),
           UNCHANGED <<queue, command, done_seen, batch, dram, completed, sent,
                       published, asked>>,
           NEW before, NEW after, Adds(writes, writes', Unit, before, after),
           Len(writes') <= QueueDepth
    PROVE  Structure'
<1> DEFINE n == Len(writes)
           more == Len(writes')
<1>1. /\ History' /\ Current' = Current
      /\ \A k : Picture(k)' = Picture(k) /\ PictureAfter(k)' = PictureAfter(k)
  BY HistoryKept DEF Structure
<1>2. engine' # None /\ Runs(engine', command.op, command.items[ItemsDone + 1])
  BY RetiredRuns
<1>3. ItemsDone' = ItemsDone
  BY <1>2 DEF ItemsDone
<1>4. Sequencer' /\ FlagSeen' /\ EngineRuns' /\ Counters'
  BY <1>1, <1>2, <1>3 DEF Structure, Sequencer, FlagSeen, EngineRuns, Counters
<1>5. command # None /\ ~done_seen /\ Current \in Nat /\ Current >= 1
  <2>1. command # None
    BY DEF Structure, Sequencer
  <2> QED BY <2>1, ItemsCounted DEF Structure, Sequencer
<1>6. sent \in Nat /\ published \in Nat /\ published <= sent /\ sent < Current
  BY <1>5 DEF Structure, Counters
<1>7. /\ IsSeq(writes) /\ DOMAIN dram = Addresses /\ IsPicture(dram)
      /\ \A i \in 1 .. n :
            /\ writes[i].fence \in Nat /\ DOMAIN writes[i].at \subseteq Addresses
            /\ writes[i].fence > 0 => /\ DOMAIN writes[i].at = {}
                                      /\ published <= writes[i].fence /\ writes[i].fence <= sent
      /\ \A i \in 1 .. n : \A m \in i .. n :
            writes[i].fence > 0 /\ writes[m].fence > 0 => writes[i].fence <= writes[m].fence
  BY DEF Structure, Queued
<1>8. /\ IsSeq(writes') /\ n <= more /\ \A i \in 1 .. n : writes'[i] = writes[i]
      /\ \A i \in n + 1 .. more : Depicts(writes'[i], Unit, after)
  BY DEF Adds
<1>9. n \in Nat /\ more \in Nat
  BY <1>7, <1>8, SeqFacts
<1>10. \A l \in DOMAIN Unit : Unit[l].to \in Addresses
  BY FirstUnit
<1> HIDE DEF n, more
<1>11. ASSUME NEW i \in 1 .. more
       PROVE  \/ i \in 1 .. n /\ writes'[i] = writes[i]
              \/ i \notin 1 .. n /\ writes'[i].fence = 0 /\ DOMAIN writes'[i].at \subseteq Addresses
  <2>1. CASE i \in 1 .. n
    BY <1>8, <2>1
  <2>2. CASE i \notin 1 .. n
    <3>1. i \in n + 1 .. more
      BY <1>9, <2>2
    <3> QED BY <1>8, <1>10, <2>2, <3>1 DEF Depicts
  <2> QED BY <2>1, <2>2
<1>12. \A i \in 1 .. more :
        /\ writes'[i].fence \in Nat /\ DOMAIN writes'[i].at \subseteq Addresses
        /\ writes'[i].fence > 0 =>
            /\ i \in 1 .. n /\ writes'[i] = writes[i] /\ DOMAIN writes'[i].at = {}
            /\ published <= writes'[i].fence /\ writes'[i].fence <= sent
  BY <1>7, <1>11
<1>13. ASSUME NEW i \in 1 .. more, NEW m \in i .. more
       PROVE  /\ writes'[i].fence > 0 /\ writes'[m].fence > 0 => writes'[i].fence <= writes'[m].fence
              /\ ~(writes'[i].fence = Current)
  <2>1. m \in 1 .. more
    BY <1>9
  <2>2. CASE writes'[i].fence > 0 /\ writes'[m].fence > 0
    <3>1. i \in 1 .. n /\ m \in 1 .. n /\ writes'[i] = writes[i] /\ writes'[m] = writes[m]
      BY <1>12, <2>1, <2>2
    <3>2. m \in i .. n
      BY <1>9, <3>1
    <3> QED BY <1>5, <1>6, <1>7, <1>12, <2>2, <3>1, <3>2
  <2>3. CASE ~(writes'[i].fence > 0 /\ writes'[m].fence > 0)
    BY <1>5, <1>6, <1>12, <2>3
  <2> QED BY <2>2, <2>3
<1>14. Queued'
  BY <1>1, <1>5, <1>6, <1>7, <1>8, <1>12, <1>13 DEF Queued, more
<1> QED BY <1>1, <1>4, <1>14 DEF Structure

\* What they add is the item's picture: nothing else changes in what the
\* pending writes make of DRAM.
LEMMA UnitLands ==
    ASSUME Structure, Content, engine # None, engine.work # << >>, engine' = Advance(engine),
           UNCHANGED <<queue, command, done_seen, batch, dram, completed, sent,
                       published, asked>>,
           Adds(writes, writes', Unit, Before, PictureAfter(ItemsDone + 1))
    PROVE  Content'
<1> DEFINE n == Len(writes)
           more == Len(writes')
           after == PictureAfter(ItemsDone + 1)
<1>1. /\ Current' = Current
      /\ \A k : Picture(k)' = Picture(k) /\ PictureAfter(k)' = PictureAfter(k)
  BY HistoryKept DEF Structure
<1>2. engine' # None
      /\ \A a \in Addresses : a \in RetiredPixels(engine') <=>
            a \in RetiredPixels(engine) \/ \E l \in DOMAIN Unit : Unit[l].to = a
  BY RetiredRuns
<1>3. ItemsDone' = ItemsDone
  BY <1>2 DEF ItemsDone
<1>4. Before' = Before
  BY <1>1, <1>3 DEF Before
<1>5. HasRead(engine', Before)
  BY RetiredRuns DEF Content, ReadAhead
<1>6. ReadAhead'
  BY <1>4, <1>5 DEF ReadAhead
<1>7. /\ IsSeq(writes') /\ n <= more /\ \A i \in 1 .. n : writes'[i] = writes[i]
      /\ \A i \in n + 1 .. more : Depicts(writes'[i], Unit, after)
      /\ \A l \in DOMAIN Unit :
            \/ after[Unit[l].to] = Before[Unit[l].to]
            \/ \E i \in n + 1 .. more : Unit[l].to \in DOMAIN writes'[i].at
  BY DEF Adds
<1>8. IsSeq(writes) /\ n \in Nat /\ more \in Nat
  BY <1>7, SeqFacts DEF Structure, Queued
<1> HIDE DEF n, more, after
<1>9. ASSUME NEW a \in Addresses
      PROVE  Settles(writes, dram, a, Value(a))'
  <2> DEFINE u == Value(a)
             v == IF a \in RetiredPixels(engine') THEN after[a] ELSE Before[a]
  <2>1. Value(a)' = v
    BY <1>1, <1>2, <1>3, <1>4 DEF Value, after
  <2>2. u = IF a \in RetiredPixels(engine) THEN after[a] ELSE Before[a]
    BY DEF Value, after
  <2>3. Settles(writes, dram, a, u)
    BY DEF Content, Landing
  <2>4. ASSUME NEW i \in n + 1 .. more, a \in DOMAIN writes'[i].at
        PROVE  writes'[i].at[a] = v
    <3>1. \E l \in DOMAIN Unit : a = Unit[l].to /\ writes'[i].at[a] = after[a]
      BY <1>7, <2>4 DEF Depicts
    <3> QED BY <1>2, <3>1
  <2>5. u = v \/ \E i \in n + 1 .. more : a \in DOMAIN writes'[i].at
    <3>1. CASE \E l \in DOMAIN Unit : Unit[l].to = a
      BY <1>2, <1>7, <2>2, <3>1
    <3>2. CASE ~\E l \in DOMAIN Unit : Unit[l].to = a
      BY <1>2, <2>2, <3>2
    <3> QED BY <3>1, <3>2
  <2> HIDE DEF u, v
  <2>6. Settles(writes', dram, a, v)
    BY <1>7, <1>8, <2>3, <2>4, <2>5, SettlesMore DEF n, more
  <2>7. dram' = dram
    OBVIOUS
  <2> QED BY <2>1, <2>6, <2>7
<1>10. ASSUME NEW a \in Addresses, Covers(writes, a)'
       PROVE  \/ a \in RetiredPixels(engine')
              \/ \E j \in 1 .. ItemsDone : Inside(Target(command.items[j]), a) /\ Undrained(j)
  <2>1. PICK i \in 1 .. more : a \in DOMAIN writes'[i].at
    BY <1>10 DEF Covers, more
  <2>2. CASE i \in 1 .. n
    <3>1. Covers(writes, a)
      BY <1>7, <2>1, <2>2 DEF Covers, n
    <3> QED BY <1>2, <3>1 DEF Content, Origin
  <2>3. CASE i \notin 1 .. n
    <3>1. i \in n + 1 .. more
      BY <1>8, <2>3
    <3>2. \E l \in DOMAIN Unit : a = Unit[l].to
      BY <1>7, <2>1, <3>1 DEF Depicts
    <3> QED BY <1>2, <3>2
  <2> QED BY <2>2, <2>3
<1>11. Origin'
  BY <1>2, <1>3, <1>10 DEF Origin, Undrained
<1>12. Landing'
  BY <1>9 DEF Landing
<1> QED BY <1>6, <1>11, <1>12 DEF Content

\* The source pixels of the first unit.
LEMMA SourcesKnown ==
    ASSUME Structure, engine # None, engine.work # << >>, SourceReady
    PROVE  /\ DOMAIN Sources = DOMAIN Unit
           /\ HasRead(engine, Before) => \A l \in DOMAIN Unit :
                Sources[l] = Sourced(engine.job, Unit[l], Before)
<1> DEFINE colours == [l \in DOMAIN Unit |-> engine.job.word.colour]
<1>1. CASE engine.job.solid
  <2>1. Sources = colours
    BY <1>1 DEF Sources
  <2>2. DOMAIN colours = DOMAIN Unit /\ \A l \in DOMAIN Unit : colours[l] = engine.job.word.colour
    OBVIOUS
  <2> HIDE DEF colours
  <2> QED BY <1>1, <2>1, <2>2 DEF Sourced
<1>2. CASE ~engine.job.solid
  <2>1. Sources = engine.pixels[1] /\ engine.pixels # << >>
    BY <1>2 DEF Sources, SourceReady
  <2>2. Runs(engine, command.op, command.items[ItemsDone + 1])
    BY RunningTask
  <2>3. IsSeq(engine.pixels)
    BY <2>2 DEF Runs
  <2>4. Len(engine.pixels) \in Nat /\ Len(engine.pixels) > 0 /\ 1 \in 1 .. Len(engine.pixels)
    BY <2>1, <2>3, SeqFacts
  <2>5. DOMAIN engine.pixels[1] = DOMAIN Unit
    BY <2>2, <2>4 DEF Runs, Unit
  <2>6. HasRead(engine, Before) => \A l \in DOMAIN Unit :
            engine.pixels[1][l] = Before[Unit[l].from]
    BY <1>2, <2>4 DEF HasRead, Unit
  <2> QED BY <1>2, <2>1, <2>5, <2>6 DEF Sourced
<1> QED BY <1>1, <1>2

LEMMA EngineKinds ==
    ASSUME Structure, engine # None
    PROVE  /\ engine.job.kind \in {"fill", "copy", "copy64", "blend"}
           /\ engine.job.kind = "fill" => ~engine.job.key
           /\ engine.job.kind # "blend" => /\ engine.job.modulation = "identity"
                                           /\ engine.job.mode = "none"
<1> DEFINE d == command.items[ItemsDone + 1]
<1>1. IsItem(command.op, d) /\ Runs(engine, command.op, d)
  BY RunningTask
<1> HIDE DEF d
<1>2. command.op \in Opcodes /\ engine.job = Job(command.op, d)
  BY <1>1 DEF IsItem, Runs
<1> QED BY <1>1, <1>2, JobKinds

LEMMA EmitStep ==
    ASSUME Structure, Emit
    PROVE  Structure' /\ (Content => Content')
<1>1. /\ engine # None /\ engine.work # << >> /\ SourceReady
      /\ engine.job.kind = "blend" => engine.words # << >>
      /\ Len(writes) + Len(UnitWrites) <= QueueDepth
      /\ writes' = writes \o UnitWrites /\ engine' = Advance(engine)
      /\ UNCHANGED <<queue, command, done_seen, batch, dram, completed, sent,
                     published, asked>>
  BY DEF Emit, Working, ReadsDestination
<1>2. /\ DOMAIN Unit = {1} \/ DOMAIN Unit = {1, 2}
      /\ Len(Unit) \in {1, 2} /\ DOMAIN Unit = 1 .. Len(Unit)
      /\ \A l, m \in DOMAIN Unit : Unit[l].to = Unit[m].to => l = m
  BY <1>1, FirstUnit
<1>3. DOMAIN Sources = DOMAIN Unit
  BY <1>1, SourcesKnown
<1>4. IsSeq(writes)
  BY DEF Structure, Queued
<1>5. ASSUME NEW before, NEW after,
             \A l \in DOMAIN Unit : after[Unit[l].to] =
                Made(engine.job, Sources[l], before[Unit[l].to]),
             engine.job.kind = "blend" => \A l \in DOMAIN Unit :
                engine.words[1][Unit[l].to] = before[Unit[l].to]
      PROVE  Adds(writes, writes', Unit, before, after) /\ Len(writes') <= QueueDepth
  <2>1. /\ Adds(writes, writes \o UnitWrites, Unit, before, after)
        /\ Len(writes \o UnitWrites) = Len(writes) + Len(UnitWrites)
    BY <1>1, <1>2, <1>3, <1>4, <1>5, EngineKinds, UnitAdds
  <2> DEFINE more == writes \o UnitWrites
  <2>2. Len(writes') = Len(writes) + Len(UnitWrites) /\ Adds(writes, writes', Unit, before, after)
    <3>1. writes' = more
      BY <1>1
    <3>2. Adds(writes, more, Unit, before, after) /\ Len(more) = Len(writes) + Len(UnitWrites)
      BY <2>1
    <3> HIDE DEF more
    <3> QED BY <3>1, <3>2
  <2> QED BY <1>1, <2>2
<1>6. Structure'
  <2> DEFINE before == engine.words[1]
             lane(a) == CHOOSE l \in DOMAIN Unit : Unit[l].to = a
             after == [a \in {Unit[l].to : l \in DOMAIN Unit} |->
                            Made(engine.job, Sources[lane(a)], before[a])]
  <2>1. ASSUME NEW l \in DOMAIN Unit
        PROVE  after[Unit[l].to] = Made(engine.job, Sources[l], before[Unit[l].to])
    <3>1. lane(Unit[l].to) \in DOMAIN Unit /\ Unit[lane(Unit[l].to)].to = Unit[l].to
      OBVIOUS
    <3>2. lane(Unit[l].to) = l
      <4> HIDE DEF lane
      <4> QED BY <1>2, <3>1
    <3>3. after[Unit[l].to] = Made(engine.job, Sources[lane(Unit[l].to)], before[Unit[l].to])
      <4> HIDE DEF lane, before
      <4> QED OBVIOUS
    <3> HIDE DEF lane, after, before
    <3> QED BY <3>2, <3>3
  <2>2. \A l \in DOMAIN Unit : engine.words[1][Unit[l].to] = before[Unit[l].to]
    OBVIOUS
  <2> HIDE DEF before, after
  <2>3. Adds(writes, writes', Unit, before, after) /\ Len(writes') <= QueueDepth
    BY <1>5, <2>1, <2>2
  <2> QED BY <1>1, <2>3, UnitRetires
<1>7. ASSUME Content PROVE Content'
  <2> DEFINE after == PictureAfter(ItemsDone + 1)
  <2>1. HasRead(engine, Before)
    BY <1>1, <1>7 DEF Content, ReadAhead
  <2>2. \A l \in DOMAIN Unit : Sources[l] = Sourced(engine.job, Unit[l], Before)
    BY <1>1, <2>1, SourcesKnown
  <2>3. \A l \in DOMAIN Unit : after[Unit[l].to] =
            Made(engine.job, Sources[l], Before[Unit[l].to])
    BY <1>1, <2>2, FirstUnit
  <2>4. ASSUME engine.job.kind = "blend", NEW l \in DOMAIN Unit
        PROVE  engine.words[1][Unit[l].to] = Before[Unit[l].to]
    <3>1. Runs(engine, command.op, command.items[ItemsDone + 1])
      BY <1>1, RunningTask
    <3>2. IsSeq(engine.words)
      BY <3>1 DEF Runs
    <3>3. 1 \in 1 .. Len(engine.words)
      BY <1>1, <2>4, <3>2, SeqFacts
    <3> QED BY <2>1, <2>4, <3>3 DEF HasRead, Unit
  <2> HIDE DEF after
  <2>5. Adds(writes, writes', Unit, Before, after)
    BY <1>5, <2>3, <2>4
  <2> QED BY <1>1, <1>7, <2>5, UnitLands DEF after
<1> QED BY <1>6, <1>7

LEMMA EmitFastStep ==
    ASSUME Structure, EmitFast
    PROVE  Structure' /\ (Content => Content')
<1>1. /\ engine # None /\ engine.fast /\ engine.work # << >> /\ SourceReady
      /\ \/ AllAlpha("zero") /\ writes' = writes
         \/ AllAlpha("opaque") /\ Len(writes) < QueueDepth /\ writes' = Append(writes, Store64)
      /\ engine' = Advance(engine)
      /\ UNCHANGED <<queue, command, done_seen, batch, dram, completed, sent,
                     published, asked>>
  BY DEF EmitFast, Working
<1>2. \A l, m \in DOMAIN Unit : Unit[l].to = Unit[m].to => l = m
  BY <1>1, FirstUnit
<1>3. DOMAIN Sources = DOMAIN Unit
  BY <1>1, SourcesKnown
<1>4. IsSeq(writes) /\ Len(writes) \in Nat /\ Len(writes) <= QueueDepth /\ QueueDepth \in Nat
  BY SeqFacts, DrawsAssumption DEF Structure, Queued
<1>5. ASSUME NEW before, NEW after,
             \A l \in DOMAIN Unit :
                /\ AllAlpha("zero") => after[Unit[l].to] = before[Unit[l].to]
                /\ AllAlpha("opaque") => after[Unit[l].to] = Sources[l]
      PROVE  Adds(writes, writes', Unit, before, after) /\ Len(writes') <= QueueDepth
  <2>1. CASE AllAlpha("zero") /\ writes' = writes
    <3>1. Adds(writes, writes, Unit, before, after)
      BY <1>4, <1>5, <2>1, AddsNone
    <3> QED BY <1>4, <2>1, <3>1
  <2>2. CASE AllAlpha("opaque") /\ Len(writes) < QueueDepth /\ writes' = Append(writes, Store64)
    <3>1. \A l \in DOMAIN Sources : Sources[l] = after[Unit[l].to]
      BY <1>3, <1>5, <2>2
    <3>2. Depicts(Store64, Unit, after) /\ \A l \in DOMAIN Unit : Unit[l].to \in DOMAIN Store64.at
      BY <1>2, <1>3, <3>1, WrittenDepicts DEF Store64
    <3>3. Adds(writes, Append(writes, Store64), Unit, before, after)
      BY <1>4, <3>2, AddsOne
    <3>4. Len(Append(writes, Store64)) = Len(writes) + 1
      BY <1>4, AppendFacts
    <3> DEFINE more == Append(writes, Store64)
    <3>5. writes' = more /\ Len(more) = Len(writes) + 1 /\ Adds(writes, more, Unit, before, after)
      BY <2>2, <3>3, <3>4
    <3> HIDE DEF more
    <3> QED BY <1>4, <2>2, <3>5
  <2> QED BY <1>1, <2>1, <2>2
<1>6. Structure'
  <2> DEFINE lane(a) == CHOOSE l \in DOMAIN Unit : Unit[l].to = a
             after == [a \in {Unit[l].to : l \in DOMAIN Unit} |-> Sources[lane(a)]]
  <2>1. ASSUME NEW l \in DOMAIN Unit PROVE after[Unit[l].to] = Sources[l]
    <3>1. lane(Unit[l].to) \in DOMAIN Unit /\ Unit[lane(Unit[l].to)].to = Unit[l].to
      OBVIOUS
    <3>2. lane(Unit[l].to) = l
      <4> HIDE DEF lane
      <4> QED BY <1>2, <3>1
    <3>3. after[Unit[l].to] = Sources[lane(Unit[l].to)]
      <4> HIDE DEF lane
      <4> QED OBVIOUS
    <3> HIDE DEF lane, after
    <3> QED BY <3>2, <3>3
  <2> HIDE DEF after
  <2>2. Adds(writes, writes', Unit, after, after) /\ Len(writes') <= QueueDepth
    BY <1>5, <2>1
  <2> QED BY <1>1, <2>2, UnitRetires
<1>7. ASSUME Content PROVE Content'
  <2> DEFINE after == PictureAfter(ItemsDone + 1)
  <2>1. HasRead(engine, Before)
    BY <1>1, <1>7 DEF Content, ReadAhead
  <2>2. \A l \in DOMAIN Unit : Sources[l] = Sourced(engine.job, Unit[l], Before)
    BY <1>1, <2>1, SourcesKnown
  <2>3. \A l \in DOMAIN Unit : after[Unit[l].to] =
            Made(engine.job, Sources[l], Before[Unit[l].to])
    BY <1>1, <2>2, FirstUnit
  <2>4. Runs(engine, command.op, command.items[ItemsDone + 1])
    BY <1>1, RunningTask
  <2>5. FastAlpha(engine.job)
    BY <1>1, <2>4 DEF Runs
  <2>6. \A l \in DOMAIN Unit :
            /\ Sources[l].alpha = "zero" => after[Unit[l].to] = Before[Unit[l].to]
            /\ Sources[l].alpha = "opaque" => after[Unit[l].to] = Sources[l]
    BY <2>3, <2>5 DEF FastAlpha, Made, Keyed, Combine, Modulated
  <2> HIDE DEF after
  <2>7. \A l \in DOMAIN Unit :
            /\ AllAlpha("zero") => after[Unit[l].to] = Before[Unit[l].to]
            /\ AllAlpha("opaque") => after[Unit[l].to] = Sources[l]
    BY <2>6 DEF AllAlpha
  <2>8. Adds(writes, writes', Unit, Before, after)
    BY <1>5, <2>7
  <2> QED BY <1>1, <1>7, <2>8, UnitLands DEF after
<1> QED BY <1>6, <1>7

\* Whose done counts: a command's, and of a batch none of its items'.
LEMMA DoneCounts ==
    ASSUME Structure, engine # None
    PROVE  CountsAsCommand(engine.job.kind) <=> batch.state = "idle"
<1> DEFINE d == command.items[ItemsDone + 1]
<1>1. IsItem(command.op, d) /\ Runs(engine, command.op, d) /\ command # None
  BY RunningTask
<1> HIDE DEF d
<1>2. command.op \in Opcodes /\ engine.job = Job(command.op, d)
  BY <1>1 DEF IsItem, Runs
<1>3. /\ engine.job.kind \in {"fill", "copy", "copy64", "blend"}
      /\ engine.job.kind = "fill" => command.op \in {"SOLID_FILL", "FILL_BATCH"}
      /\ engine.job.kind = "copy" => command.op \in {"BLIT_COPY", "BLIT_COPY_KEY"}
      /\ engine.job.kind = "copy64" => command.op = "SPRITE_BATCH"
      /\ engine.job.kind = "blend" => command.op \in {"BLIT_BLEND", "BLEND_FILL", "SPRITE_BATCH"}
  BY <1>1, <1>2, JobKinds
<1>4. batch.state = "idle" <=> command.op \notin BatchOps
  BY <1>1 DEF Structure, Sequencer
<1> QED BY <1>3, <1>4 DEF CountsAsCommand, BatchOps

LEMMA EngineDoneStep ==
    ASSUME Structure, EngineDone
    PROVE  Structure' /\ (Content => Content')
<1> DEFINE k == ItemsDone + 1
           d == command.items[k]
           n == Total(engine.job)
           walk == Work(engine.job)
<1>1. /\ engine # None /\ engine.retired = n /\ engine' = None
      /\ UNCHANGED <<queue, command, dram, writes, sent, published, asked>>
  BY DEF EngineDone, Working
<1>2. /\ command # None /\ command \in Commands
      /\ ItemsDone \in Nat /\ k \in 1 .. Len(command.items)
      /\ n \in Nat /\ IsTask(command.op, d, Before, PictureAfter(k), walk, n)
  BY <1>1, RunningTask
<1>3. /\ History' /\ Current' = Current
      /\ \A i : Picture(i)' = Picture(i) /\ PictureAfter(i)' = PictureAfter(i)
  BY <1>1, HistoryKept DEF Structure
<1>4. ~done_seen /\ Current \in Nat /\ Len(command.items) \in Nat
  BY <1>1, <1>2, ItemsCounted DEF Structure, Sequencer
<1>5. published <= completed /\ completed = Current - 1 /\ completed \in Nat /\ published \in Nat
  BY <1>2, <1>4 DEF Structure, Counters
<1>6. /\ ItemsDone' = k /\ Sequencer' /\ FlagSeen' /\ Counters'
  <2>1. CASE batch.state = "idle"
    <3>1. completed' = completed + 1 /\ done_seen' = TRUE /\ batch' = batch
      BY <1>1, <2>1, DoneCounts DEF EngineDone
    <3>2. command.op \notin BatchOps
      BY <1>1, <1>2, <2>1 DEF Structure, Sequencer
    <3>3. ItemsDone' = 1 /\ ItemsDone = 0
      BY <1>1, <3>2 DEF ItemsDone
    <3>4. Sequencer' /\ FlagSeen'
      BY <1>1, <1>2, <2>1, <3>1, <3>2 DEF Structure, Sequencer, FlagSeen, BatchOps
    <3>5. Counters'
      BY <1>1, <1>2, <1>3, <1>4, <1>5, <3>1 DEF Structure, Counters
    <3> QED BY <3>3, <3>4, <3>5
  <2>2. CASE batch.state # "idle"
    <3>1. ~CountsAsCommand(engine.job.kind)
      BY <1>1, <2>2, DoneCounts
    <3>2. completed' = completed + 0 /\ done_seen' = done_seen
      BY <2>2, <3>1 DEF EngineDone
    <3>3. /\ command.op \in BatchOps /\ batch \in BatchRecord /\ batch.state = "run"
          /\ batch.index \in 1 .. Len(command.items) /\ ItemsDone = batch.index - 1
      BY <1>1, <2>2, BatchItem
    <3>4. Counters'
      BY <1>1, <1>2, <1>3, <1>4, <1>5, <3>2 DEF Structure, Counters
    <3>5. command.op = "SPRITE_BATCH" =>
            (batch.prev_flagged <=> Flagged(command.items[batch.index]))
      BY <1>2, <3>3 DEF Structure, FlagSeen
    <3>6. k = batch.index
      BY <3>3
    <3> HIDE DEF k
    <3>7. CASE batch.index < Len(command.items)
      <4> DEFINE next == batch.index + 1
      <4>1. batch' = [batch EXCEPT !.state = "fetch", !.index = next]
        BY <2>2, <3>7 DEF EngineDone
      <4>2. "fetch" \in States /\ next \in Nat /\ next - 1 = batch.index
            /\ next \in 1 .. Len(command.items) /\ next > 1
        BY <1>4, <3>3, <3>7 DEF States
      <4> HIDE DEF next
      <4>3. /\ batch' \in BatchRecord /\ batch'.state = "fetch" /\ batch'.index = next
            /\ batch'.prev_flagged = batch.prev_flagged
        BY <3>3, <4>1, <4>2, BatchNext, ZenonT(60)
      <4>4. ItemsDone' = k
        BY <1>1, <3>3, <3>6, <4>2, <4>3 DEF ItemsDone
      <4>5. Sequencer' /\ FlagSeen'
        BY <1>1, <1>2, <1>4, <3>2, <3>3, <3>5, <4>2, <4>3
           DEF Structure, Sequencer, FlagSeen, BatchRecord
      <4> QED BY <3>4, <4>4, <4>5
    <3>8. CASE ~(batch.index < Len(command.items))
      <4>1. batch' = [batch EXCEPT !.state = "finish"]
        BY <2>2, <3>8 DEF EngineDone
      <4>2. "finish" \in States /\ batch.index = Len(command.items)
        BY <1>4, <3>3, <3>8 DEF States
      <4>3. /\ batch' \in BatchRecord /\ batch'.state = "finish" /\ batch'.index = batch.index
            /\ batch'.prev_flagged = batch.prev_flagged
        BY <3>3, <4>1, <4>2, BatchFields
      <4>4. ItemsDone' = k
        BY <1>1, <3>3, <3>6, <4>3 DEF ItemsDone
      <4>5. Sequencer' /\ FlagSeen'
        BY <1>1, <1>2, <1>4, <3>2, <3>3, <3>5, <4>2, <4>3
           DEF Structure, Sequencer, FlagSeen, BatchRecord
      <4> QED BY <3>4, <4>4, <4>5
    <3> QED BY <3>7, <3>8
  <2> QED BY <2>1, <2>2
<1>7. EngineRuns' /\ Queued'
  BY <1>1, <1>2, <1>3, <1>5 DEF Structure, EngineRuns, Queued
<1> HIDE DEF n, walk
<1>8. ASSUME NEW a \in Addresses
      PROVE  /\ a \in RetiredPixels(engine) => Inside(Target(d), a)
             /\ a \notin RetiredPixels(engine) => PictureAfter(k)[a] = Before[a]
  <2>1. a \in RetiredPixels(engine) <=>
            \E i \in 1 .. n : \E l \in DOMAIN walk[i] : walk[i][l].to = a
    BY <1>1 DEF RetiredPixels, walk
  <2>2. /\ \A i \in 1 .. n : \A l \in DOMAIN walk[i] : Inside(Target(d), walk[i][l].to)
        /\ (\A i \in 1 .. n : \A l \in DOMAIN walk[i] : walk[i][l].to # a)
                => PictureAfter(k)[a] = Before[a]
    <3> HIDE DEF d, k
    <3> QED BY <1>2 DEF IsTask
  <2> HIDE DEF d, k
  <2> QED BY <2>1, <2>2
<1>9. Before' = PictureAfter(k)
  <2>1. command' # None /\ ItemsDone' = k
    BY <1>1, <1>2, <1>6
  <2>2. PictureAfter(ItemsDone)' = PictureAfter(k)
    <3> HIDE DEF k
    <3> QED BY <1>1, <1>3, <2>1 DEF PictureAfter, Picture
  <2> QED BY <1>1, <2>1, <2>2 DEF Before
<1>10. ASSUME Content PROVE Landing'
  <2>1. ASSUME NEW a \in Addresses PROVE Value(a)' = Value(a)
    BY <1>1, <1>8, <1>9 DEF Value
  <2> QED BY <1>1, <1>10, <2>1 DEF Content, Landing
<1>11. ASSUME Content PROVE Origin'
  <2> SUFFICES ASSUME NEW a \in Addresses, Covers(writes, a)
               PROVE  \E j \in 1 .. k : Inside(Target(command.items[j]), a) /\ Undrained(j)'
    BY <1>1, <1>6 DEF Origin
  <2>1. CASE a \in RetiredPixels(engine)
    <3>1. PICK j \in 1 .. k : j = k
      BY <1>2
    <3>2. Undrained(j)'
      BY <1>1, <1>6, <3>1 DEF Undrained
    <3>3. Inside(Target(command.items[j]), a)
      BY <1>8, <2>1, <3>1
    <3> QED BY <3>2, <3>3
  <2>2. CASE a \notin RetiredPixels(engine)
    <3>1. PICK j \in 1 .. ItemsDone : Inside(Target(command.items[j]), a) /\ Undrained(j)
      BY <1>11, <2>2 DEF Content, Origin
    <3>2. command.op = "SPRITE_BATCH" => \A m \in j .. k : ~Flagged(command.items[m])
      BY <1>1, <3>1 DEF Undrained
    <3>3. Undrained(j)'
      BY <1>1, <1>6, <3>2 DEF Undrained
    <3>4. j \in 1 .. k
      BY <1>2
    <3> QED BY <3>1, <3>3, <3>4
  <2> QED BY <2>1, <2>2
<1>12. ReadAhead'
  BY <1>1 DEF ReadAhead
<1> QED BY <1>3, <1>6, <1>7, <1>10, <1>11, <1>12 DEF Structure, Content

-----------------------------------------------------------------------------
(* The adapter and the fence.                                              *)

\* A write leaves in a step that moves, of the rest, the batch at most.
LEMMA WriteLeavesStep ==
    ASSUME Structure, writes # << >>, WriteLeaves,
           UNCHANGED <<queue, command, done_seen, engine, completed, sent, asked>>,
           ItemsDone' = ItemsDone, Sequencer', FlagSeen'
    PROVE  Structure' /\ (Content => Content')
<1> DEFINE n == Len(writes)
           at == writes[1].at
           fence == writes[1].fence
<1>1. /\ writes # << >> /\ writes' = Tail(writes)
      /\ dram' = [a \in DOMAIN dram \cup DOMAIN Head(writes).at |->
                    IF a \in DOMAIN Head(writes).at THEN Head(writes).at[a] ELSE dram[a]]
      /\ published' = IF Head(writes).fence > 0 THEN Head(writes).fence ELSE published
      /\ UNCHANGED <<queue, command, done_seen, engine, completed, sent, asked>>
  BY DEF WriteLeaves
<1>2. /\ IsSeq(writes) /\ DOMAIN dram = Addresses
      /\ \A i \in 1 .. n :
            /\ writes[i].fence \in Nat /\ DOMAIN writes[i].at \subseteq Addresses
            /\ writes[i].fence > 0 => /\ DOMAIN writes[i].at = {}
                                      /\ published <= writes[i].fence /\ writes[i].fence <= sent
      /\ \A i \in 1 .. n : \A m \in i .. n :
            /\ writes[i].fence > 0 /\ writes[m].fence > 0 => writes[i].fence <= writes[m].fence
            /\ writes[i].fence = Current /\ Current > 0 => DOMAIN writes[m].at = {}
      /\ (published = Current \/ command = None) => \A i \in 1 .. n : DOMAIN writes[i].at = {}
      /\ n <= QueueDepth
  BY DEF Structure, Queued
<1>3. n \in Nat /\ n > 0 /\ 1 \in 1 .. n
  BY <1>1, <1>2, SeqFacts
<1>4. /\ Head(writes) = writes[1] /\ IsSeq(writes') /\ Len(writes') = n - 1
      /\ \A i \in 1 .. n - 1 : writes'[i] = writes[i + 1]
  BY <1>1, <1>2, <1>3, TailFacts
<1>5. /\ dram' = [a \in Addresses |-> IF a \in DOMAIN at THEN at[a] ELSE dram[a]]
      /\ published' = IF fence > 0 THEN fence ELSE published
  <2>1. Addresses \cup DOMAIN at = Addresses
    BY <1>2, <1>3
  <2> QED BY <1>1, <1>2, <1>4, <2>1
<1>6. /\ History' /\ Current' = Current
      /\ \A k : Picture(k)' = Picture(k) /\ PictureAfter(k)' = PictureAfter(k)
  BY <1>1, HistoryKept DEF Structure
<1>7. ItemsDone' = ItemsDone /\ Before' = Before
  BY <1>1, <1>6 DEF Before
<1>8. Sequencer' /\ FlagSeen' /\ EngineRuns'
  BY <1>1, <1>7 DEF Structure, EngineRuns
<1>9. published \in Nat /\ sent \in Nat /\ completed \in Nat /\ published <= sent
      /\ sent <= completed
  BY DEF Structure, Counters
<1>10. fence \in Nat /\ (fence > 0 => published <= fence /\ fence <= sent)
  BY <1>2, <1>3
<1>11. published' \in Nat /\ published' <= sent
  BY <1>5, <1>9, <1>10
<1>12. Counters'
  BY <1>1, <1>6, <1>11 DEF Structure, Counters
<1>13. Current \in Nat
  BY SeqFacts DEF Structure, History, Current, Submitted
<1>14. \A i \in 1 .. n - 1 : i + 1 \in 1 .. n
  BY <1>3
<1>15. \A i \in 1 .. n - 1 :
        /\ writes'[i].fence \in Nat /\ DOMAIN writes'[i].at \subseteq Addresses
        /\ writes'[i].fence > 0 => /\ DOMAIN writes'[i].at = {}
                                   /\ published' <= writes'[i].fence /\ writes'[i].fence <= sent
  <2> SUFFICES ASSUME NEW i \in 1 .. n - 1
               PROVE  /\ writes'[i].fence \in Nat /\ DOMAIN writes'[i].at \subseteq Addresses
                      /\ writes'[i].fence > 0 =>
                            /\ DOMAIN writes'[i].at = {}
                            /\ published' <= writes'[i].fence /\ writes'[i].fence <= sent
    OBVIOUS
  <2> DEFINE w == writes[i + 1]
  <2>1. writes'[i] = w
    BY <1>4
  <2>2. /\ w.fence \in Nat /\ DOMAIN w.at \subseteq Addresses
        /\ w.fence > 0 => DOMAIN w.at = {} /\ published <= w.fence /\ w.fence <= sent
        /\ fence > 0 /\ w.fence > 0 => fence <= w.fence
    BY <1>2, <1>3, <1>14
  <2> HIDE DEF w, fence
  <2> QED BY <1>5, <2>1, <2>2
<1>16. \A i \in 1 .. n - 1 : \A m \in i .. n - 1 :
        /\ writes'[i].fence > 0 /\ writes'[m].fence > 0 => writes'[i].fence <= writes'[m].fence
        /\ writes'[i].fence = Current /\ Current > 0 => DOMAIN writes'[m].at = {}
  <2> SUFFICES ASSUME NEW i \in 1 .. n - 1, NEW m \in i .. n - 1
               PROVE  /\ writes'[i].fence > 0 /\ writes'[m].fence > 0
                            => writes'[i].fence <= writes'[m].fence
                      /\ writes'[i].fence = Current /\ Current > 0 => DOMAIN writes'[m].at = {}
    OBVIOUS
  <2>1. i + 1 \in 1 .. n /\ m + 1 \in i + 1 .. n /\ m \in 1 .. n - 1
    BY <1>3
  <2> QED BY <1>2, <1>4, <2>1
<1>17. published' = Current \/ command = None =>
        \A i \in 1 .. n - 1 : DOMAIN writes'[i].at = {}
  <2> SUFFICES ASSUME published' = Current \/ command = None, NEW i \in 1 .. n - 1
               PROVE  DOMAIN writes[i + 1].at = {}
    BY <1>4
  <2>1. CASE published = Current \/ command = None
    BY <1>2, <1>14, <2>1
  <2>2. CASE ~(published = Current \/ command = None)
    <3>1. fence > 0 /\ fence = Current
      BY <1>5, <2>2
    <3> QED BY <1>2, <1>3, <1>14, <3>1
  <2> QED BY <2>1, <2>2
<1>18. IsPicture(dram') /\ DOMAIN dram' = Addresses
  BY <1>5, AddressesInt DEF IsPicture
<1>19. Queued'
  <2>1. n - 1 <= QueueDepth
    BY <1>2, <1>3, DrawsAssumption
  <2> QED BY <1>1, <1>4, <1>6, <1>15, <1>16, <1>17, <1>18, <2>1 DEF Queued
<1>20. ASSUME Content PROVE Content'
  <2>1. \A a : Value(a)' = Value(a)
    BY <1>1, <1>6, <1>7 DEF Value
  <2>2. ASSUME NEW a \in Addresses PROVE Settles(writes', dram', a, Value(a))
    <3>1. dram'[a] = IF a \in DOMAIN writes[1].at THEN writes[1].at[a] ELSE dram[a]
      BY <1>5
    <3>2. Settles(writes, dram, a, Value(a))
      BY <1>20 DEF Content, Landing
    <3>3. Settles(Tail(writes), dram', a, Value(a))
      BY <1>2, <1>3, <3>1, <3>2, SettlesTail
    <3> QED BY <1>1, <3>3
  <2>3. \A a \in Addresses : Settles(writes, dram, a, Value(a))'
    BY <2>1, <2>2
  <2>4. ASSUME NEW a \in Addresses, Covers(writes, a)' PROVE Covers(writes, a)
    <3>1. PICK i \in 1 .. n - 1 : a \in DOMAIN writes'[i].at
      BY <1>4, <2>4 DEF Covers
    <3> QED BY <1>4, <1>14, <3>1 DEF Covers
  <2>5. Origin'
    BY <1>1, <1>7, <1>20, <2>4 DEF Content, Origin, Undrained, RetiredPixels
  <2>6. ReadAhead'
    BY <1>1, <1>7, <1>20 DEF Content, ReadAhead
  <2> QED BY <2>3, <2>5, <2>6 DEF Content, Landing
<1> QED BY <1>6, <1>8, <1>12, <1>19, <1>20 DEF Structure

LEMMA DrainWriteStep ==
    ASSUME Structure, DrainWrite
    PROVE  Structure' /\ (Content => Content')
<1>1. /\ writes # << >> /\ WriteLeaves
      /\ UNCHANGED <<queue, command, done_seen, batch, engine, completed, sent, asked>>
  BY DEF DrainWrite, MemoryIdle
<1>2. ItemsDone' = ItemsDone
  BY <1>1 DEF ItemsDone
<1>3. Sequencer' /\ FlagSeen'
  BY <1>1 DEF Structure, Sequencer, FlagSeen
<1> QED BY <1>1, <1>2, <1>3, WriteLeavesStep

LEMMA FetchWordStep ==
    ASSUME Structure, FetchWord
    PROVE  Structure' /\ (Content => Content')
<1>1. /\ batch.state = "fetch" /\ batch \in BatchRecord
      /\ UNCHANGED <<queue, command, done_seen, engine, completed, sent, asked>>
  BY BatchItem DEF FetchWord
<1>2. /\ command # None /\ command.op \in BatchOps /\ engine = None /\ ItemsDone = batch.index - 1
      /\ ~done_seen /\ batch.index \in 1 .. Len(command.items)
  BY <1>1, BatchItem
<1>3. /\ batch' \in BatchRecord /\ batch'.state \in {"fetch", "launch"}
      /\ batch'.index = batch.index /\ batch'.prev_flagged = batch.prev_flagged
  <2> DEFINE next == batch.word + 1
  <2>1. batch.word \in Nat /\ next \in Nat
    BY <1>1 DEF BatchRecord
  <2>2. \/ batch' = [batch EXCEPT !.word = next]
        \/ batch' = [batch EXCEPT !.state = "launch", !.word = 0]
    BY DEF FetchWord
  <2>3. "launch" \in States /\ 0 \in Nat
    BY DEF States
  <2> HIDE DEF next
  <2>4. CASE batch' = [batch EXCEPT !.word = next]
    BY <1>1, <2>1, <2>3, <2>4, BatchWord
  <2>5. CASE batch' = [batch EXCEPT !.state = "launch", !.word = 0]
    BY <1>1, <2>3, <2>5, BatchWord
  <2> QED BY <2>2, <2>4, <2>5
<1>4. ItemsDone' = ItemsDone
  BY <1>1, <1>2, <1>3 DEF ItemsDone
<1>5. Sequencer' /\ FlagSeen'
  BY <1>1, <1>2, <1>3 DEF Structure, Sequencer, FlagSeen, BatchRecord
<1>6. CASE writes # << >>
  <2>1. WriteLeaves
    BY <1>6 DEF FetchWord, MemoryIdle
  <2> QED BY <1>1, <1>4, <1>5, <1>6, <2>1, WriteLeavesStep
<1>7. CASE writes = << >>
  <2>1. UNCHANGED <<dram, writes, published>>
    BY <1>7 DEF FetchWord, MemoryIdle
  <2>2. /\ History' /\ Current' = Current
        /\ \A n : Picture(n)' = Picture(n) /\ PictureAfter(n)' = PictureAfter(n)
    BY <1>1, HistoryKept DEF Structure
  <2>3. EngineRuns' /\ Counters' /\ Queued'
    BY <1>1, <1>2, <2>1, <2>2 DEF Structure, EngineRuns, Counters, Queued
  <2>4. \A a : Value(a)' = Value(a)
    BY <1>1, <1>2, <1>4, <2>2 DEF Value, Before
  <2>5. Content => Content'
    BY <1>1, <1>2, <1>4, <2>1, <2>4 DEF Content, Landing, Origin, ReadAhead, Undrained
  <2> QED BY <1>5, <2>2, <2>3, <2>5 DEF Structure
<1> QED BY <1>6, <1>7

LEMMA PublishFenceStep ==
    ASSUME Structure, PublishFence
    PROVE  Structure' /\ (Content => Content')
<1> DEFINE n == Len(writes)
           w == [at |-> << >>, fence |-> completed]
<1>1. /\ sent # completed /\ n < QueueDepth /\ writes' = Append(writes, w) /\ sent' = completed
      /\ UNCHANGED <<queue, command, done_seen, batch, engine, dram, completed,
                     published, asked>>
  BY DEF PublishFence
<1>2. DOMAIN w.at = {} /\ w.fence = completed
  OBVIOUS
<1> HIDE DEF w
<1>3. IsSeq(writes) /\ n \in Nat
  BY SeqFacts DEF Structure, Queued
<1>4. /\ IsSeq(writes') /\ Len(writes') = n + 1 /\ writes'[n + 1] = w
      /\ \A i \in 1 .. n : writes'[i] = writes[i]
  BY <1>1, <1>3, AppendFacts
<1>5. published \in Nat /\ sent \in Nat /\ completed \in Nat /\ published <= sent
      /\ sent <= completed
  BY DEF Structure, Counters
<1>6. /\ History' /\ Current' = Current
      /\ \A k : Picture(k)' = Picture(k) /\ PictureAfter(k)' = PictureAfter(k)
  BY <1>1, HistoryKept DEF Structure
<1>7. ItemsDone' = ItemsDone /\ Before' = Before
  BY <1>1, <1>6 DEF ItemsDone, Before
<1>8. Sequencer' /\ FlagSeen' /\ EngineRuns' /\ Counters'
  BY <1>1, <1>5, <1>6, <1>7 DEF Structure, Sequencer, FlagSeen, EngineRuns, Counters
<1>9. ASSUME NEW i \in 1 .. n + 1
      PROVE  (i = n + 1 /\ writes'[i] = w) \/ (i \in 1 .. n /\ writes'[i] = writes[i])
  BY <1>3, <1>4
<1>10. \A i \in 1 .. n :
            /\ writes[i].fence \in Nat /\ DOMAIN writes[i].at \subseteq Addresses
            /\ writes[i].fence > 0 => /\ DOMAIN writes[i].at = {}
                                      /\ published <= writes[i].fence /\ writes[i].fence <= sent
  BY DEF Structure, Queued
<1>11. \A i \in 1 .. n + 1 :
            /\ writes'[i].fence \in Nat /\ DOMAIN writes'[i].at \subseteq Addresses
            /\ writes'[i].fence > 0 => /\ DOMAIN writes'[i].at = {}
                                       /\ published <= writes'[i].fence
                                       /\ writes'[i].fence <= completed
  BY <1>2, <1>5, <1>9, <1>10
<1>12. \A i \in 1 .. n + 1 : \A m \in i .. n + 1 :
            /\ writes'[i].fence > 0 /\ writes'[m].fence > 0 => writes'[i].fence <= writes'[m].fence
            /\ writes'[i].fence = Current /\ Current > 0 => DOMAIN writes'[m].at = {}
  <2> SUFFICES ASSUME NEW i \in 1 .. n + 1, NEW m \in i .. n + 1
               PROVE  /\ writes'[i].fence > 0 /\ writes'[m].fence > 0
                            => writes'[i].fence <= writes'[m].fence
                      /\ writes'[i].fence = Current /\ Current > 0 => DOMAIN writes'[m].at = {}
    OBVIOUS
  <2>1. m \in 1 .. n + 1
    BY <1>3
  <2>2. CASE m = n + 1
    BY <1>2, <1>4, <1>11, <2>2
  <2>3. CASE m # n + 1
    <3>1. i \in 1 .. n /\ m \in i .. n /\ m \in 1 .. n
      BY <1>3, <2>3
    <3>2. /\ writes[i].fence > 0 /\ writes[m].fence > 0 => writes[i].fence <= writes[m].fence
          /\ writes[i].fence = Current /\ Current > 0 => DOMAIN writes[m].at = {}
      BY <3>1 DEF Structure, Queued
    <3> QED BY <1>4, <3>1, <3>2
  <2> QED BY <2>2, <2>3
<1>13. published = Current \/ command = None =>
            \A i \in 1 .. n + 1 : DOMAIN writes'[i].at = {}
  <2>1. published = Current \/ command = None =>
            \A i \in 1 .. n : DOMAIN writes[i].at = {}
    BY DEF Structure, Queued
  <2> QED BY <1>2, <1>9, <2>1
<1>14. Queued'
  <2>1. n + 1 <= QueueDepth /\ DOMAIN dram = Addresses /\ IsPicture(dram)
    BY <1>1, <1>3, DrawsAssumption DEF Structure, Queued
  <2> QED BY <1>1, <1>4, <1>6, <1>11, <1>12, <1>13, <2>1 DEF Queued
<1>15. ASSUME Content PROVE Content'
  <2>1. \A a : Value(a)' = Value(a)
    BY <1>1, <1>6, <1>7 DEF Value
  <2>2. ASSUME NEW a \in Addresses PROVE Settles(writes', dram', a, Value(a))
    <3> DEFINE v == Value(a)
               more == writes'
    <3>1. Settles(writes, dram, a, v)
      BY <1>15 DEF Content, Landing
    <3>2. \A i \in n + 1 .. Len(more) : i = n + 1 /\ a \notin DOMAIN more[i].at
      BY <1>2, <1>3, <1>4
    <3>3. IsSeq(more) /\ n <= Len(more) /\ \A i \in 1 .. n : more[i] = writes[i]
      BY <1>3, <1>4
    <3> HIDE DEF v
    <3>4. Settles(writes', dram, a, v)
      BY <1>3, <3>1, <3>2, <3>3, SettlesMore
    <3> QED BY <1>1, <3>4 DEF v
  <2>3. \A a \in Addresses : Settles(writes, dram, a, Value(a))'
    BY <2>1, <2>2
  <2>4. ASSUME NEW a \in Addresses, Covers(writes, a)' PROVE Covers(writes, a)
    <3>1. PICK i \in 1 .. n + 1 : a \in DOMAIN writes'[i].at
      BY <1>4, <2>4 DEF Covers
    <3> QED BY <1>2, <1>9, <3>1 DEF Covers
  <2>5. Origin'
    BY <1>1, <1>7, <1>15, <2>4 DEF Content, Origin, Undrained, RetiredPixels
  <2>6. ReadAhead'
    BY <1>1, <1>7, <1>15 DEF Content, ReadAhead
  <2> QED BY <2>3, <2>5, <2>6 DEF Content, Landing
<1> QED BY <1>6, <1>8, <1>14, <1>15 DEF Structure

-----------------------------------------------------------------------------
(* The invariant.                                                          *)

LEMMA StutterStep ==
    ASSUME Structure, UNCHANGED vars
    PROVE  Structure' /\ (Content => Content')
<1>1. UNCHANGED <<queue, command, done_seen, batch, engine, dram, writes, completed,
                  sent, published, asked>>
  BY DEF vars
<1>2. /\ History' /\ Current' = Current
      /\ \A n : Picture(n)' = Picture(n) /\ PictureAfter(n)' = PictureAfter(n)
  BY <1>1, HistoryKept DEF Structure
<1>3. ItemsDone' = ItemsDone /\ Before' = Before
  BY <1>1, <1>2 DEF ItemsDone, Before
<1>4. Sequencer' /\ FlagSeen' /\ EngineRuns' /\ Counters' /\ Queued'
  BY <1>1, <1>2, <1>3 DEF Structure, Sequencer, FlagSeen, EngineRuns, Counters, Queued
<1>5. \A a : Value(a)' = Value(a)
  BY <1>1, <1>2, <1>3 DEF Value
<1>6. Content => Content'
  BY <1>1, <1>3, <1>5 DEF Content, Landing, Origin, ReadAhead, Undrained
<1> QED BY <1>2, <1>4, <1>6 DEF Structure

LEMMA NextStep ==
    ASSUME Structure, [Next]_vars
    PROVE  Structure' /\ (RawSourcesApart /\ Content => Content')
<1>1. ASSUME NEW r \in Requests, Submit(r)
      PROVE  Structure' /\ (Content => Content')
  BY <1>1, SubmitStep
<1>2. ASSUME NEW r \in Requests, SubmitNothing(r)
      PROVE  Structure' /\ (Content => Content')
  BY <1>2, SubmitNothingSame, StutterStep DEF Structure
<1>3. CASE UNCHANGED vars
  BY <1>3, StutterStep
<1>4. CASE Host
  BY <1>1, <1>2, <1>4 DEF Host
<1>5. CASE Accept
  BY <1>5, AcceptStep
<1>6. CASE Retire
  BY <1>6, RetireStep
<1>7. CASE Launch
  BY <1>7, LaunchStep
<1>8. CASE Drained
  BY <1>8, DrainedStep
<1>9. CASE FinishBatch
  BY <1>9, FinishBatchStep
<1>10. CASE FetchSource
  BY <1>10, FetchSourceStep
<1>11. CASE FetchDestination
  BY <1>11, FetchDestinationStep
<1>12. CASE Emit
  BY <1>12, EmitStep
<1>13. CASE EmitFast
  BY <1>13, EmitFastStep
<1>14. CASE LeaveFast
  BY <1>14, LeaveFastStep
<1>15. CASE EngineDone
  BY <1>15, EngineDoneStep
<1>16. CASE DrainWrite
  BY <1>16, DrainWriteStep
<1>17. CASE PublishFence
  BY <1>17, PublishFenceStep
<1>18. CASE FetchWord
  BY <1>18, FetchWordStep
<1> QED BY <1>3, <1>4, <1>5, <1>6, <1>7, <1>8, <1>9, <1>10, <1>11, <1>12, <1>13, <1>14,
           <1>15, <1>16, <1>17, <1>18 DEF Next, Core

LEMMA StructureType == Structure => TypeOK
<1> SUFFICES ASSUME Structure PROVE TypeOK
  OBVIOUS
<1>1. /\ published \in Nat /\ published <= sent /\ sent <= completed /\ sent \in Nat
      /\ completed \in Nat /\ completed <= Current
  <2>1. Current \in Nat
    BY SeqFacts DEF Structure, History, Current, Submitted
  <2> QED BY <2>1 DEF Structure, Counters
<1>2. Current <= Submitted /\ Submitted \in Nat /\ Current \in Nat /\ Submitted <= MaxCommands
  BY SeqFacts DEF Structure, History, Current, Submitted
<1>3. completed <= Submitted
  BY <1>1, <1>2
<1>4. Len(writes) <= QueueDepth /\ DOMAIN dram = DOMAIN Memory
  BY AddressesInt DEF Structure, Queued
<1>5. batch.state \in {"idle", "fetch", "launch", "drain", "run", "finish"}
      /\ (command = None => engine = None /\ batch = NoBatch)
  BY DEF Structure, Sequencer, States
<1> QED BY <1>1, <1>2, <1>3, <1>4, <1>5 DEF TypeOK

-----------------------------------------------------------------------------
(* The commands whose fence is published.                                  *)

\* Pictures are alike where no command between them draws.
LEMMA PicturesAlike ==
    ASSUME Structure, NEW p, p \in Nat, NEW q, q \in Nat, p <= q, q <= Submitted,
           NEW a \in Addresses, \A n \in p + 2 .. Len(asked) : a \notin asked[n].region
    PROVE  Picture(q)[a] = Picture(p)[a]
<1> DEFINE S == {i \in 0 .. q - p : asked[p + 1 + i].picture[a] = asked[p + 1].picture[a]}
<1>1. Len(asked) \in Nat /\ Submitted = Len(asked) - 1
  BY SeqFacts DEF Structure, History, Submitted
<1>2. 0 \in S
  OBVIOUS
<1>3. ASSUME NEW i \in 0 .. (q - p) - 1, i \in S PROVE i + 1 \in S
  <2> DEFINE n == p + 1 + i
  <2>1. n \in 1 .. Submitted /\ n + 1 \in p + 2 .. Len(asked) /\ i + 1 \in 0 .. q - p
        /\ p + 1 + (i + 1) = n + 1
    BY <1>1
  <2> HIDE DEF n
  <2>2. asked[n + 1].picture[a] = asked[n].picture[a]
    BY <2>1 DEF Structure, History
  <2>3. asked[n].picture[a] = asked[p + 1].picture[a]
    BY <1>3 DEF n
  <2> QED BY <2>1, <2>2, <2>3
<1>4. q - p \in Nat
  OBVIOUS
<1> HIDE DEF S
<1>5. 0 .. q - p \subseteq S
  BY <1>2, <1>3, <1>4, UpTo
<1>6. q - p \in S /\ p + 1 + (q - p) = q + 1
  BY <1>4, <1>5
<1> QED BY <1>6 DEF S, Picture

LEMMA ContentFinished ==
    ASSUME Structure, Content
    PROVE  FinishedAsRequested
<1> SUFFICES ASSUME NEW a \in Addresses,
                    \A n \in published + 2 .. Len(asked) : a \notin asked[n].region
             PROVE  dram[a] = Picture(published)[a]
  BY AddressesInt DEF FinishedAsRequested
<1>1. /\ published \in Nat /\ published <= Current /\ Current \in Nat /\ Current <= Submitted
      /\ published = Current => completed = Current
  <2>1. Current \in Nat /\ Current <= Submitted
    BY SeqFacts DEF Structure, History, Current, Submitted
  <2> QED BY <2>1 DEF Structure, Counters
<1>2. IsSeq(writes) /\ Settles(writes, dram, a, Value(a))
  BY DEF Structure, Queued, Content, Landing
<1>3. ASSUME command = None \/ done_seen
      PROVE  Value(a) = Picture(Current)[a]
  <2>1. CASE command = None
    <3>1. engine = None
      BY <2>1 DEF Structure, Sequencer
    <3> QED BY <2>1, <3>1 DEF Value, Before
  <2>2. CASE command # None
    <3>1. engine = None /\ done_seen
      BY <1>3, <2>2 DEF Structure, Sequencer
    <3>2. ItemsDone = Len(command.items)
      BY <2>2, <3>1, ItemsCounted
    <3>3. Before = Picture(Current)
      BY <2>2, <3>2, RunningPictures
    <3> QED BY <3>1, <3>3 DEF Value
  <2> QED BY <2>1, <2>2
<1>4. CASE published = Current \/ command = None
  <2>1. ~Covers(writes, a)
    BY <1>4 DEF Structure, Queued, Covers
  <2>2. dram[a] = Value(a)
    BY <1>2, <2>1, SettlesUncovered
  <2>3. command = None \/ done_seen
    BY <1>1, <1>4 DEF Structure, Counters
  <2>4. dram[a] = Picture(Current)[a]
    BY <1>3, <2>2, <2>3
  <2>5. Picture(Current)[a] = Picture(published)[a]
    BY <1>1, PicturesAlike
  <2> QED BY <2>4, <2>5
<1>5. CASE published # Current /\ command # None
  <2>1. /\ IsGood(command) /\ Current >= 1 /\ ItemsDone \in 0 .. Len(command.items)
        /\ Len(command.items) \in Nat
    BY <1>5, ItemsCounted
  <2>2. a \notin Region(command)
    <3>1. Current + 1 \in published + 2 .. Len(asked)
      BY <1>1, <1>5, SeqFacts DEF Structure, History, Submitted
    <3> QED BY <1>5, <3>1, RunningPictures
  <2>3. ASSUME NEW j \in 1 .. Len(command.items) PROVE ~Inside(Target(command.items[j]), a)
    BY <2>1, <2>2, InRegion
  <2>4. ~(engine # None /\ a \in RetiredPixels(engine))
    <3> SUFFICES ASSUME engine # None, a \in RetiredPixels(engine) PROVE FALSE
      OBVIOUS
    <3> DEFINE k == ItemsDone + 1
               d == command.items[k]
               n == Total(engine.job)
               walk == Work(engine.job)
    <3>1. /\ k \in 1 .. Len(command.items) /\ n \in Nat /\ engine.retired \in 0 .. n
          /\ IsTask(command.op, d, Before, PictureAfter(k), walk, n)
      BY RunningTask
    <3>2. PICK i \in 1 .. engine.retired : \E l \in DOMAIN walk[i] : walk[i][l].to = a
      BY DEF RetiredPixels
    <3>3. i \in 1 .. n
      BY <3>1
    <3>4. Inside(Target(d), a)
      <4> HIDE DEF walk, d, n, k
      <4> QED BY <3>1, <3>2, <3>3 DEF IsTask
    <3> QED BY <2>3, <3>1, <3>4
  <2>5. ~Covers(writes, a)
    <3>1. \A j \in 1 .. ItemsDone : j \in 1 .. Len(command.items)
      BY <2>1
    <3> QED BY <2>3, <2>4, <3>1 DEF Content, Origin
  <2>6. dram[a] = Value(a)
    BY <1>2, <2>5, SettlesUncovered
  <2>7. Value(a) = Before[a]
    BY <2>4 DEF Value
  <2>8. Before[a] = Picture(Current - 1)[a]
    BY <1>5, <2>1, <2>2, RunningPictures
  <2>9. Picture(Current - 1)[a] = Picture(published)[a]
    <3>1. Current - 1 \in Nat /\ published <= Current - 1 /\ Current - 1 <= Submitted
          /\ Submitted \in Nat
      BY <1>1, <1>5, <2>1, SeqFacts DEF Structure, History, Submitted
    <3> QED BY <1>1, <3>1, PicturesAlike
  <2> QED BY <2>6, <2>7, <2>8, <2>9
<1> QED BY <1>4, <1>5

LEMMA FinishedInOrder ==
    ASSUME Structure, FinishedAsRequested
    PROVE  DescriptorsInOrder
<1> SUFFICES ASSUME published = Submitted PROVE dram = Picture(Submitted)
  BY DEF DescriptorsInOrder
<1> DEFINE n == Len(asked)
<1>1. n \in Nat /\ Submitted = n - 1 /\ n \in 1 .. n
  BY SeqFacts DEF Structure, History, Submitted
<1>2. Picture(Submitted) = asked[n].picture
  BY <1>1 DEF Picture
<1>3. IsPicture(Picture(Submitted)) /\ DOMAIN Picture(Submitted) = Addresses
  BY <1>1, <1>2 DEF Structure, History
<1>4. IsPicture(dram) /\ DOMAIN dram = Addresses
  BY DEF Structure, Queued
<1>5. \A a \in Addresses : dram[a] = Picture(Submitted)[a]
  <2>1. ~\E i : i \in published + 2 .. Len(asked)
    BY <1>1
  <2> QED BY <2>1, AddressesInt DEF FinishedAsRequested
<1> DEFINE picture == Picture(Submitted)
<1> SUFFICES dram = picture
  OBVIOUS
<1> HIDE DEF picture
<1> QED BY <1>3, <1>4, <1>5 DEF IsPicture, picture

-----------------------------------------------------------------------------
(* The theorems.                                                           *)

LEMMA StructureHolds == Spec => []Structure
<1>1. Init => Structure
  BY InitStructure
<1>2. Structure /\ [Next]_vars => Structure'
  BY NextStep
<1> QED BY <1>1, <1>2, PTL DEF Spec

LEMMA ContentHolds ==
    ASSUME RawSourcesApart
    PROVE  Spec => [](Structure /\ Content)
<1>1. Init => Structure /\ Content
  BY InitStructure, InitContent
<1>2. (Structure /\ Content) /\ [Next]_vars => (Structure /\ Content)'
  BY NextStep
<1> QED BY <1>1, <1>2, PTL DEF Spec

\* The fence never runs ahead of the engines' done counts, nor they of the
\* commands submitted; the adapter's queue keeps its depth and writes stay in
\* the DRAM a command may name (Noodles.sv, rtl/link_fence.sv,
\* rtl/ddram_adapter.sv), whatever the requests are.
THEOREM TypeCorrect == Spec => []TypeOK
<1>1. Structure => TypeOK
  BY StructureType
<1> QED BY <1>1, StructureHolds, PTL

\* What the fence reports finished is in DRAM exactly as it was asked for,
\* where no later command draws: for any surfaces, requests, read-ahead and
\* queue depth, if the raw commands do not read what they, or the unflagged
\* descriptors they run with, write (rtl/sprite_batch.sv, rtl/cmdq.sv,
\* rtl/blit*.sv, Noodles.sv:337).
THEOREM FinishedCorrect ==
    ASSUME RawSourcesApart
    PROVE  Spec => []FinishedAsRequested
<1>1. Structure /\ Content => FinishedAsRequested
  BY ContentFinished
<1> QED BY <1>1, ContentHolds, PTL

\* Under the same condition the descriptors of a batch see the writes of those
\* before them (docs/INTEGRATION.md:144); without it they may not, as the run
\* DrawsChain shows.
THEOREM InOrderCorrect ==
    ASSUME RawSourcesApart
    PROVE  Spec => []DescriptorsInOrder
<1>1. Structure /\ Content => DescriptorsInOrder
  BY ContentFinished, FinishedInOrder
<1> QED BY <1>1, ContentHolds, PTL

\* What an application draws with the SDK's calls alone always is.
THEOREM CallsFinished ==
    ASSUME \A r \in Requests : ~IsRaw(r)
    PROVE  Spec => []FinishedAsRequested
<1>1. RawSourcesApart
  BY DEF RawSourcesApart
<1> QED BY <1>1, FinishedCorrect
=============================================================================
