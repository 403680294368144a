-------------------------- MODULE BrowserMapProofs --------------------------
(***************************************************************************)
(* Proofs about BrowserMapPages: that the map shows the state of its page. *)
(* The overlays of the provider proxy are those of its sources, layers and *)
(* filters; the main map's layers fit their switches and data through      *)
(* queues, fades and styles; the trip layers are drawn by one renderer     *)
(* from the bundle that came last; and the journal's map is as of the day  *)
(* its page shows.                                                         *)
(***************************************************************************)
EXTENDS BrowserAnswersProofs, FiniteSums, SequenceTheorems

-----------------------------------------------------------------------------
(* The order of the layers: removing one and inserting one keeps the rest. *)

LEMMA FirstGone ==
    ASSUME NEW S, NEW q \in Seq(S), NEW e
    PROVE  /\ Proxy!RemoveFirst(q, e) \in Seq(S)
           /\ \A i \in DOMAIN q : q[i] # e => \E j \in DOMAIN Proxy!RemoveFirst(q, e) : Proxy!RemoveFirst(q, e)[j] = q[i]
<1>1. CASE ~\E i \in 1..Len(q) : q[i] = e
  BY <1>1 DEF Proxy!RemoveFirst
<1>2. CASE \E i \in 1..Len(q) : q[i] = e
  <2> DEFINE I == {i \in 1..Len(q) : q[i] = e}
             k == CHOOSE x \in I : \A y \in I : x <= y
             a == SubSeq(q, 1, k - 1)
             b == SubSeq(q, k + 1, Len(q))
  <2>1. Proxy!RemoveFirst(q, e) = a \o b
    BY <1>2 DEF Proxy!RemoveFirst, Proxy!RemoveAt, Proxy!SelectInSeq, Proxy!Min
  <2>6. I \in SUBSET Nat /\ I # {}
    BY <1>2
  <2>2. k \in 1..Len(q) /\ q[k] = e
    <3> HIDE DEF I
    <3>1. \E x \in I : \A y \in I : x <= y
      BY <2>6, LeastNatural
    <3>2. k \in I
      BY <3>1
    <3> QED BY <3>2 DEF I
  <2> HIDE DEF k
  <2>3. /\ a \in Seq(S) /\ Len(a) = k - 1 /\ \A i \in 1..(k - 1) : a[i] = q[i]
        /\ b \in Seq(S) /\ Len(b) = Len(q) - k /\ \A i \in 1..(Len(q) - k) : b[i] = q[k + i]
    BY <2>2, SubSeqProperties
  <2> HIDE DEF a, b
  <2> DEFINE w == a \o b
  <2>7. /\ w \in Seq(S) /\ Len(w) = Len(a) + Len(b)
        /\ \A i \in 1..(Len(a) + Len(b)) : w[i] = IF i <= Len(a) THEN a[i] ELSE b[i - Len(a)]
    BY <2>3, ConcatProperties
  <2> HIDE DEF w
  <2>4. /\ w \in Seq(S) /\ Len(w) = Len(q) - 1
        /\ \A i \in 1..(Len(q) - 1) : w[i] = IF i <= k - 1 THEN q[i] ELSE q[i + 1]
    <3>1. Len(a) + Len(b) = Len(q) - 1
      BY <2>2, <2>3
    <3>2. ASSUME NEW i \in 1..(Len(q) - 1), i <= k - 1 PROVE w[i] = q[i]
      BY <2>2, <2>3, <2>7, <3>1, <3>2
    <3>3. ASSUME NEW i \in 1..(Len(q) - 1), ~(i <= k - 1) PROVE w[i] = q[i + 1]
      <4>1. i - (k - 1) \in 1..(Len(q) - k) /\ k + (i - (k - 1)) = i + 1
        BY <2>2, <3>3
      <4>2. w[i] = b[i - (k - 1)]
        BY <2>2, <2>3, <2>7, <3>1, <3>3
      <4> QED BY <2>3, <4>1, <4>2
    <3> QED BY <2>7, <3>1, <3>2, <3>3
  <2>5. ASSUME NEW i \in DOMAIN q, q[i] # e PROVE \E j \in DOMAIN w : w[j] = q[i]
    <3>1. CASE i < k
      <4>1. i \in 1..(Len(q) - 1) /\ i <= k - 1
        BY <2>2, <3>1
      <4> QED BY <2>4, <4>1
    <3>2. CASE i > k
      <4>1. i - 1 \in 1..(Len(q) - 1) /\ i - 1 + 1 = i /\ ~(i - 1 <= k - 1)
        BY <2>2, <3>2
      <4>2. w[i - 1] = q[i]
        BY <2>4, <4>1
      <4> QED BY <2>4, <4>1, <4>2
    <3> QED BY <2>2, <2>5, <3>1, <3>2
  <2> QED BY <2>1, <2>4, <2>5 DEF w
<1> QED BY <1>1, <1>2

(* The order with a layer in it, every other still there.                  *)
Joined(q, n, l, S) ==
    /\ n \in Seq(S) /\ (\E j \in DOMAIN n : n[j] = l)
    /\ \A i \in DOMAIN q : \E j \in DOMAIN n : n[j] = q[i]

LEMMA PlaceFound ==
    ASSUME NEW S, NEW q \in Seq(S), NEW l \in S, NEW b
    PROVE  Joined(q, Proxy!Inserted(q, l, b), l, S)
<1>1. CASE ~\E i \in DOMAIN q : q[i] = b
  <2> DEFINE w == Append(q, l)
  <2>1. Proxy!Inserted(q, l, b) = w
    BY <1>1 DEF Proxy!Inserted
  <2>2. w \in Seq(S) /\ Len(w) = Len(q) + 1 /\ w[Len(q) + 1] = l /\ \A i \in 1..Len(q) : w[i] = q[i]
    OBVIOUS
  <2> HIDE DEF w
  <2> QED BY <2>1, <2>2 DEF Joined
<1>2. CASE \E i \in DOMAIN q : q[i] = b
  <2> DEFINE k == CHOOSE i \in DOMAIN q : q[i] = b
             a == SubSeq(q, 1, k - 1)
             c == SubSeq(q, k, Len(q))
             o == <<l>>
  <2>1. Proxy!Inserted(q, l, b) = (a \o o) \o c
    BY <1>2 DEF Proxy!Inserted, Proxy!InsertAt
  <2>2. k \in 1..Len(q)
    BY <1>2
  <2> HIDE DEF k
  <2>3. /\ a \in Seq(S) /\ Len(a) = k - 1 /\ \A i \in 1..(k - 1) : a[i] = q[i]
        /\ c \in Seq(S) /\ Len(c) = Len(q) - k + 1 /\ \A i \in 1..(Len(q) - k + 1) : c[i] = q[k + i - 1]
    BY <2>2, SubSeqProperties
  <2>4. o \in Seq(S) /\ Len(o) = 1 /\ o[1] = l
    OBVIOUS
  <2> HIDE DEF a, c, o
  <2> DEFINE d == a \o o
             w == d \o c
  <2>5. /\ d \in Seq(S) /\ Len(d) = k
        /\ \A i \in 1..k : d[i] = IF i <= k - 1 THEN q[i] ELSE l
    <3>1. /\ d \in Seq(S) /\ Len(d) = Len(a) + Len(o)
          /\ \A i \in 1..(Len(a) + Len(o)) : d[i] = IF i <= Len(a) THEN a[i] ELSE o[i - Len(a)]
      BY <2>3, <2>4, ConcatProperties
    <3> HIDE DEF d
    <3>2. Len(a) + Len(o) = k /\ k - (k - 1) = 1
      BY <2>2, <2>3, <2>4
    <3>3. \A i \in 1..k : ~(i <= k - 1) => i = k
      BY <2>2
    <3> QED BY <2>2, <2>3, <2>4, <3>1, <3>2, <3>3
  <2> HIDE DEF d
  <2>6. /\ w \in Seq(S) /\ Len(w) = Len(q) + 1
        /\ \A i \in 1..(Len(q) + 1) : w[i] = IF i <= k THEN d[i] ELSE c[i - k]
    <3>1. /\ w \in Seq(S) /\ Len(w) = Len(d) + Len(c)
          /\ \A i \in 1..(Len(d) + Len(c)) : w[i] = IF i <= Len(d) THEN d[i] ELSE c[i - Len(d)]
      BY <2>3, <2>5, ConcatProperties
    <3> HIDE DEF w
    <3>2. Len(d) + Len(c) = Len(q) + 1
      BY <2>2, <2>3, <2>5
    <3> QED BY <2>5, <3>1, <3>2
  <2> HIDE DEF w
  <2>7. w[k] = l /\ k \in DOMAIN w
    BY <2>2, <2>5, <2>6
  <2>8. ASSUME NEW i \in DOMAIN q PROVE \E j \in DOMAIN w : w[j] = q[i]
    <3>1. CASE i < k
      <4>1. i \in 1..(Len(q) + 1) /\ i \in 1..k /\ i <= k - 1 /\ i <= k
        BY <2>2, <3>1
      <4> QED BY <2>5, <2>6, <4>1
    <3>2. CASE i >= k
      <4> DEFINE n == i + 1
      <4>1. n \in 1..(Len(q) + 1) /\ ~(n <= k) /\ n - k \in 1..(Len(q) - k + 1) /\ k + (n - k) - 1 = i
        BY <2>2, <3>2
      <4> HIDE DEF n
      <4>2. w[n] = c[n - k]
        BY <2>6, <4>1
      <4>3. c[n - k] = q[i]
        BY <2>3, <4>1
      <4> QED BY <2>6, <4>1, <4>2, <4>3
    <3> QED BY <2>2, <3>1, <3>2
  <2> QED BY <2>1, <2>6, <2>7, <2>8 DEF Joined, w, d
<1> QED BY <1>1, <1>2

-----------------------------------------------------------------------------
(* The provider proxy: the overlays on the map are those of the layers,    *)
(* each drawn from its source, its filter and its style.                   *)

OverlaysFields == {"src", "hot", "layer", "style", "onMap", "order", "zoom", "gen"}
RecordFields == {"on", "source", "filter", "vis", "paint", "gen", "drawn"}
SourceFields == {"on", "data", "layers"}

OverlaysTyped(u) ==
    /\ OverlaysFields \subseteq DOMAIN u
    /\ DOMAIN u.layer = Layers /\ DOMAIN u.style = Layers /\ DOMAIN u.src = Sources /\ DOMAIN u.hot = Sources
    /\ \A l \in Layers : /\ RecordFields \subseteq DOMAIN u.layer[l] /\ (u.layer[l].on => u.layer[l].source \in Sources)
                         /\ u.layer[l].on \in BOOLEAN /\ u.layer[l].vis \in BOOLEAN
    /\ \A s \in Sources : SourceFields \subseteq DOMAIN u.src[s] /\ u.src[s].on \in BOOLEAN /\ u.src[s].data \subseteq Features
    /\ u.order \in Seq(Layers)

(* Its overlays are on the map exactly when the layer is there and shown.  *)
Projected(u, l) ==
    /\ \A o \in u.layer[l].drawn : o.l = l /\ o.f \in Features
    /\ {o \in u.onMap : o.l = l} = IF u.layer[l].on /\ u.layer[l].vis THEN u.layer[l].drawn ELSE {}

(* A source knows only layers that show it.                                *)
Kin(u) == \A s \in Sources : \A l \in u.src[s].layers : l \in Layers /\ u.layer[l].on /\ u.layer[l].source = s

Known(u, l) == u.layer[l].on /\ u.src[u.layer[l].source].on /\ l \in u.src[u.layer[l].source].layers

Collected(u, l) == Known(u, l) => u.layer[l].drawn = Proxy!CollectFeatures(u, l, u.layer[l].gen)

Placed(u, l) == u.layer[l].on => \E i \in DOMAIN u.order : u.order[i] = l

Styled(u, l) ==
    u.layer[l].on => /\ u.style[l].paint = u.layer[l].paint /\ u.style[l].zoom = u.zoom
                     /\ u.style[l].z \in DOMAIN u.order /\ u.order[u.style[l].z] = l

(* All of it but the style, which follows; ls are yet to be drawn again.   *)
OverlaysBut(u, ls) ==
    /\ OverlaysTyped(u) /\ Kin(u) /\ (\A o \in u.onMap : o.l \in Layers)
    /\ \A l \in Layers : Projected(u, l) /\ Placed(u, l) /\ (l \notin ls => Collected(u, l))

OverlaysSound(u) == OverlaysBut(u, {}) /\ \A l \in Layers : Styled(u, l)

LEMMA OverlaysSame ==
    ASSUME NEW u, OverlaysTyped(u), NEW w, OverlaysFields \subseteq DOMAIN w,
           \A f \in OverlaysFields \ {"gen"} : w[f] = u[f]
    PROVE  /\ \A ls : OverlaysBut(u, ls) => OverlaysBut(w, ls)
           /\ OverlaysSound(u) => OverlaysSound(w)
<1>1. /\ w.src = u.src /\ w.hot = u.hot /\ w.layer = u.layer /\ w.style = u.style /\ w.onMap = u.onMap
      /\ w.order = u.order /\ w.zoom = u.zoom
  BY DEF OverlaysFields
<1>2. \A l \in Layers : (Projected(u, l) => Projected(w, l)) /\ (Placed(u, l) => Placed(w, l)) /\ (Styled(u, l) => Styled(w, l))
  BY <1>1 DEF Projected, Placed, Styled
<1>3. \A l \in Layers : Collected(u, l) => Collected(w, l)
  BY <1>1 DEF Collected, Known, Proxy!CollectFeatures
<1>4. OverlaysTyped(w) /\ (Kin(u) => Kin(w)) /\ ((\A o \in u.onMap : o.l \in Layers) => \A o \in w.onMap : o.l \in Layers)
  BY <1>1 DEF OverlaysTyped, Kin
<1>5. \A ls : OverlaysBut(u, ls) => OverlaysBut(w, ls)
  BY <1>2, <1>3, <1>4 DEF OverlaysBut
<1> QED BY <1>2, <1>5 DEF OverlaysSound

(* The place of a layer that has one, and the style it gets there.         *)
LEMMA StyledInPlace ==
    ASSUME NEW u, OverlaysTyped(u), NEW l \in Layers, \E i \in DOMAIN u.order : u.order[i] = l
    PROVE  LET r == Proxy!ApplyLayerStyle(u, l).style[l] IN
           r.paint = u.layer[l].paint /\ r.zoom = u.zoom /\ r.z \in DOMAIN u.order /\ u.order[r.z] = l
<1> DEFINE z == Proxy!GetLayerZIndex(u, l)
           e == Proxy!EvaluateStyle(u.layer[l].paint, u.zoom, z)
<1>1. z \in DOMAIN u.order /\ u.order[z] = l
  BY DEF Proxy!GetLayerZIndex
<1>2. e.paint = u.layer[l].paint /\ e.zoom = u.zoom /\ e.z = z
  BY DEF Proxy!EvaluateStyle
<1> HIDE DEF z, e
<1>3. Proxy!ApplyLayerStyle(u, l) = [u EXCEPT !.style = [u.style EXCEPT ![l] = e]]
  BY DEF Proxy!ApplyLayerStyle, z, e
<1>4. Proxy!ApplyLayerStyle(u, l).style[l] = e
  BY <1>3 DEF OverlaysTyped, OverlaysFields
<1> QED BY <1>1, <1>2, <1>4

LEMMA Restyled ==
    ASSUME NEW u, OverlaysBut(u, {})
    PROVE  OverlaysSound(Proxy!UpdateAllLayerZIndices(u)) /\ Proxy!UpdateAllLayerZIndices(u).layer = u.layer
<1> DEFINE st == [l \in Layers |-> IF \E i \in DOMAIN u.order : u.order[i] = l
                                   THEN Proxy!ApplyLayerStyle(u, l).style[l] ELSE u.style[l]]
           w == [u EXCEPT !.style = st]
<1>1. Proxy!UpdateAllLayerZIndices(u) = w
  BY DEF Proxy!UpdateAllLayerZIndices
<1>2. OverlaysTyped(u) /\ OverlaysFields \subseteq DOMAIN u /\ DOMAIN st = Layers
  BY DEF OverlaysBut, OverlaysTyped
<1>3. \A l \in Layers : (\E i \in DOMAIN u.order : u.order[i] = l) =>
          st[l].paint = u.layer[l].paint /\ st[l].zoom = u.zoom /\ st[l].z \in DOMAIN u.order /\ u.order[st[l].z] = l
  BY <1>2, StyledInPlace
<1> HIDE DEF st
<1>4. /\ w.src = u.src /\ w.hot = u.hot /\ w.layer = u.layer /\ w.style = st /\ w.onMap = u.onMap
      /\ w.order = u.order /\ w.zoom = u.zoom /\ DOMAIN w = DOMAIN u
  BY <1>2 DEF OverlaysFields
<1> HIDE DEF w
<1>5. \A l \in Layers : (Projected(u, l) => Projected(w, l)) /\ (Placed(u, l) => Placed(w, l))
  BY <1>4 DEF Projected, Placed
<1>6. \A l \in Layers : Collected(u, l) => Collected(w, l)
  BY <1>4 DEF Collected, Known, Proxy!CollectFeatures
<1>7. OverlaysTyped(w) /\ (Kin(u) => Kin(w)) /\ ((\A o \in u.onMap : o.l \in Layers) => \A o \in w.onMap : o.l \in Layers)
  BY <1>2, <1>4 DEF OverlaysTyped, Kin
<1>8. OverlaysBut(w, {})
  BY <1>5, <1>6, <1>7 DEF OverlaysBut
<1>9. \A l \in Layers : Styled(w, l)
  BY <1>3, <1>4 DEF Styled, OverlaysBut, Placed
<1> QED BY <1>1, <1>4, <1>8, <1>9 DEF OverlaysSound

(* One layer redrawn or changed, others as they were.                      *)
LEMMA CollectedSame ==
    ASSUME NEW u, NEW w, NEW l,
           w.layer[l] = u.layer[l],
           LET s == u.layer[l].source IN
               /\ w.src[s].on = u.src[s].on /\ w.src[s].data = u.src[s].data /\ w.hot[s] = u.hot[s]
               /\ l \in w.src[s].layers => l \in u.src[s].layers
    PROVE  Collected(u, l) => Collected(w, l)
<1> DEFINE s == u.layer[l].source
           g == u.layer[l].gen
<1>1. Proxy!CollectFeatures(w, l, g) = Proxy!CollectFeatures(u, l, g)
  BY DEF Proxy!CollectFeatures
<1>2. Known(w, l) => Known(u, l)
  BY DEF Known
<1> QED BY <1>1, <1>2 DEF Collected

(* Overlays gone from some layers: these are to be drawn again.            *)
LEMMA OverlaysCleared ==
    ASSUME NEW u, NEW ks, OverlaysBut(u, ks), NEW ls
    PROVE  LET v == Proxy!ClearLayerOverlays(u, ls) IN
           /\ OverlaysBut(v, ks \cup ls) /\ DOMAIN v = DOMAIN u
           /\ v.src = u.src /\ v.hot = u.hot /\ v.order = u.order /\ v.zoom = u.zoom /\ v.style = u.style /\ v.gen = u.gen
           /\ \A l \in Layers : /\ v.layer[l].on = u.layer[l].on /\ v.layer[l].source = u.layer[l].source
                                /\ v.layer[l].filter = u.layer[l].filter /\ v.layer[l].vis = u.layer[l].vis
                                /\ v.layer[l].paint = u.layer[l].paint /\ v.layer[l].gen = u.layer[l].gen
                                /\ l \in ls => v.layer[l].drawn = {}
                                /\ l \notin ls => v.layer[l] = u.layer[l]
           /\ \A o : o \in v.onMap <=> o \in u.onMap /\ o.l \notin ls
           /\ (\A l \in Layers : Styled(u, l)) => \A l \in Layers : Styled(v, l)
<1> DEFINE ly == [l \in Layers |-> IF l \in ls THEN [u.layer[l] EXCEPT !.drawn = {}] ELSE u.layer[l]]
           om == {o \in u.onMap : o.l \notin ls}
           v == [u EXCEPT !.layer = ly, !.onMap = om]
<1>1. Proxy!ClearLayerOverlays(u, ls) = v
  BY DEF Proxy!ClearLayerOverlays
<1>2. OverlaysTyped(u) /\ OverlaysFields \subseteq DOMAIN u
  BY DEF OverlaysBut, OverlaysTyped
<1>3. \A l \in Layers : /\ RecordFields \subseteq DOMAIN ly[l] /\ \A f \in RecordFields \ {"drawn"} : ly[l][f] = u.layer[l][f]
                        /\ l \in ls => ly[l].drawn = {}
                        /\ l \notin ls => ly[l] = u.layer[l]
  BY <1>2 DEF OverlaysTyped, RecordFields
<1>4. DOMAIN ly = Layers
  OBVIOUS
<1> HIDE DEF ly
<1>5. \A l \in Layers : /\ ly[l].on = u.layer[l].on /\ ly[l].source = u.layer[l].source /\ ly[l].filter = u.layer[l].filter
                        /\ ly[l].vis = u.layer[l].vis /\ ly[l].paint = u.layer[l].paint /\ ly[l].gen = u.layer[l].gen
  BY <1>3 DEF RecordFields
<1> HIDE DEF om
<1>6. /\ v.src = u.src /\ v.hot = u.hot /\ v.layer = ly /\ v.style = u.style /\ v.onMap = om
      /\ v.order = u.order /\ v.zoom = u.zoom /\ v.gen = u.gen /\ DOMAIN v = DOMAIN u
  BY <1>2 DEF OverlaysFields
<1> HIDE DEF v
<1>7. OverlaysTyped(v) /\ Kin(v) /\ (\A o \in v.onMap : o.l \in Layers)
  BY <1>2, <1>3, <1>4, <1>5, <1>6 DEF OverlaysBut, OverlaysTyped, Kin, om
<1>8. ASSUME NEW l \in Layers PROVE Projected(v, l) /\ Placed(v, l) /\ (Styled(u, l) => Styled(v, l)) /\ (l \notin ks \cup ls => Collected(v, l))
  <2>1. Projected(u, l) /\ Placed(u, l) /\ (l \notin ks => Collected(u, l))
    BY DEF OverlaysBut
  <2>2. CASE l \in ls
    BY <1>3, <1>5, <1>6, <2>1, <2>2 DEF Projected, Placed, Styled, om
  <2>3. CASE l \notin ls
    <3>1. v.layer[l] = u.layer[l] /\ {o \in v.onMap : o.l = l} = {o \in u.onMap : o.l = l}
      BY <1>3, <1>6, <2>3 DEF om
    <3>2. Collected(u, l) => Collected(v, l)
      BY <1>6, <3>1, CollectedSame
    <3> QED BY <1>6, <2>1, <3>1, <3>2 DEF Projected, Placed, Styled
  <2> QED BY <2>2, <2>3
<1>9. OverlaysBut(v, ks \cup ls)
  BY <1>7, <1>8 DEF OverlaysBut
<1> QED BY <1>1, <1>3, <1>5, <1>6, <1>8, <1>9 DEF om

(* Drawn again: every layer of those that its source knows is of the data. *)
LEMMA OverlaysRedrawn ==
    ASSUME NEW u, NEW ls \in SUBSET Layers, OverlaysBut(u, ls), u.gen \in Nat
    PROVE  LET v == Proxy!RerenderLayers(u, ls) IN
           OverlaysBut(v, {}) /\ ((\A l \in Layers : Styled(u, l)) => OverlaysSound(v))
<1> DEFINE there == {l \in ls : u.layer[l].on}
           drawing == {l \in there : u.src[u.layer[l].source].on}
           g == u.gen + 1
           Fresh(l) == Proxy!CollectFeatures(u, l, g)
           w == Proxy!ClearLayerOverlays(u, there)
           gn == IF drawing = {} THEN w.gen ELSE g
           ly == [l \in Layers |-> IF l \in drawing THEN [w.layer[l] EXCEPT !.drawn = Fresh(l), !.gen = g]
                                   ELSE w.layer[l]]
           st == [l \in Layers |-> IF l \in drawing THEN Proxy!ApplyLayerStyle(w, l).style[l] ELSE w.style[l]]
           om == w.onMap \cup UNION {Fresh(l) : l \in {x \in drawing : u.layer[x].vis}}
           x == [w EXCEPT !.gen = gn, !.layer = ly, !.style = st, !.onMap = om]
           es == {IF e.l \in drawing THEN [l |-> e.l, gen |-> x.layer[e.l].gen] ELSE e : e \in x.ears}
           v == [x EXCEPT !.ears = es]
<1>1. Proxy!RerenderLayers(u, ls) = v
  BY DEF Proxy!RerenderLayers, Proxy!BindLayerListenerRecord
<1>2. OverlaysTyped(u) /\ Kin(u) /\ OverlaysFields \subseteq DOMAIN u
  BY DEF OverlaysBut, OverlaysTyped
<1>3. /\ OverlaysBut(w, ls \cup there) /\ DOMAIN w = DOMAIN u
      /\ w.src = u.src /\ w.hot = u.hot /\ w.order = u.order /\ w.zoom = u.zoom
      /\ \A l \in Layers : /\ w.layer[l].on = u.layer[l].on /\ w.layer[l].source = u.layer[l].source
                           /\ w.layer[l].filter = u.layer[l].filter /\ w.layer[l].vis = u.layer[l].vis
                           /\ w.layer[l].paint = u.layer[l].paint
                           /\ l \in there => w.layer[l].drawn = {}
                           /\ l \notin there => w.layer[l] = u.layer[l]
      /\ \A o : o \in w.onMap <=> o \in u.onMap /\ o.l \notin there
      /\ (\A l \in Layers : Styled(u, l)) => \A l \in Layers : Styled(w, l)
  <2> HIDE DEF there
  <2> QED BY OverlaysCleared
<1>4. \A l : \A o \in Fresh(l) : o.l = l
  BY DEF Proxy!CollectFeatures
<1>5. \A l \in Layers : l \in drawing => l \in ls /\ l \in there /\ u.layer[l].on /\ u.src[u.layer[l].source].on
  OBVIOUS
<1>6. \A l \in Layers : l \in ls /\ l \notin drawing => ~Known(u, l)
  BY DEF Known
<1>a. drawing \subseteq Layers
  OBVIOUS
<1>b. ASSUME NEW l \in Layers, l \in drawing PROVE \A o \in Fresh(l) : o.f \in Features
  <2>1. u.layer[l].source \in Sources /\ u.src[u.layer[l].source].data \subseteq Features
    BY <1>5, <1>b DEF OverlaysBut, OverlaysTyped
  <2> HIDE DEF g
  <2> QED BY <2>1 DEF Proxy!CollectFeatures
<1> HIDE DEF drawing, there, w, gn
<1>7. OverlaysTyped(w)
  BY <1>3 DEF OverlaysBut
<1>8. \A l \in Layers : /\ RecordFields \subseteq DOMAIN ly[l]
                        /\ ly[l].on = u.layer[l].on /\ ly[l].source = u.layer[l].source /\ ly[l].filter = u.layer[l].filter
                        /\ ly[l].vis = u.layer[l].vis /\ ly[l].paint = u.layer[l].paint
                        /\ l \in drawing => ly[l].drawn = Fresh(l) /\ ly[l].gen = g
                        /\ l \notin drawing => ly[l] = w.layer[l]
  <2> HIDE DEF g, Fresh
  <2>1. \A l \in Layers : RecordFields \subseteq DOMAIN w.layer[l]
    BY <1>7 DEF OverlaysTyped
  <2> QED BY <1>3, <2>1 DEF RecordFields
<1>9. DOMAIN ly = Layers /\ DOMAIN st = Layers
  OBVIOUS
<1>10. ASSUME NEW l \in Layers, \E i \in DOMAIN w.order : w.order[i] = l, l \in drawing
       PROVE  st[l].paint = w.layer[l].paint /\ st[l].zoom = w.zoom /\ st[l].z \in DOMAIN w.order /\ w.order[st[l].z] = l
  BY <1>7, <1>10, StyledInPlace
<1>11. \A l \in Layers : l \notin drawing => st[l] = w.style[l]
  OBVIOUS
<1> HIDE DEF ly, st
<1>12. ASSUME NEW l \in Layers
       PROVE  {o \in om : o.l = l} = (IF l \in there THEN {} ELSE {o \in u.onMap : o.l = l})
                                     \cup (IF l \in drawing /\ u.layer[l].vis THEN Fresh(l) ELSE {})
  <2> HIDE DEF g, Fresh
  <2> QED BY <1>3, <1>4
<1>13. \A o \in om : o.l \in Layers
  <2> HIDE DEF g, Fresh
  <2> QED BY <1>a, <1>3, <1>4 DEF OverlaysBut
<1> HIDE DEF om
<1>14. /\ v.src = u.src /\ v.hot = u.hot /\ v.order = u.order /\ v.zoom = u.zoom
       /\ v.layer = ly /\ v.style = st /\ v.onMap = om /\ OverlaysFields \subseteq DOMAIN v
  <2>1. /\ x.src = u.src /\ x.hot = u.hot /\ x.order = u.order /\ x.zoom = u.zoom
        /\ x.layer = ly /\ x.style = st /\ x.onMap = om /\ DOMAIN x = DOMAIN u
    BY <1>2, <1>3 DEF OverlaysFields
  <2> HIDE DEF x, es
  <2> QED BY <1>2, <2>1 DEF OverlaysFields
<1> HIDE DEF v
<1>15. OverlaysTyped(v) /\ Kin(v)
  BY <1>2, <1>8, <1>9, <1>14 DEF OverlaysTyped, Kin
<1>16. ASSUME NEW l \in Layers PROVE Projected(v, l) /\ Placed(v, l) /\ Collected(v, l)
  <2>1. Projected(u, l) /\ Placed(u, l) /\ (l \notin ls => Collected(u, l))
    BY DEF OverlaysBut
  <2>2. Placed(v, l)
    BY <1>8, <1>14, <2>1 DEF Placed
  <2>3. CASE l \in drawing
    <3>1. Projected(v, l)
      <4> HIDE DEF g, Fresh
      <4> QED BY <1>4, <1>b, <1>5, <1>8, <1>12, <1>14, <2>1, <2>3 DEF Projected
    <3>2. Proxy!CollectFeatures(v, l, g) = Fresh(l)
      BY <1>8, <1>14 DEF Proxy!CollectFeatures
    <3>3. Collected(v, l)
      <4> HIDE DEF Fresh, g
      <4> QED BY <1>8, <1>14, <2>3, <3>2 DEF Collected
    <3> QED BY <2>2, <3>1, <3>3
  <2>4. CASE l \notin drawing
    <3>1. Projected(v, l)
      <4> HIDE DEF g, Fresh
      <4> QED BY <1>3, <1>8, <1>12, <1>14, <2>1, <2>4 DEF Projected
    <3>2. CASE l \in ls
      BY <1>6, <1>8, <1>14, <2>2, <2>4, <3>1, <3>2 DEF Collected, Known
    <3>3. CASE l \notin ls
      <4>1. l \notin there
        BY <3>3 DEF there
      <4>2. v.layer[l] = u.layer[l]
        BY <1>3, <1>8, <1>14, <2>4, <4>1
      <4>3. Collected(v, l)
        BY <1>14, <2>1, <3>3, <4>2, CollectedSame
      <4> QED BY <2>2, <3>1, <4>3
    <3> QED BY <3>2, <3>3
  <2> QED BY <2>3, <2>4
<1>17. \A o \in v.onMap : o.l \in Layers
  BY <1>13, <1>14
<1>18. OverlaysBut(v, {})
  BY <1>15, <1>16, <1>17 DEF OverlaysBut
<1>19. ASSUME \A l \in Layers : Styled(u, l), NEW l \in Layers PROVE Styled(v, l)
  <2>1. Styled(w, l) /\ Placed(u, l)
    BY <1>3, <1>19 DEF OverlaysBut
  <2>2. CASE l \in drawing
    BY <1>3, <1>5, <1>8, <1>10, <1>14, <2>1, <2>2 DEF Styled, Placed
  <2>3. CASE l \notin drawing
    BY <1>3, <1>8, <1>11, <1>14, <2>1, <2>3 DEF Styled
  <2> QED BY <2>2, <2>3
<1> QED BY <1>1, <1>18, <1>19 DEF OverlaysSound

(* A layer that is removed leaves nothing on the map or in its source.     *)
LEMMA OverlaysRemoved ==
    ASSUME NEW u, OverlaysSound(u), NEW l \in Layers
    PROVE  OverlaysSound(Proxy!LayerRemoved(u, l)) /\ ~Proxy!LayerRemoved(u, l).layer[l].on
<1>1. CASE ~u.layer[l].on
  BY <1>1 DEF Proxy!LayerRemoved
<1>2. CASE u.layer[l].on
  <2> DEFINE w == Proxy!ClearLayerOverlays(u, {l})
             s == u.layer[l].source
             sr == [w.src EXCEPT ![s].layers = @ \ {l}]
             ly == [w.layer EXCEPT ![l].on = FALSE]
             q == Proxy!RemoveFirst(w.order, l)
             x == [w EXCEPT !.src = sr, !.layer = ly, !.order = q, !.ears = {e \in @ : e.l # l}]
  <2>1. Proxy!LayerRemoved(u, l) = Proxy!UpdateAllLayerZIndices(
          [w EXCEPT !.src[s].layers = @ \ {l}, !.layer[l].on = FALSE, !.order = Proxy!RemoveFirst(@, l),
                    !.ears = {e \in @ : e.l # l}])
    BY <1>2 DEF Proxy!LayerRemoved
  <2>2. /\ OverlaysBut(w, {l}) /\ w.layer[l].drawn = {} /\ w.layer[l].source = s
        /\ \A o : o \in w.onMap => o \in u.onMap /\ o.l # l
    <3>1. OverlaysBut(u, {})
      BY DEF OverlaysSound
    <3>2. {} \cup {l} = {l}
      OBVIOUS
    <3>3. OverlaysBut(w, {} \cup {l})
      BY <3>1, OverlaysCleared
    <3>4. OverlaysBut(w, {l})
      BY <3>2, <3>3
    <3>5. w.layer[l].drawn = {} /\ w.layer[l].source = s /\ \A o : o \in w.onMap => o \in u.onMap /\ o.l # l
      <4>1. \A k \in Layers : k \in {l} => Proxy!ClearLayerOverlays(u, {l}).layer[k].drawn = {}
        BY <3>1, OverlaysCleared
      <4>2. Proxy!ClearLayerOverlays(u, {l}).layer[l].source = u.layer[l].source
        BY DEF Proxy!ClearLayerOverlays, OverlaysSound, OverlaysBut, OverlaysTyped, OverlaysFields, RecordFields
      <4>3. \A o : o \in Proxy!ClearLayerOverlays(u, {l}).onMap <=> o \in u.onMap /\ o.l \notin {l}
        BY <3>1, OverlaysCleared
      <4> QED BY <4>1, <4>2, <4>3
    <3> QED BY <3>4, <3>5
  <2>a. s \in Sources
    BY <1>2 DEF OverlaysSound, OverlaysBut, OverlaysTyped
  <2> HIDE DEF w, s
  <2>3. OverlaysTyped(w) /\ Kin(w) /\ OverlaysFields \subseteq DOMAIN w
    BY <2>2 DEF OverlaysBut, OverlaysTyped
  <2>4. [w EXCEPT !.src[s].layers = @ \ {l}, !.layer[l].on = FALSE, !.order = Proxy!RemoveFirst(@, l),
                  !.ears = {e \in @ : e.l # l}] = x
    BY <2>3 DEF OverlaysFields
  <2>5. /\ DOMAIN sr = Sources
        /\ \A k \in Sources : /\ SourceFields \subseteq DOMAIN sr[k] /\ sr[k].on = w.src[k].on /\ sr[k].data = w.src[k].data
                              /\ sr[k].layers \subseteq w.src[k].layers
        /\ l \notin sr[s].layers
    BY <2>a, <2>3 DEF OverlaysTyped, SourceFields
  <2>6. /\ DOMAIN ly = Layers /\ RecordFields \subseteq DOMAIN ly[l]
        /\ ly[l].on = FALSE /\ ly[l].drawn = w.layer[l].drawn /\ ly[l].vis = w.layer[l].vis
        /\ \A k \in Layers : k # l => ly[k] = w.layer[k]
    BY <2>3 DEF OverlaysTyped, RecordFields
  <2>7. q \in Seq(Layers) /\ \A i \in DOMAIN w.order : w.order[i] # l => \E j \in DOMAIN q : q[j] = w.order[i]
    BY <2>3, FirstGone DEF OverlaysTyped
  <2> HIDE DEF sr, ly, q
  <2>8. /\ x.src = sr /\ x.hot = w.hot /\ x.layer = ly /\ x.style = w.style /\ x.onMap = w.onMap
        /\ x.order = q /\ x.zoom = w.zoom /\ DOMAIN x = DOMAIN w
    BY <2>3 DEF OverlaysFields
  <2> HIDE DEF x
  <2>9. OverlaysTyped(x)
    BY <2>3, <2>5, <2>6, <2>7, <2>8 DEF OverlaysTyped
  <2>10. Kin(x)
    BY <2>2, <2>3, <2>5, <2>6, <2>8 DEF Kin
  <2>11. ASSUME NEW k \in Layers PROVE Projected(x, k) /\ Placed(x, k) /\ Collected(x, k)
    <3>1. Projected(w, k) /\ Placed(w, k) /\ (k # l => Collected(w, k))
      BY <2>2 DEF OverlaysBut
    <3>2. CASE k = l
      BY <2>2, <2>6, <2>8, <3>1, <3>2 DEF Projected, Placed, Collected, Known
    <3>3. CASE k # l
      <4>1. x.layer[k] = w.layer[k]
        BY <2>6, <2>8, <3>3
      <4>2. Projected(x, k) /\ Placed(x, k)
        BY <2>7, <2>8, <3>1, <3>3, <4>1 DEF Projected, Placed
      <4>3. CASE ~w.layer[k].on
        BY <4>1, <4>2, <4>3 DEF Collected, Known
      <4>4. CASE w.layer[k].on
        <5>1. w.layer[k].source \in Sources
          BY <2>3, <4>4 DEF OverlaysTyped
        <5> QED BY <2>5, <2>8, <3>1, <3>3, <4>1, <4>2, <5>1, CollectedSame
      <4> QED BY <4>3, <4>4
    <3> QED BY <3>2, <3>3
  <2>12. OverlaysBut(x, {})
    BY <2>2, <2>8, <2>9, <2>10, <2>11 DEF OverlaysBut
  <2>13. OverlaysSound(Proxy!UpdateAllLayerZIndices(x)) /\ Proxy!UpdateAllLayerZIndices(x).layer = ly
    BY <2>8, <2>12, Restyled
  <2> QED BY <2>1, <2>4, <2>6, <2>13
<1> QED BY <1>1, <1>2

(* A source, its data or its feature state: its layers are to be drawn.    *)
LEMMA SourceReplaced ==
    ASSUME NEW u, NEW ks, OverlaysBut(u, ks), \A l \in Layers : Styled(u, l), NEW s \in Sources,
           \A l \in Layers : l \in ks => u.layer[l].source = s,
           NEW w, OverlaysFields \subseteq DOMAIN w, \A f \in OverlaysFields \ {"src", "hot"} : w[f] = u[f],
           DOMAIN w.src = Sources, DOMAIN w.hot = Sources,
           \A k \in Sources : k # s => w.src[k] = u.src[k] /\ w.hot[k] = u.hot[k],
           SourceFields \subseteq DOMAIN w.src[s], w.src[s].on \in BOOLEAN, w.src[s].data \subseteq Features,
           w.src[s].layers \subseteq u.src[s].layers
    PROVE  /\ OverlaysBut(w, IF w.src[s].on THEN w.src[s].layers ELSE {}) /\ (\A l \in Layers : Styled(w, l))
           /\ w.gen = u.gen /\ w.src[s].layers \subseteq Layers
<1> DEFINE ls == IF w.src[s].on THEN w.src[s].layers ELSE {}
<1>1. OverlaysTyped(u) /\ Kin(u) /\ OverlaysFields \subseteq DOMAIN u
  BY DEF OverlaysBut, OverlaysTyped
<1>2. \A k \in Sources : k # s => w.src[k] = u.src[k] /\ w.hot[k] = u.hot[k]
  OBVIOUS
<1>3. /\ w.layer = u.layer /\ w.style = u.style /\ w.onMap = u.onMap
      /\ w.order = u.order /\ w.zoom = u.zoom /\ w.gen = u.gen
  BY DEF OverlaysFields
<1>4. OverlaysTyped(w) /\ Kin(w)
  BY <1>1, <1>2, <1>3 DEF OverlaysTyped, Kin
<1>5. ASSUME NEW l \in Layers PROVE Projected(w, l) /\ Placed(w, l) /\ Styled(w, l) /\ (l \notin ls => Collected(w, l))
  <2>1. Projected(u, l) /\ Placed(u, l) /\ Styled(u, l) /\ (l \notin ks => Collected(u, l))
    BY DEF OverlaysBut
  <2>2. Projected(w, l) /\ Placed(w, l) /\ Styled(w, l)
    BY <1>3, <2>1 DEF Projected, Placed, Styled
  <2>3. ASSUME l \notin ls PROVE Collected(w, l)
    <3>1. CASE ~u.layer[l].on
      BY <1>3, <3>1 DEF Collected, Known
    <3>2. CASE u.layer[l].on /\ u.layer[l].source = s
      BY <1>2, <1>3, <2>3, <3>2 DEF Collected, Known
    <3>3. CASE u.layer[l].on /\ u.layer[l].source # s
      <4>1. u.layer[l].source \in Sources /\ Collected(u, l)
        BY <1>1, <2>1, <3>3 DEF OverlaysTyped
      <4>2. w.layer[l] = u.layer[l] /\ w.src[u.layer[l].source] = u.src[u.layer[l].source] /\ w.hot[u.layer[l].source] = u.hot[u.layer[l].source]
        BY <1>2, <1>3, <3>3, <4>1
      <4> QED BY <4>1, <4>2, CollectedSame
    <3> QED BY <3>1, <3>2, <3>3
  <2> QED BY <2>2, <2>3
<1>6. OverlaysBut(w, ls)
  BY <1>3, <1>4, <1>5 DEF OverlaysBut
<1> QED BY <1>1, <1>3, <1>5, <1>6 DEF Kin

(* What is told of a layer, and which overlays are on the map for it.      *)
LEMMA RecordReplaced ==
    ASSUME NEW u, OverlaysSound(u), NEW l \in Layers, NEW r, RecordFields \subseteq DOMAIN r,
           r.on = u.layer[l].on, r.source = u.layer[l].source, r.drawn = u.layer[l].drawn, r.gen = u.layer[l].gen,
           r.vis \in BOOLEAN, NEW om,
           \A o \in om : o.l \in Layers, \A o : o.l # l => (o \in om <=> o \in u.onMap),
           \A o : o \in om /\ o.l = l <=> r.on /\ r.vis /\ o \in r.drawn,
           NEW w, DOMAIN w = DOMAIN u, \A f \in OverlaysFields \ {"layer", "onMap"} : w[f] = u[f],
           w.onMap = om, DOMAIN w.layer = Layers, w.layer[l] = r, \A k \in Layers : k # l => w.layer[k] = u.layer[k]
    PROVE  /\ OverlaysBut(w, {l}) /\ (r.filter = u.layer[l].filter => OverlaysBut(w, {}))
           /\ \A k \in Layers : k # l \/ r.paint = u.layer[l].paint => Styled(w, k)
           /\ w.gen = u.gen
<1> DEFINE ly == w.layer
<1>1. OverlaysTyped(u) /\ Kin(u) /\ OverlaysFields \subseteq DOMAIN u /\ OverlaysBut(u, {})
  BY DEF OverlaysSound, OverlaysBut, OverlaysTyped
<1>2. DOMAIN ly = Layers /\ ly[l] = r /\ \A k \in Layers : k # l => ly[k] = u.layer[k]
  OBVIOUS
<1> HIDE DEF ly
<1>3. /\ w.src = u.src /\ w.hot = u.hot /\ w.layer = ly /\ w.style = u.style /\ w.onMap = om
      /\ w.order = u.order /\ w.zoom = u.zoom /\ w.gen = u.gen /\ DOMAIN w = DOMAIN u
  BY <1>1 DEF OverlaysFields, ly
<1>4. OverlaysTyped(w) /\ Kin(w)
  BY <1>1, <1>2, <1>3 DEF OverlaysTyped, Kin
<1>5. ASSUME NEW k \in Layers
      PROVE  /\ Projected(w, k) /\ Placed(w, k) /\ (k # l \/ r.filter = u.layer[l].filter => Collected(w, k))
             /\ k # l \/ r.paint = u.layer[l].paint => Styled(w, k)
  <2>1. Projected(u, k) /\ Placed(u, k) /\ Styled(u, k) /\ Collected(u, k)
    BY DEF OverlaysSound, OverlaysBut
  <2>2. CASE k = l
    <3>1. Projected(w, k)
      BY <1>2, <1>3, <2>1, <2>2 DEF Projected
    <3>2. Placed(w, k) /\ (r.paint = u.layer[l].paint => Styled(w, k))
      BY <1>2, <1>3, <2>1, <2>2 DEF Placed, Styled
    <3>3. ASSUME r.filter = u.layer[l].filter PROVE Collected(w, k)
      <4>1. Proxy!CollectFeatures(w, k, r.gen) = Proxy!CollectFeatures(u, k, r.gen)
        BY <1>2, <1>3, <2>2, <3>3 DEF Proxy!CollectFeatures
      <4>2. Known(w, k) => Known(u, k)
        BY <1>2, <1>3, <2>2 DEF Known
      <4> QED BY <1>2, <1>3, <2>1, <2>2, <4>1, <4>2 DEF Collected
    <3> QED BY <2>2, <3>1, <3>2, <3>3
  <2>3. CASE k # l
    <3>1. w.layer[k] = u.layer[k] /\ {o \in w.onMap : o.l = k} = {o \in u.onMap : o.l = k}
      BY <1>2, <1>3, <2>3
    <3>2. Collected(w, k)
      BY <1>3, <2>1, <3>1, CollectedSame
    <3> QED BY <1>3, <2>1, <2>3, <3>1, <3>2 DEF Projected, Placed, Styled
  <2> QED BY <2>2, <2>3
<1>6. OverlaysBut(w, {l}) /\ (r.filter = u.layer[l].filter => OverlaysBut(w, {}))
  BY <1>3, <1>4, <1>5 DEF OverlaysBut
<1> QED BY <1>2, <1>3, <1>5, <1>6

LEMMA OverlaysActed ==
    ASSUME NEW u, OverlaysSound(u)
    PROVE  OverlaysSound(Proxy!Acted(u))
<1> DEFINE w == Proxy!Acted(u)
<1>1. OverlaysTyped(u) /\ OverlaysFields \subseteq DOMAIN u
  BY DEF OverlaysSound, OverlaysBut, OverlaysTyped
<1>2. OverlaysFields \subseteq DOMAIN w /\ \A f \in OverlaysFields \ {"gen"} : w[f] = u[f]
  BY <1>1 DEF Proxy!Acted, OverlaysFields
<1> HIDE DEF w
<1>3. OverlaysSound(w)
  BY <1>1, <1>2, OverlaysSame
<1> QED BY <1>3 DEF w

(* The map's making, its popups, markers and listeners draw nothing.       *)
LEMMA OverlaysUntouched ==
    ASSUME OverlaysSound(ui),
           \/ Proxy!Initialize \/ Proxy!LibraryReady \/ Proxy!LibraryTimesOut \/ Proxy!ClickMap \/ Proxy!AddMarker
           \/ Proxy!ClickMarker \/ Proxy!RemoveMarker
           \/ \E p \in Popups : \/ Proxy!OpenPopup(p) \/ Proxy!ListenForClick(p) \/ Proxy!RemovePopup(p)
                                \/ Proxy!CloseButton(p) \/ Proxy!SetPopup(p)
           \/ \E l \in Layers : Proxy!OnLayer(l) \/ Proxy!OffLayer(l)
    PROVE  OverlaysSound(ui')
<1> DEFINE Alike(u, w) == OverlaysFields \subseteq DOMAIN w /\ \A f \in OverlaysFields \ {"gen"} : w[f] = u[f]
<1>1. OverlaysTyped(ui) /\ Alike(ui, ui)
  BY DEF OverlaysSound, OverlaysBut, OverlaysTyped
<1>2. ASSUME NEW u, Alike(ui, u), NEW w, Alike(u, w) PROVE Alike(ui, w)
  BY <1>2
<1>3. ASSUME NEW u, Alike(ui, u), NEW ps PROVE Alike(ui, Proxy!Acted(u)) /\ Alike(ui, Proxy!PopupsRemoved(u, ps))
  BY <1>3 DEF Proxy!Acted, Proxy!PopupsRemoved, OverlaysFields
<1>4. ASSUME NEW p PROVE Alike(ui, Proxy!Opened(ui, p))
  <2> DEFINE w == IF ui.active \notin {p, NoPopup} THEN Proxy!PopupRemoved(ui, ui.active) ELSE ui
  <2>1. Alike(ui, w)
    BY <1>1, <1>3 DEF Proxy!PopupRemoved
  <2>2. Proxy!Opened(ui, p) = [w EXCEPT !.active = p, !.open = @ \cup {p}, !.timers[p] = @ + 1,
                                       !.raced = @ \/ w.ear[p] # 0 \/ w.timers[p] > 0]
    BY DEF Proxy!Opened
  <2> HIDE DEF w
  <2> QED BY <2>1, <2>2 DEF OverlaysFields
<1>5. ASSUME Alike(ui, ui') PROVE OverlaysSound(ui')
  BY <1>1, <1>5, OverlaysSame
<1>6. CASE Proxy!Initialize \/ Proxy!LibraryReady \/ Proxy!LibraryTimesOut
  <2>1. Alike(ui, ui')
    BY <1>1, <1>6 DEF Proxy!Initialize, Proxy!LibraryReady, Proxy!LibraryTimesOut, Proxy!Acted, OverlaysFields
  <2> QED BY <1>5, <2>1
<1>7. CASE Proxy!AddMarker \/ Proxy!RemoveMarker
  <2>1. Alike(ui, ui')
    BY <1>1, <1>7 DEF Proxy!AddMarker, Proxy!RemoveMarker, Proxy!Acted, OverlaysFields
  <2> QED BY <1>5, <2>1
<1>8. CASE Proxy!ClickMap \/ Proxy!ClickMarker
  <2> HIDE DEF Alike
  <2>1. Alike(ui, ui')
    BY <1>1, <1>3, <1>4, <1>8 DEF Proxy!ClickMap, Proxy!ClickMarker
  <2> QED BY <1>5, <2>1
<1>9. ASSUME NEW p, Proxy!OpenPopup(p) \/ Proxy!RemovePopup(p) PROVE OverlaysSound(ui')
  <2> HIDE DEF Alike
  <2>1. Alike(ui, ui')
    BY <1>1, <1>3, <1>4, <1>9 DEF Proxy!OpenPopup, Proxy!RemovePopup, Proxy!PopupRemoved
  <2> QED BY <1>5, <2>1
<1>10. ASSUME NEW p, Proxy!ListenForClick(p) \/ Proxy!CloseButton(p) \/ Proxy!SetPopup(p) PROVE OverlaysSound(ui')
  <2>1. Alike(ui, ui')
    BY <1>1, <1>10 DEF Proxy!ListenForClick, Proxy!CloseButton, Proxy!SetPopup, Proxy!Acted, OverlaysFields
  <2> QED BY <1>5, <2>1
<1>11. ASSUME NEW l, Proxy!OnLayer(l) \/ Proxy!OffLayer(l) PROVE OverlaysSound(ui')
  <2>1. Alike(ui, ui')
    BY <1>1, <1>11 DEF Proxy!OnLayer, Proxy!OffLayer, Proxy!Acted, OverlaysFields
  <2> QED BY <1>5, <2>1
<1> QED BY <1>6, <1>7, <1>8, <1>9, <1>10, <1>11

(* The zoom: every layer gets the style of it.                             *)
LEMMA OverlaysZoomed ==
    ASSUME OverlaysSound(ui), NEW z, NEW c
    PROVE  /\ OverlaysSound(Proxy!UpdateAllLayerZIndices([ui EXCEPT !.zoom = z]))
           /\ OverlaysSound(Proxy!UpdateAllLayerZIndices([ui EXCEPT !.zoom = z, !.clamp = c]))
<1>1. OverlaysTyped(ui) /\ Kin(ui) /\ OverlaysFields \subseteq DOMAIN ui /\ OverlaysBut(ui, {})
  BY DEF OverlaysSound, OverlaysBut, OverlaysTyped
<1>2. ASSUME NEW w, DOMAIN w = DOMAIN ui, \A f \in OverlaysFields \ {"zoom"} : w[f] = ui[f]
      PROVE  OverlaysBut(w, {})
  <2>1. /\ w.src = ui.src /\ w.hot = ui.hot /\ w.layer = ui.layer /\ w.style = ui.style /\ w.onMap = ui.onMap
        /\ w.order = ui.order
    BY <1>2 DEF OverlaysFields
  <2>2. \A l \in Layers : Projected(w, l) /\ Placed(w, l)
    BY <1>1, <2>1 DEF OverlaysBut, Projected, Placed
  <2>3. \A l \in Layers : Collected(w, l)
    BY <1>1, <2>1, CollectedSame DEF OverlaysBut
  <2>4. OverlaysTyped(w) /\ Kin(w)
    BY <1>1, <1>2, <2>1 DEF OverlaysTyped, Kin
  <2> QED BY <1>1, <2>1, <2>2, <2>3, <2>4 DEF OverlaysBut
<1> DEFINE v == [ui EXCEPT !.zoom = z]
           w == [ui EXCEPT !.zoom = z, !.clamp = c]
<1>3. /\ DOMAIN v = DOMAIN ui /\ \A f \in OverlaysFields \ {"zoom"} : v[f] = ui[f]
      /\ DOMAIN w = DOMAIN ui /\ \A f \in OverlaysFields \ {"zoom"} : w[f] = ui[f]
  BY <1>1 DEF OverlaysFields
<1> HIDE DEF v, w
<1>4. OverlaysBut(v, {}) /\ OverlaysBut(w, {})
  BY <1>2, <1>3
<1>5. OverlaysSound(Proxy!UpdateAllLayerZIndices(v)) /\ OverlaysSound(Proxy!UpdateAllLayerZIndices(w))
  BY <1>4, Restyled
<1> QED BY <1>5 DEF v, w

LEMMA OverlaysMapKept ==
    ASSUME OverlaysSound(ui),
           \/ Proxy!Idle \/ Proxy!RemoveMap
           \/ \E z \in Zooms : Proxy!ZoomTo(z) \/ \E m \in Zooms : Proxy!FitBounds(z, m)
    PROVE  OverlaysSound(ui')
<1>1. CASE Proxy!Idle
  BY <1>1, OverlaysZoomed DEF Proxy!Idle
<1>2. ASSUME NEW z, NEW m, Proxy!ZoomTo(z) \/ Proxy!FitBounds(z, m) PROVE OverlaysSound(ui')
  <2>1. \/ ui' = Proxy!Acted(Proxy!UpdateAllLayerZIndices([ui EXCEPT !.zoom = z]))
        \/ ui' = Proxy!Acted(Proxy!UpdateAllLayerZIndices([ui EXCEPT !.zoom = z, !.clamp = ui.clamp \cup {m}]))
    BY <1>2 DEF Proxy!ZoomTo, Proxy!FitBounds
  <2> QED BY <2>1, OverlaysZoomed, OverlaysActed
<1>3. CASE Proxy!RemoveMap
  <2> DEFINE ly == [l \in Layers |-> Proxy!NoLayer]
             sr == [s \in Sources |-> Proxy!NoSource]
             ht == [s \in Sources |-> {}]
             w == [ui EXCEPT !.map = "removed", !.src = sr, !.hot = ht, !.layer = ly,
                             !.order = << >>, !.ears = {}, !.onMap = {}]
  <2>1. ui' = Proxy!Acted(w)
    BY <1>3 DEF Proxy!RemoveMap
  <2>2. OverlaysTyped(ui) /\ OverlaysFields \subseteq DOMAIN ui
    BY DEF OverlaysSound, OverlaysBut, OverlaysTyped
  <2>3. /\ DOMAIN ly = Layers /\ DOMAIN sr = Sources /\ DOMAIN ht = Sources
        /\ \A l \in Layers : /\ RecordFields \subseteq DOMAIN ly[l] /\ ~ly[l].on /\ ly[l].drawn = {}
                            /\ ly[l].on \in BOOLEAN /\ ly[l].vis \in BOOLEAN
        /\ \A s \in Sources : SourceFields \subseteq DOMAIN sr[s] /\ sr[s].on \in BOOLEAN /\ sr[s].layers = {}
                             /\ sr[s].data \subseteq Features
    BY DEF Proxy!NoLayer, Proxy!NoSource, RecordFields, SourceFields
  <2> HIDE DEF ly, sr, ht
  <2>4. /\ w.src = sr /\ w.hot = ht /\ w.layer = ly /\ w.style = ui.style /\ w.onMap = {}
        /\ w.order = << >> /\ w.zoom = ui.zoom /\ DOMAIN w = DOMAIN ui
    BY <2>2 DEF OverlaysFields
  <2> HIDE DEF w
  <2>a. << >> \in Seq(Layers)
    OBVIOUS
  <2>5. OverlaysTyped(w) /\ Kin(w)
    BY <2>a, <2>2, <2>3, <2>4 DEF OverlaysTyped, Kin
  <2>6. \A l \in Layers : Projected(w, l) /\ Placed(w, l) /\ Collected(w, l) /\ Styled(w, l)
    BY <2>3, <2>4 DEF Projected, Placed, Collected, Known, Styled
  <2>7. OverlaysSound(w)
    BY <2>4, <2>5, <2>6 DEF OverlaysSound, OverlaysBut
  <2> QED BY <2>1, <2>7, OverlaysActed
<1> QED BY <1>1, <1>2, <1>3

LEMMA OverlaysOfSource ==
    ASSUME OverlaysSound(ui), ProxySound(ui), NEW s \in Sources,
           \/ Proxy!RemoveSource(s) \/ \E f \in Features : Proxy!SetFeatureState(s, f)
           \/ \E d \in SUBSET Features : \/ Proxy!AddSource(s, d) \/ Proxy!SetData(s, d)
                                         \/ Proxy!RemoveFeatureState(s, d)
    PROVE  OverlaysSound(ui')
<1>1. /\ OverlaysTyped(ui) /\ OverlaysBut(ui, {}) /\ Kin(ui) /\ OverlaysFields \subseteq DOMAIN ui /\ ui.gen \in Nat
      /\ \A l \in Layers : Styled(ui, l)
  BY DEF OverlaysSound, OverlaysBut, OverlaysTyped, ProxySound
<1>2. /\ DOMAIN ui.src = Sources /\ DOMAIN ui.hot = Sources /\ SourceFields \subseteq DOMAIN ui.src[s] /\ ui.src[s].on \in BOOLEAN
      /\ ui.src[s].data \subseteq Features
  BY <1>1 DEF OverlaysTyped
<1>a. \A l \in Layers : l \in {} => ui.layer[l].source = s
  OBVIOUS
(* With the data or the state of the source changed, its layers are drawn. *)
<1>3. ASSUME NEW w, DOMAIN w = DOMAIN ui, \A f \in OverlaysFields \ {"src", "hot"} : w[f] = ui[f],
             DOMAIN w.src = Sources, DOMAIN w.hot = Sources,
             \A k \in Sources : k # s => w.src[k] = ui.src[k] /\ w.hot[k] = ui.hot[k],
             SourceFields \subseteq DOMAIN w.src[s], w.src[s].on = ui.src[s].on, w.src[s].layers = ui.src[s].layers,
             w.src[s].data \subseteq Features
      PROVE  OverlaysSound(Proxy!Acted(Proxy!RerenderSourceLayers(w, s)))
  <2> DEFINE ls == IF w.src[s].on THEN w.src[s].layers ELSE {}
  <2>0. OverlaysFields \subseteq DOMAIN w /\ w.src[s].on \in BOOLEAN /\ w.src[s].layers \subseteq ui.src[s].layers
    BY <1>1, <1>2, <1>3
  <2>1. OverlaysBut(w, ls) /\ (\A l \in Layers : Styled(w, l)) /\ w.gen = ui.gen /\ w.src[s].layers \subseteq Layers
    BY <1>1, <1>a, <1>3, <2>0, SourceReplaced
  <2>2. Proxy!RerenderSourceLayers(w, s) = Proxy!RerenderLayers(w, ls)
    BY DEF Proxy!RerenderSourceLayers
  <2>3. ls \in SUBSET Layers /\ w.gen \in Nat
    BY <1>1, <2>1
  <2> HIDE DEF ls
  <2> QED BY <2>1, <2>2, <2>3, OverlaysRedrawn, OverlaysActed
<1>4. ASSUME NEW d \in SUBSET Features, Proxy!SetData(s, d) PROVE OverlaysSound(ui')
  <2> DEFINE w == [ui EXCEPT !.src[s].data = d]
  <2>1. /\ DOMAIN w = DOMAIN ui /\ (\A f \in OverlaysFields \ {"src", "hot"} : w[f] = ui[f])
        /\ DOMAIN w.src = Sources /\ w.hot = ui.hot
        /\ (\A k \in Sources : k # s => w.src[k] = ui.src[k])
        /\ SourceFields \subseteq DOMAIN w.src[s] /\ w.src[s].on = ui.src[s].on /\ w.src[s].layers = ui.src[s].layers
        /\ w.src[s].data = d
    BY <1>1, <1>2 DEF OverlaysFields, SourceFields
  <2>3. ui' = Proxy!Acted(Proxy!RerenderSourceLayers(w, s))
    BY <1>4 DEF Proxy!SetData
  <2> HIDE DEF w
  <2> QED BY <1>2, <1>3, <2>1, <2>3
<1>5. ASSUME NEW f, Proxy!SetFeatureState(s, f) \/ Proxy!RemoveFeatureState(s, f) PROVE OverlaysSound(ui')
  <2>0. ASSUME NEW h PROVE OverlaysSound(Proxy!Acted(Proxy!RerenderSourceLayers([ui EXCEPT !.hot[s] = h], s)))
    <3> DEFINE w == [ui EXCEPT !.hot[s] = h]
    <3>1. /\ DOMAIN w = DOMAIN ui /\ (\A e \in OverlaysFields \ {"src", "hot"} : w[e] = ui[e])
          /\ DOMAIN w.hot = Sources /\ w.src = ui.src /\ \A k \in Sources : k # s => w.hot[k] = ui.hot[k]
      BY <1>1, <1>2 DEF OverlaysFields
    <3> HIDE DEF w
    <3>2. OverlaysSound(Proxy!Acted(Proxy!RerenderSourceLayers(w, s)))
      BY <1>2, <1>3, <3>1
    <3> QED BY <3>2 DEF w
  <2>1. \E h : ui' = Proxy!Acted(Proxy!RerenderSourceLayers([ui EXCEPT !.hot[s] = h], s))
    BY <1>5 DEF Proxy!SetFeatureState, Proxy!RemoveFeatureState
  <2> QED BY <2>0, <2>1
<1>6. ASSUME NEW d \in SUBSET Features, Proxy!AddSource(s, d) PROVE OverlaysSound(ui')
  <2> DEFINE r == [on |-> TRUE, data |-> d, layers |-> {}]
             w == [ui EXCEPT !.src[s] = r, !.hot[s] = {}]
  <2>1. SourceFields \subseteq DOMAIN r /\ r.on \in BOOLEAN /\ r.layers = {} /\ r.data \subseteq Features
    BY DEF SourceFields
  <2>3. ui' = Proxy!Acted(w)
    BY <1>6 DEF Proxy!AddSource
  <2> HIDE DEF r
  <2>2. /\ OverlaysFields \subseteq DOMAIN w /\ (\A f \in OverlaysFields \ {"src", "hot"} : w[f] = ui[f])
        /\ DOMAIN w.src = Sources /\ DOMAIN w.hot = Sources /\ w.src[s] = r
        /\ \A k \in Sources : k # s => w.src[k] = ui.src[k] /\ w.hot[k] = ui.hot[k]
    BY <1>1, <1>2 DEF OverlaysFields
  <2> HIDE DEF w
  <2>7. w.src[s].layers \subseteq ui.src[s].layers /\ SourceFields \subseteq DOMAIN w.src[s] /\ w.src[s].on \in BOOLEAN
        /\ w.src[s].data \subseteq Features
    BY <2>1, <2>2
  <2>4. OverlaysBut(w, IF w.src[s].on THEN w.src[s].layers ELSE {}) /\ (\A l \in Layers : Styled(w, l))
    BY <1>1, <1>a, <2>2, <2>7, SourceReplaced
  <2>5. (IF w.src[s].on THEN w.src[s].layers ELSE {}) = {}
    BY <2>1, <2>2
  <2>6. OverlaysSound(w)
    BY <2>4, <2>5 DEF OverlaysSound
  <2> QED BY <2>3, <2>6, OverlaysActed
<1>7. CASE Proxy!RemoveSource(s)
  <2> DEFINE ks == ui.src[s].layers
             u == Proxy!ClearLayerOverlays(ui, ks)
             r == [on |-> FALSE, data |-> {}, layers |-> {}]
             w == [u EXCEPT !.src[s] = r, !.hot[s] = {}]
  <2>1. ui' = Proxy!Acted(w)
    BY <1>7 DEF Proxy!RemoveSource
  <2>2. OverlaysBut(u, {} \cup ks)
    BY <1>1, OverlaysCleared
  <2>5. /\ \A l \in Layers : /\ u.layer[l].source = ui.layer[l].source
                            /\ u.layer[l].on = ui.layer[l].on /\ u.layer[l].paint = ui.layer[l].paint
        /\ u.style = ui.style /\ u.zoom = ui.zoom /\ u.order = ui.order /\ u.src = ui.src /\ u.hot = ui.hot
    BY <1>1 DEF Proxy!ClearLayerOverlays, OverlaysTyped, OverlaysFields, RecordFields
  <2>4. \A l \in Layers : l \in ks => ui.layer[l].source = s
    BY <1>1 DEF Kin
  <2>6. SourceFields \subseteq DOMAIN r /\ ~r.on /\ r.on \in BOOLEAN /\ r.layers = {} /\ r.data \subseteq Features
    BY DEF SourceFields
  <2>8. {} \cup ks = ks
    OBVIOUS
  <2> HIDE DEF ks, u, r
  <2>3. \A l \in Layers : Styled(u, l)
    BY <1>1, <2>5 DEF Styled
  <2>b. OverlaysBut(u, ks) /\ OverlaysFields \subseteq DOMAIN u
    BY <2>2, <2>8 DEF OverlaysBut, OverlaysTyped
  <2>7. /\ OverlaysFields \subseteq DOMAIN w /\ (\A f \in OverlaysFields \ {"src", "hot"} : w[f] = u[f])
        /\ DOMAIN w.src = Sources /\ DOMAIN w.hot = Sources /\ w.src[s] = r
        /\ \A k \in Sources : k # s => w.src[k] = u.src[k] /\ w.hot[k] = u.hot[k]
    BY <1>2, <2>5, <2>b DEF OverlaysFields
  <2> HIDE DEF w
  <2>9. \A l \in Layers : l \in ks => u.layer[l].source = s
    BY <2>4, <2>5
  <2>c. w.src[s].layers \subseteq u.src[s].layers /\ SourceFields \subseteq DOMAIN w.src[s] /\ w.src[s].on \in BOOLEAN
        /\ w.src[s].data \subseteq Features
    BY <2>6, <2>7
  <2>10. OverlaysBut(w, IF w.src[s].on THEN w.src[s].layers ELSE {}) /\ (\A l \in Layers : Styled(w, l))
    BY <2>3, <2>7, <2>9, <2>b, <2>c, SourceReplaced
  <2>11. (IF w.src[s].on THEN w.src[s].layers ELSE {}) = {}
    BY <2>6, <2>7
  <2>12. OverlaysSound(w)
    BY <2>10, <2>11 DEF OverlaysSound
  <2> QED BY <2>1, <2>12, OverlaysActed
<1> QED BY <1>4, <1>5, <1>6, <1>7

(* One record changed: shown or hidden, painted, filtered.                 *)
LEMMA OverlaysOfRecord ==
    ASSUME OverlaysSound(ui), ProxySound(ui), NEW l \in Layers,
           \/ \E v \in BOOLEAN : Proxy!SetVisibility(l, v)
           \/ \E p \in Paints : Proxy!SetPaintProperty(l, p)
           \/ \E fs \in SUBSET Features : Proxy!SetFilter(l, fs)
    PROVE  OverlaysSound(ui')
<1>1. /\ OverlaysTyped(ui) /\ OverlaysBut(ui, {}) /\ OverlaysFields \subseteq DOMAIN ui /\ ui.gen \in Nat
      /\ \A k \in Layers : Styled(ui, k)
  BY DEF OverlaysSound, OverlaysBut, OverlaysTyped, ProxySound
<1>2. /\ DOMAIN ui.layer = Layers /\ RecordFields \subseteq DOMAIN ui.layer[l] /\ ui.layer[l].vis \in BOOLEAN
      /\ ui.layer[l].on \in BOOLEAN /\ (\A o \in ui.onMap : o.l \in Layers) /\ Projected(ui, l) /\ Placed(ui, l)
      /\ DOMAIN ui.style = Layers
  BY <1>1 DEF OverlaysTyped, OverlaysBut
<1>3. ASSUME NEW v \in BOOLEAN, Proxy!SetVisibility(l, v) PROVE OverlaysSound(ui')
  <2> DEFINE r == [ui.layer[l] EXCEPT !.vis = v]
             om == {o \in ui.onMap : o.l # l} \cup IF v THEN ui.layer[l].drawn ELSE {}
             w == [ui EXCEPT !.layer = [ui.layer EXCEPT ![l] = r], !.onMap = om]
  <2>1. /\ RecordFields \subseteq DOMAIN r /\ r.on = ui.layer[l].on /\ r.source = ui.layer[l].source
        /\ r.drawn = ui.layer[l].drawn /\ r.gen = ui.layer[l].gen /\ r.vis = v /\ r.filter = ui.layer[l].filter
        /\ r.paint = ui.layer[l].paint
    BY <1>2 DEF RecordFields
  <2>2. ui' = Proxy!Acted(w)
    <3> DEFINE ly == [ui.layer EXCEPT ![l] = r]
               u == [ui EXCEPT !.layer = ly]
    <3>1. ui' = Proxy!Acted(Proxy!ApplyLayerVisibility(u, l))
      BY <1>3 DEF Proxy!SetVisibility
    <3>2. ly[l] = r
      BY <1>2
    <3> HIDE DEF ly
    <3>3. u.layer = ly /\ u.onMap = ui.onMap
      BY <1>1 DEF OverlaysFields
    <3>4. Proxy!ApplyLayerVisibility(u, l) = [u EXCEPT !.onMap = om]
      BY <2>1, <3>2, <3>3 DEF Proxy!ApplyLayerVisibility
    <3> HIDE DEF om
    <3>5. [u EXCEPT !.onMap = om] = [ui EXCEPT !.layer = ly, !.onMap = om]
      BY <1>1 DEF OverlaysFields
    <3> QED BY <3>1, <3>4, <3>5 DEF ly
  <2> HIDE DEF r
  <2>3. /\ \A o \in om : o.l \in Layers
        /\ \A o : o.l # l => (o \in om <=> o \in ui.onMap)
    BY <1>2 DEF Projected
  <2>4. ui.layer[l].on
    BY <1>3 DEF Proxy!SetVisibility
  <2>5. \A o : o \in om /\ o.l = l <=> r.on /\ r.vis /\ o \in r.drawn
    BY <1>2, <2>1, <2>4 DEF Projected
  <2> HIDE DEF om
  <2> DEFINE ly == [ui.layer EXCEPT ![l] = r]
  <2>8. DOMAIN ly = Layers /\ ly[l] = r /\ \A k \in Layers : k # l => ly[k] = ui.layer[k]
    BY <1>2
  <2> HIDE DEF ly
  <2>7. /\ DOMAIN w = DOMAIN ui /\ w.layer = ly /\ w.onMap = om
        /\ \A f \in OverlaysFields \ {"layer", "onMap"} : w[f] = ui[f]
    BY <1>1 DEF OverlaysFields, ly
  <2> HIDE DEF w
  <2>6. OverlaysBut(w, {}) /\ \A k \in Layers : Styled(w, k)
    <3>1. r.vis \in BOOLEAN
      BY <2>1
    <3>2. \A o \in om : o.l \in Layers
      BY <2>3
    <3>3. \A o : o.l # l => (o \in om <=> o \in ui.onMap)
      BY <2>3
    <3>4. RecordFields \subseteq DOMAIN r
      BY <2>1
    <3>5. r.on = ui.layer[l].on /\ r.source = ui.layer[l].source /\ r.drawn = ui.layer[l].drawn /\ r.gen = ui.layer[l].gen
      BY <2>1
    <3>6. /\ OverlaysBut(w, {l}) /\ (r.filter = ui.layer[l].filter => OverlaysBut(w, {}))
          /\ \A k \in Layers : k # l \/ r.paint = ui.layer[l].paint => Styled(w, k)
      BY <3>1, <3>2, <3>3, <3>4, <3>5, <2>5, <2>7, <2>8, RecordReplaced
    <3> QED BY <2>1, <3>6
  <2> QED BY <2>2, <2>6, OverlaysActed DEF OverlaysSound
<1>4. ASSUME NEW r, RecordFields \subseteq DOMAIN r, r.on = ui.layer[l].on, r.source = ui.layer[l].source,
             r.drawn = ui.layer[l].drawn, r.gen = ui.layer[l].gen, r.vis = ui.layer[l].vis
      PROVE  LET w == [ui EXCEPT !.layer = [ui.layer EXCEPT ![l] = r]] IN
             /\ OverlaysBut(w, {l}) /\ w.gen = ui.gen /\ w.layer[l] = r
             /\ (r.filter = ui.layer[l].filter => OverlaysBut(w, {}))
             /\ \A k \in Layers : k # l \/ r.paint = ui.layer[l].paint => Styled(w, k)
             /\ OverlaysFields \subseteq DOMAIN w
  <2> DEFINE om == ui.onMap
             w == [ui EXCEPT !.layer = [ui.layer EXCEPT ![l] = r]]
  <2> DEFINE ly == [ui.layer EXCEPT ![l] = r]
  <2>7. DOMAIN ly = Layers /\ ly[l] = r /\ \A k \in Layers : k # l => ly[k] = ui.layer[k]
    BY <1>2
  <2> HIDE DEF ly
  <2>2. /\ DOMAIN w = DOMAIN ui /\ w.layer = ly /\ w.onMap = om
        /\ \A e \in OverlaysFields \ {"layer", "onMap"} : w[e] = ui[e]
    BY <1>1 DEF OverlaysFields, ly
  <2>3. \A o : o \in om /\ o.l = l <=> r.on /\ r.vis /\ o \in r.drawn
    BY <1>2, <1>4 DEF Projected
  <2>4. r.vis \in BOOLEAN
    BY <1>2, <1>4
  <2>a. \A o \in om : o.l \in Layers
    BY <1>2
  <2>b. \A o : o.l # l => (o \in om <=> o \in ui.onMap)
    OBVIOUS
  <2>c. RecordFields \subseteq DOMAIN r
    BY <1>4
  <2>d. r.on = ui.layer[l].on /\ r.source = ui.layer[l].source /\ r.drawn = ui.layer[l].drawn /\ r.gen = ui.layer[l].gen
    BY <1>4
  <2> HIDE DEF om, w
  <2>5. /\ OverlaysBut(w, {l}) /\ (r.filter = ui.layer[l].filter => OverlaysBut(w, {}))
        /\ \A k \in Layers : k # l \/ r.paint = ui.layer[l].paint => Styled(w, k)
        /\ w.gen = ui.gen
    BY <2>2, <2>7, <2>3, <2>4, <2>a, <2>b, <2>c, <2>d, RecordReplaced
  <2>6. OverlaysFields \subseteq DOMAIN w /\ w.layer[l] = r
    BY <1>1, <2>2, <2>7
  <2> QED BY <2>5, <2>6 DEF w
<1>5. ASSUME NEW p, Proxy!SetPaintProperty(l, p) PROVE OverlaysSound(ui')
  <2> DEFINE r == [ui.layer[l] EXCEPT !.paint = p]
             w == [ui EXCEPT !.layer = [ui.layer EXCEPT ![l] = r]]
             e == Proxy!ApplyLayerStyle(w, l)
  <2>1. ui' = Proxy!Acted(e) /\ ui.layer[l].on
    BY <1>5 DEF Proxy!SetPaintProperty
  <2>r. /\ RecordFields \subseteq DOMAIN r /\ r.on = ui.layer[l].on /\ r.source = ui.layer[l].source
        /\ r.drawn = ui.layer[l].drawn /\ r.gen = ui.layer[l].gen /\ r.vis = ui.layer[l].vis /\ r.filter = ui.layer[l].filter
    BY <1>2 DEF RecordFields
  <2> HIDE DEF r
  <2>2. OverlaysBut(w, {}) /\ (\A k \in Layers : k # l => Styled(w, k)) /\ OverlaysFields \subseteq DOMAIN w /\ w.layer[l] = r
    BY <1>4, <2>r
  <2>3. OverlaysTyped(w) /\ Placed(w, l) /\ DOMAIN w.style = Layers /\ w.layer[l].on
    <3> QED BY <2>1, <2>2, <2>r DEF OverlaysBut, OverlaysTyped
  <2> HIDE DEF w
  <2>4. LET z == e.style[l] IN
        z.paint = w.layer[l].paint /\ z.zoom = w.zoom /\ z.z \in DOMAIN w.order /\ w.order[z.z] = l
    BY <2>3, StyledInPlace DEF Placed
  <2>5. \E st : e = [w EXCEPT !.style = [w.style EXCEPT ![l] = st]]
    BY DEF Proxy!ApplyLayerStyle
  <2>6. /\ e.src = w.src /\ e.hot = w.hot /\ e.layer = w.layer /\ e.onMap = w.onMap /\ DOMAIN e.style = Layers
        /\ e.order = w.order /\ e.zoom = w.zoom /\ DOMAIN e = DOMAIN w /\ \A k \in Layers : k # l => e.style[k] = w.style[k]
    BY <2>2, <2>3, <2>5 DEF OverlaysFields
  <2> HIDE DEF e
  <2>7. \A k \in Layers : (Projected(w, k) => Projected(e, k)) /\ (Placed(w, k) => Placed(e, k))
    BY <2>6 DEF Projected, Placed
  <2>8. \A k \in Layers : Collected(w, k) => Collected(e, k)
    BY <2>6, CollectedSame
  <2>9. OverlaysTyped(e) /\ (Kin(w) => Kin(e)) /\ ((\A o \in w.onMap : o.l \in Layers) => \A o \in e.onMap : o.l \in Layers)
    BY <2>2, <2>3, <2>6 DEF OverlaysTyped, Kin
  <2>10. OverlaysBut(e, {})
    BY <2>2, <2>7, <2>8, <2>9 DEF OverlaysBut
  <2>11. ASSUME NEW k \in Layers PROVE Styled(e, k)
    BY <2>2, <2>4, <2>6 DEF Styled
  <2> QED BY <2>1, <2>10, <2>11, OverlaysActed DEF OverlaysSound
<1>6. ASSUME NEW fs, Proxy!SetFilter(l, fs) PROVE OverlaysSound(ui')
  <2> DEFINE r == [ui.layer[l] EXCEPT !.filter = fs]
             w == [ui EXCEPT !.layer = [ui.layer EXCEPT ![l] = r]]
  <2>1. ui' = Proxy!Acted(Proxy!RerenderLayers(w, {l}))
    BY <1>6 DEF Proxy!SetFilter, Proxy!RerenderLayer
  <2>r. /\ RecordFields \subseteq DOMAIN r /\ r.on = ui.layer[l].on /\ r.source = ui.layer[l].source
        /\ r.drawn = ui.layer[l].drawn /\ r.gen = ui.layer[l].gen /\ r.vis = ui.layer[l].vis /\ r.paint = ui.layer[l].paint
    BY <1>2 DEF RecordFields
  <2> HIDE DEF r
  <2>2. OverlaysBut(w, {l}) /\ (\A k \in Layers : Styled(w, k)) /\ w.gen \in Nat
    BY <1>1, <1>4, <2>r
  <2>3. {l} \in SUBSET Layers
    OBVIOUS
  <2> HIDE DEF w
  <2> QED BY <2>1, <2>2, <2>3, OverlaysRedrawn, OverlaysActed
<1> QED BY <1>3, <1>5, <1>6

(* A layer gone, moved or added: the others keep their place.              *)
LEMMA OverlaysOfOrder ==
    ASSUME OverlaysSound(ui), NEW l \in Layers, Proxy!RemoveLayer(l) \/ \E b \in Layers : Proxy!MoveLayer(l, b)
    PROVE  OverlaysSound(ui')
<1>1. CASE Proxy!RemoveLayer(l)
  BY <1>1, OverlaysRemoved, OverlaysActed DEF Proxy!RemoveLayer
<1>2. ASSUME NEW b, Proxy!MoveLayer(l, b) PROVE OverlaysSound(ui')
  <2> DEFINE q == Proxy!RemoveFirst(ui.order, l)
             n == Proxy!Inserted(q, l, b)
             w == [ui EXCEPT !.order = n]
  <2>1. /\ OverlaysTyped(ui) /\ OverlaysBut(ui, {}) /\ OverlaysFields \subseteq DOMAIN ui /\ ui.order \in Seq(Layers)
    BY DEF OverlaysSound, OverlaysBut, OverlaysTyped
  <2>2. q \in Seq(Layers) /\ \A i \in DOMAIN ui.order : ui.order[i] # l => \E j \in DOMAIN q : q[j] = ui.order[i]
    BY <2>1, FirstGone
  <2>3. ui' = Proxy!Acted(Proxy!UpdateAllLayerZIndices(w))
    BY <1>2 DEF Proxy!MoveLayer
  <2> HIDE DEF q
  <2>a. q \in Seq(Layers)
    BY <2>2
  <2>4. /\ n \in Seq(Layers) /\ (\E j \in DOMAIN n : n[j] = l)
        /\ \A i \in DOMAIN q : \E j \in DOMAIN n : n[j] = q[i]
    <3>1. Joined(q, n, l, Layers)
      BY <2>a, PlaceFound
    <3> HIDE DEF n
    <3> QED BY <3>1 DEF Joined
  <2> HIDE DEF n
  <2>5. /\ w.src = ui.src /\ w.hot = ui.hot /\ w.layer = ui.layer /\ w.style = ui.style /\ w.onMap = ui.onMap
        /\ w.order = n /\ w.zoom = ui.zoom /\ DOMAIN w = DOMAIN ui
    BY <2>1 DEF OverlaysFields
  <2> HIDE DEF w
  <2>6. ASSUME NEW k \in Layers PROVE Projected(w, k) /\ Placed(w, k) /\ Collected(w, k)
    <3>1. Projected(ui, k) /\ Placed(ui, k) /\ Collected(ui, k)
      BY <2>1 DEF OverlaysBut
    <3>2. Collected(w, k)
      BY <2>5, <3>1, CollectedSame
    <3>3. ASSUME ui.layer[k].on PROVE \E j \in DOMAIN n : n[j] = k
      <4>1. PICK i \in DOMAIN ui.order : ui.order[i] = k
        BY <3>1, <3>3 DEF Placed
      <4>2. CASE k = l
        BY <2>4, <4>2
      <4>3. CASE k # l
        BY <2>2, <2>4, <4>1, <4>3
      <4> QED BY <4>2, <4>3
    <3> QED BY <2>5, <3>1, <3>2, <3>3 DEF Projected, Placed
  <2>7. OverlaysTyped(w) /\ Kin(w) /\ \A o \in w.onMap : o.l \in Layers
    BY <2>1, <2>4, <2>5 DEF OverlaysBut, OverlaysTyped, Kin
  <2>8. OverlaysBut(w, {})
    BY <2>6, <2>7 DEF OverlaysBut
  <2> QED BY <2>3, <2>8, Restyled, OverlaysActed
<1> QED BY <1>1, <1>2

LEMMA OverlaysAdded ==
    ASSUME OverlaysSound(ui), ProxySound(ui), NEW l \in Layers, NEW s \in Sources, NEW p, NEW b, Proxy!AddLayer(l, s, p, b)
    PROVE  OverlaysSound(ui')
<1> DEFINE u == Proxy!LayerRemoved(ui, l)
           r == [on |-> TRUE, source |-> s, filter |-> Features, vis |-> TRUE, paint |-> p, gen |-> 0, drawn |-> {}]
           ks == IF u.src[s].on THEN u.src[s].layers \cup {l} ELSE u.src[s].layers
           n == Proxy!Inserted(u.order, l, b)
           w == [u EXCEPT !.layer[l] = r, !.src[s].layers = ks, !.order = n]
           v == Proxy!RerenderLayers(w, {l})
<1>1. OverlaysSound(u) /\ ~u.layer[l].on /\ ProxySound(u)
  BY OverlaysRemoved, LayerRemovedSound
<1>2. ui' = Proxy!Acted(Proxy!UpdateAllLayerZIndices(v))
  BY DEF Proxy!AddLayer, Proxy!RerenderLayer
<1>3. /\ RecordFields \subseteq DOMAIN r /\ r.on = TRUE /\ r.source = s /\ r.vis = TRUE /\ r.drawn = {}
      /\ r.on \in BOOLEAN /\ r.vis \in BOOLEAN
  BY DEF RecordFields
<1> HIDE DEF u, r
<1>4. /\ OverlaysTyped(u) /\ OverlaysBut(u, {}) /\ Kin(u) /\ OverlaysFields \subseteq DOMAIN u /\ u.gen \in Nat
      /\ DOMAIN u.layer = Layers /\ DOMAIN u.src = Sources /\ SourceFields \subseteq DOMAIN u.src[s]
  BY <1>1 DEF OverlaysSound, OverlaysBut, OverlaysTyped, ProxySound
<1>5. /\ n \in Seq(Layers) /\ (\E j \in DOMAIN n : n[j] = l) /\ \A i \in DOMAIN u.order : \E j \in DOMAIN n : n[j] = u.order[i]
  <2>1. u.order \in Seq(Layers)
    BY <1>4 DEF OverlaysTyped
  <2>2. Joined(u.order, n, l, Layers)
    BY <2>1, PlaceFound
  <2> HIDE DEF n
  <2> QED BY <2>2 DEF Joined
<1>6. \A k : k \in ks <=> k \in u.src[s].layers \/ (u.src[s].on /\ k = l)
  OBVIOUS
<1> HIDE DEF n, ks
<1>7. /\ w.hot = u.hot /\ w.style = u.style /\ w.onMap = u.onMap /\ w.order = n /\ w.zoom = u.zoom /\ w.gen = u.gen
      /\ DOMAIN w = DOMAIN u /\ DOMAIN w.layer = Layers /\ w.layer[l] = r
      /\ \A k \in Layers : k # l => w.layer[k] = u.layer[k]
  BY <1>4 DEF OverlaysFields
<1>8. /\ DOMAIN w.src = Sources /\ \A k \in Sources : k # s => w.src[k] = u.src[k]
      /\ SourceFields \subseteq DOMAIN w.src[s] /\ w.src[s].on = u.src[s].on /\ w.src[s].data = u.src[s].data
      /\ w.src[s].layers = ks
  BY <1>4 DEF OverlaysFields, SourceFields
<1> HIDE DEF w
<1>9. \A k \in u.src[s].layers : k # l
  BY <1>1, <1>4 DEF Kin
<1>10. OverlaysTyped(w)
  BY <1>3, <1>4, <1>5, <1>7, <1>8 DEF OverlaysTyped
<1>11. Kin(w)
  <2>1. ASSUME NEW t \in Sources, NEW k \in w.src[t].layers PROVE k \in Layers /\ w.layer[k].on /\ w.layer[k].source = t
    <3>1. CASE k \in u.src[t].layers
      <4>1. k \in Layers /\ u.layer[k].on /\ u.layer[k].source = t
        BY <1>4, <3>1 DEF Kin
      <4> QED BY <1>1, <1>7, <4>1
    <3>2. CASE k \notin u.src[t].layers
      <4>1. t = s /\ k = l
        BY <1>6, <1>8, <2>1, <3>2
      <4> QED BY <1>3, <1>7, <4>1
    <3> QED BY <3>1, <3>2
  <2> QED BY <2>1 DEF Kin
<1>12. ASSUME NEW k \in Layers PROVE Projected(w, k) /\ Placed(w, k) /\ (k \notin {l} => Collected(w, k))
  <2>1. Projected(u, k) /\ Placed(u, k) /\ Collected(u, k)
    BY <1>4 DEF OverlaysBut
  <2>2. CASE k = l
    <3>1. Projected(w, k)
      BY <1>1, <1>3, <1>7, <2>1, <2>2 DEF Projected
    <3> QED BY <1>5, <1>7, <2>2, <3>1 DEF Placed
  <2>3. CASE k # l
    <3>1. w.layer[k] = u.layer[k]
      BY <1>7, <2>3
    <3>2. Projected(w, k) /\ Placed(w, k)
      BY <1>5, <1>7, <2>1, <3>1 DEF Projected, Placed
    <3> DEFINE t == u.layer[k].source
    <3>3. ASSUME Known(w, k) PROVE Known(u, k)
      <4>1. t \in Sources /\ u.layer[k].on
        BY <1>4, <3>1, <3>3 DEF Known, OverlaysTyped
      <4> QED BY <1>6, <1>8, <2>3, <3>1, <3>3, <4>1 DEF Known
    <3>4. ASSUME u.layer[k].on
          PROVE  w.src[t].data = u.src[t].data /\ w.hot[t] = u.hot[t]
      <4>1. t \in Sources
        BY <1>4, <3>4 DEF OverlaysTyped
      <4> QED BY <1>7, <1>8, <4>1
    <3>5. Collected(w, k)
      <4>1. ASSUME Known(w, k) PROVE w.layer[k].drawn = Proxy!CollectFeatures(w, k, w.layer[k].gen)
        <5>1. u.layer[k].drawn = Proxy!CollectFeatures(u, k, u.layer[k].gen)
          BY <2>1, <3>3, <4>1 DEF Collected
        <5>2. u.layer[k].on
          BY <3>3, <4>1 DEF Known
        <5>3. Proxy!CollectFeatures(w, k, u.layer[k].gen) = Proxy!CollectFeatures(u, k, u.layer[k].gen)
          BY <3>1, <3>4, <5>2 DEF Proxy!CollectFeatures
        <5> QED BY <3>1, <5>1, <5>3
      <4> QED BY <4>1 DEF Collected
    <3> QED BY <3>2, <3>5
  <2> QED BY <2>2, <2>3
<1>13. OverlaysBut(w, {l}) /\ w.gen \in Nat
  BY <1>4, <1>7, <1>10, <1>11, <1>12 DEF OverlaysBut
<1>14. {l} \in SUBSET Layers
  OBVIOUS
<1>15. OverlaysBut(v, {})
  BY <1>13, <1>14, OverlaysRedrawn
<1> HIDE DEF v
<1> QED BY <1>2, <1>15, Restyled, OverlaysActed

LEMMA OverlaysKept ==
    ASSUME OverlaysSound(ui), ProxySound(ui), Proxy!Next
    PROVE  OverlaysSound(ui')
<1>1. CASE \/ Proxy!Initialize \/ Proxy!LibraryReady \/ Proxy!LibraryTimesOut \/ Proxy!ClickMap \/ Proxy!AddMarker
           \/ Proxy!ClickMarker \/ Proxy!RemoveMarker
  BY <1>1, OverlaysUntouched
<1>2. CASE Proxy!Idle \/ Proxy!RemoveMap
  BY <1>2, OverlaysMapKept
<1>3. ASSUME NEW s \in Sources,
             \/ Proxy!RemoveSource(s)
             \/ \E d \in SUBSET Features : Proxy!AddSource(s, d) \/ Proxy!SetData(s, d) \/ Proxy!RemoveFeatureState(s, d)
             \/ \E f \in Features : Proxy!SetFeatureState(s, f)
      PROVE  OverlaysSound(ui')
  BY <1>3, OverlaysOfSource
<1>4. ASSUME NEW l \in Layers,
             \/ Proxy!RemoveLayer(l) \/ Proxy!OnLayer(l) \/ Proxy!OffLayer(l)
             \/ \E v \in BOOLEAN : Proxy!SetVisibility(l, v)
             \/ \E p \in Paints : Proxy!SetPaintProperty(l, p)
             \/ \E fs \in SUBSET Features : Proxy!SetFilter(l, fs)
             \/ \E b \in Layers : Proxy!MoveLayer(l, b) \/ \E s \in Sources, p \in Paints : Proxy!AddLayer(l, s, p, b)
      PROVE  OverlaysSound(ui')
  <2>1. CASE Proxy!OnLayer(l) \/ Proxy!OffLayer(l)
    BY <2>1, OverlaysUntouched
  <2>2. CASE Proxy!RemoveLayer(l) \/ \E b \in Layers : Proxy!MoveLayer(l, b)
    BY <2>2, OverlaysOfOrder
  <2>3. ASSUME NEW b \in Layers, NEW s \in Sources, NEW p \in Paints, Proxy!AddLayer(l, s, p, b) PROVE OverlaysSound(ui')
    BY <2>3, OverlaysAdded
  <2>4. CASE \/ \E v \in BOOLEAN : Proxy!SetVisibility(l, v) \/ \E p \in Paints : Proxy!SetPaintProperty(l, p)
             \/ \E fs \in SUBSET Features : Proxy!SetFilter(l, fs)
    BY <2>4, OverlaysOfRecord
  <2> QED BY <1>4, <2>1, <2>2, <2>3, <2>4
<1>5. CASE \E z \in Zooms : Proxy!ZoomTo(z) \/ \E m \in Zooms : Proxy!FitBounds(z, m)
  BY <1>5, OverlaysMapKept
<1>6. CASE \E p \in Popups : \/ Proxy!OpenPopup(p) \/ Proxy!ListenForClick(p) \/ Proxy!RemovePopup(p)
                             \/ Proxy!CloseButton(p) \/ Proxy!SetPopup(p)
  BY <1>6, OverlaysUntouched
<1> QED BY <1>1, <1>2, <1>3, <1>4, <1>5, <1>6 DEF Proxy!Next

LEMMA OverlaysStart ==
    ASSUME Proxy!Init
    PROVE  OverlaysSound(ui)
<1> DEFINE ly == [l \in Layers |-> Proxy!NoLayer]
           sr == [s \in Sources |-> Proxy!NoSource]
<1>1. /\ OverlaysFields \subseteq DOMAIN ui /\ ui.src = sr /\ ui.layer = ly /\ ui.onMap = {} /\ ui.order = << >>
      /\ DOMAIN ui.style = Layers /\ DOMAIN ui.hot = Sources
  BY DEF Proxy!Init, Proxy!Start, OverlaysFields
<1>2. /\ DOMAIN ly = Layers /\ DOMAIN sr = Sources
      /\ \A l \in Layers : /\ RecordFields \subseteq DOMAIN ly[l] /\ ~ly[l].on /\ ly[l].drawn = {}
                           /\ ly[l].on \in BOOLEAN /\ ly[l].vis \in BOOLEAN
      /\ \A s \in Sources : /\ SourceFields \subseteq DOMAIN sr[s] /\ sr[s].on \in BOOLEAN /\ sr[s].layers = {}
                            /\ sr[s].data \subseteq Features
  BY DEF Proxy!NoLayer, Proxy!NoSource, RecordFields, SourceFields
<1>3. << >> \in Seq(Layers)
  OBVIOUS
<1> HIDE DEF ly, sr
<1>4. OverlaysTyped(ui) /\ Kin(ui)
  BY <1>1, <1>2, <1>3 DEF OverlaysTyped, Kin
<1>5. \A l \in Layers : Projected(ui, l) /\ Placed(ui, l) /\ Collected(ui, l) /\ Styled(ui, l)
  BY <1>1, <1>2 DEF Projected, Placed, Collected, Known, Styled
<1> QED BY <1>1, <1>4, <1>5 DEF OverlaysSound, OverlaysBut

LEMMA OverlaysSeen ==
    ASSUME OverlaysSound(ui)
    PROVE  Proxy!DrawnIsData /\ Proxy!NoGhostOverlays
<1>1. ASSUME NEW l \in Layers, Proxy!Attached(l)
      PROVE  /\ {[f |-> o.f, hot |-> o.hot] : o \in ui.layer[l].drawn} =
                    {[f |-> f, hot |-> f \in ui.hot[ui.layer[l].source]] :
                         f \in ui.src[ui.layer[l].source].data \cap ui.layer[l].filter}
             /\ ui.style[l].paint = ui.layer[l].paint /\ ui.style[l].zoom = ui.zoom
             /\ ui.style[l].z \in DOMAIN ui.order /\ ui.order[ui.style[l].z] = l
  <2> DEFINE s == ui.layer[l].source
             g == ui.layer[l].gen
             hot == ui.hot[s]
             fs == ui.src[s].data \cap ui.layer[l].filter
             A == {[f |-> o.f, hot |-> o.hot] : o \in ui.layer[l].drawn}
             B == {[f |-> f, hot |-> f \in hot] : f \in fs}
  <2>1. Styled(ui, l) /\ Collected(ui, l) /\ Known(ui, l) /\ ui.layer[l].on
    BY <1>1 DEF OverlaysSound, OverlaysBut, Known, Proxy!Attached
  <2>2. ui.layer[l].drawn = {[l |-> l, gen |-> g, f |-> f, hot |-> f \in hot] : f \in fs}
    BY <2>1 DEF Collected, Proxy!CollectFeatures, Proxy!EvaluateLayerFilter
  <2> HIDE DEF s, g, fs
  <2>3. ASSUME NEW f \in fs PROVE \E o \in ui.layer[l].drawn : o.f = f /\ o.hot = (f \in hot)
    <3> DEFINE h == f \in hot
               x == [l |-> l, gen |-> g, f |-> f, hot |-> h]
    <3>1. x \in ui.layer[l].drawn
      BY <2>2
    <3> HIDE DEF h
    <3>2. x.f = f /\ x.hot = h
      OBVIOUS
    <3> QED BY <3>1, <3>2 DEF h
  <2>4. ASSUME NEW o \in ui.layer[l].drawn PROVE o.f \in fs /\ o.hot = (o.f \in hot)
    BY <2>2
  <2> HIDE DEF hot
  <2>5. A = B
    <3>1. ASSUME NEW x \in A PROVE x \in B
      BY <2>4
    <3>2. ASSUME NEW x \in B PROVE x \in A
      BY <2>3
    <3> QED BY <3>1, <3>2
  <2> QED BY <2>1, <2>5 DEF Styled, s, hot, fs
<1>2. ASSUME NEW ls \in SUBSET Layers
      PROVE  Proxy!QueryRenderedFeatures(ls, Features) = {o \in ui.onMap : o.l \in ls}
  <2>1. /\ \A o \in ui.onMap : o.l \in Layers
        /\ \A l \in Layers : /\ \A o \in ui.layer[l].drawn : o.l = l /\ o.f \in Features
                             /\ \A o : o \in ui.onMap /\ o.l = l <=> ui.layer[l].on /\ ui.layer[l].vis /\ o \in ui.layer[l].drawn
    <3>1. \A l \in Layers : Projected(ui, l)
      BY DEF OverlaysSound, OverlaysBut
    <3>2. ASSUME NEW l \in Layers, NEW o
          PROVE  o \in ui.onMap /\ o.l = l <=> ui.layer[l].on /\ ui.layer[l].vis /\ o \in ui.layer[l].drawn
      BY <3>1 DEF Projected
    <3> QED BY <3>1, <3>2 DEF OverlaysSound, OverlaysBut, Projected
  <2> QED BY <2>1 DEF Proxy!QueryRenderedFeatures, Proxy!OverlayHits
<1> QED BY <1>1, <1>2 DEF Proxy!DrawnIsData, Proxy!NoGhostOverlays

-----------------------------------------------------------------------------
(* The main map: every layer fits its switch and its data, whatever its    *)
(* queue, the fades and the style make of it on the way.                   *)
SwitchFields == {"info", "m", "q", "loaded", "change", "todo", "loads", "refaded"}

Updates == Seq([data : Nat \ {0}, frame : BOOLEAN])

(* The layer is yet to be put back after a style.                          *)
Due(u, l) == u.change = "loading" \/ (u.change = "handlers" /\ l \in u.todo)

Switched(i, m, q, refaded, due) ==
    /\ i \in [vis : BOOLEAN, data : Nat] /\ q \in Updates
    /\ m \in [on : BOOLEAN, data : Nat, vis : BOOLEAN, clear : BOOLEAN]
    /\ i.data = 0 => ~m.on /\ m.data = 0 /\ q = << >>
    /\ q = << >> /\ m.on => m.data = i.data
    /\ ~refaded /\ m.on => (i.vis <=> m.vis /\ ~m.clear)
    /\ ~due /\ q = << >> /\ i.vis /\ i.data # 0 => m.on

SwitchesSound(u) ==
    /\ SwitchFields \subseteq DOMAIN u
    /\ DOMAIN u.info = Layers /\ DOMAIN u.m = Layers /\ DOMAIN u.q = Layers
    /\ u.loads \in Nat /\ u.refaded \in BOOLEAN
    /\ u.change \in {"idle", "loading", "handlers"} /\ (~u.loaded => u.change = "loading")
    /\ \A l \in Layers : Switched(u.info[l], u.m[l], u.q[l], u.refaded, Due(u, l))

(* A layer still fits when nothing happens to it.                          *)
LEMMA SwitchedStill ==
    ASSUME NEW i, NEW m, NEW q, NEW r \in BOOLEAN, NEW d \in BOOLEAN, Switched(i, m, q, r, d),
           NEW s \in BOOLEAN, NEW e \in BOOLEAN, r => s, d => e
    PROVE  Switched(i, m, q, s, e)
BY DEF Switched

(* One layer changes, with the others as they were.                        *)
OthersAlike(u, w, l) ==
    /\ SwitchFields \subseteq DOMAIN w
    /\ DOMAIN w.info = Layers /\ DOMAIN w.m = Layers /\ DOMAIN w.q = Layers
    /\ \A k \in Layers : k # l => w.info[k] = u.info[k] /\ w.m[k] = u.m[k] /\ w.q[k] = u.q[k]
    /\ w.loads \in Nat /\ w.refaded \in BOOLEAN /\ (u.refaded => w.refaded)
    /\ w.loaded = u.loaded /\ w.change = u.change
    /\ \A k \in Layers : k # l /\ k \in u.todo => k \in w.todo

LEMMA OneSwitched ==
    ASSUME NEW u, SwitchesSound(u), NEW l \in Layers, NEW w, OthersAlike(u, w, l),
           Switched(w.info[l], w.m[l], w.q[l], w.refaded, Due(w, l))
    PROVE  SwitchesSound(w)
<1>2. /\ w.refaded \in BOOLEAN /\ (u.refaded => w.refaded) /\ w.change = u.change
      /\ \A k \in Layers : k # l => w.info[k] = u.info[k] /\ w.m[k] = u.m[k] /\ w.q[k] = u.q[k]
      /\ \A k \in Layers : k # l /\ k \in u.todo => k \in w.todo
  BY DEF OthersAlike
<1>3. ASSUME NEW k \in Layers PROVE Switched(w.info[k], w.m[k], w.q[k], w.refaded, Due(w, k))
  <2>1. CASE k = l
    BY <2>1
  <2>2. CASE k # l
    <3>1. Switched(u.info[k], u.m[k], u.q[k], u.refaded, Due(u, k))
      BY DEF SwitchesSound
    <3>2. Due(u, k) => Due(w, k)
      BY <1>2, <2>2 DEF Due
    <3>3. Due(u, k) \in BOOLEAN /\ Due(w, k) \in BOOLEAN
      BY DEF Due
    <3>4. u.refaded \in BOOLEAN
      BY DEF SwitchesSound
    <3>5. Switched(u.info[k], u.m[k], u.q[k], w.refaded, Due(w, k))
      BY <1>2, <3>1, <3>2, <3>3, <3>4, SwitchedStill
    <3> QED BY <1>2, <2>2, <3>5
  <2> QED BY <2>1, <2>2
<1> QED BY <1>3 DEF SwitchesSound, OthersAlike

(* What happens to none of them.                                           *)
LEMMA SwitchesSame ==
    ASSUME NEW u, SwitchesSound(u), NEW w, SwitchFields \subseteq DOMAIN w, \A f \in SwitchFields : w[f] = u[f]
    PROVE  SwitchesSound(w)
<1>1. /\ w.info = u.info /\ w.m = u.m /\ w.q = u.q /\ w.loaded = u.loaded /\ w.change = u.change /\ w.todo = u.todo
      /\ w.loads = u.loads /\ w.refaded = u.refaded
  BY DEF SwitchFields
<1>2. \A l \in Layers : Due(w, l) = Due(u, l)
  BY <1>1 DEF Due
<1> QED BY <1>1, <1>2 DEF SwitchesSound

LEMMA SwitchesActed ==
    ASSUME NEW u, SwitchesSound(u)
    PROVE  SwitchesSound(Layer!Acted(u))
<1> DEFINE w == Layer!Acted(u)
<1>1. SwitchFields \subseteq DOMAIN w /\ \A f \in SwitchFields : w[f] = u[f]
  BY DEF Layer!Acted, SwitchesSound, SwitchFields
<1> HIDE DEF w
<1> QED BY <1>1, SwitchesSame DEF w

LEMMA SwitchesUntouched ==
    ASSUME SwitchesSound(ui),
           \/ Layer!Initialize \/ Layer!LibraryReady \/ Layer!MapLoads \/ Layer!InitFails \/ Layer!OnReady
           \/ \E s \in Styles : Layer!SetStyle(s)
           \/ \E l \in Layers : Layer!DataFails(l) \/ Layer!Reload(l)
    PROVE  SwitchesSound(ui')
<1>1. SwitchFields \subseteq DOMAIN ui
  BY DEF SwitchesSound
<1>2. SwitchFields \subseteq DOMAIN ui' /\ \A f \in SwitchFields : ui'[f] = ui[f]
  <2>1. CASE Layer!Initialize \/ Layer!LibraryReady \/ Layer!MapLoads \/ Layer!InitFails
    BY <1>1, <2>1 DEF Layer!Initialize, Layer!LibraryReady, Layer!MapLoads, Layer!InitFails, Layer!Acted, SwitchFields
  <2>2. CASE Layer!OnReady
    BY <1>1, <2>2 DEF Layer!OnReady, Layer!Acted, SwitchFields
  <2>3. CASE \E s \in Styles : Layer!SetStyle(s)
    BY <1>1, <2>3 DEF Layer!SetStyle, Layer!Acted, SwitchFields
  <2>4. CASE \E l \in Layers : Layer!DataFails(l) \/ Layer!Reload(l)
    BY <1>1, <2>4 DEF Layer!DataFails, Layer!Reload, Layer!Acted, SwitchFields
  <2> QED BY <2>1, <2>2, <2>3, <2>4
<1> QED BY <1>2, SwitchesSame

(* A style drops them all; each is then due until it has been put back.    *)
LEMMA SwitchesOfStyle ==
    ASSUME SwitchesSound(ui), Layer!StyleStarts \/ Layer!StyleLoads \/ Layer!StyleEnds
    PROVE  SwitchesSound(ui')
<1>1. SwitchFields \subseteq DOMAIN ui /\ ui.refaded \in BOOLEAN /\ \A l \in Layers : Due(ui, l) \in BOOLEAN
  BY DEF SwitchesSound, Due
<1>2. CASE Layer!StyleStarts /\ ui' = [ui EXCEPT !.sq = Tail(@)]
  <2>1. SwitchFields \subseteq DOMAIN ui' /\ \A f \in SwitchFields : ui'[f] = ui[f]
    BY <1>1, <1>2 DEF SwitchFields
  <2> QED BY <2>1, SwitchesSame
<1>3. CASE ui' = [ui EXCEPT !.change = "loading", !.loaded = FALSE, !.m = [l \in Layers |-> Layer!Gone]]
  <2> DEFINE ms == [l \in Layers |-> Layer!Gone]
  <2>1. DOMAIN ms = Layers /\ \A l \in Layers : /\ ms[l] \in [on : BOOLEAN, data : Nat, vis : BOOLEAN, clear : BOOLEAN]
                                                /\ ~ms[l].on /\ ms[l].data = 0
    BY DEF Layer!Gone
  <2> HIDE DEF ms
  <2>2. /\ DOMAIN ui' = DOMAIN ui /\ ui'.info = ui.info /\ ui'.m = ms /\ ui'.q = ui.q /\ ui'.change = "loading"
        /\ ui'.loads = ui.loads /\ ui'.refaded = ui.refaded
    BY <1>1, <1>3 DEF SwitchFields, ms
  <2>3. ASSUME NEW l \in Layers PROVE Switched(ui'.info[l], ui'.m[l], ui'.q[l], ui'.refaded, Due(ui', l))
    <3>1. Switched(ui.info[l], ui.m[l], ui.q[l], ui.refaded, Due(ui, l))
      BY DEF SwitchesSound
    <3>2. Due(ui', l)
      BY <2>2 DEF Due
    <3> QED BY <2>1, <2>2, <3>1, <3>2 DEF Switched
  <2> QED BY <1>1, <2>1, <2>2, <2>3 DEF SwitchesSound
<1>4. ASSUME NEW w, SwitchFields \subseteq DOMAIN w,
             w.info = ui.info, w.m = ui.m, w.q = ui.q, w.loads = ui.loads, w.refaded = ui.refaded,
             w.change \in {"idle", "loading", "handlers"}, w.loaded, \A l \in Layers : Due(ui, l) => Due(w, l)
      PROVE  SwitchesSound(w)
  <2>1. ASSUME NEW l \in Layers PROVE Switched(w.info[l], w.m[l], w.q[l], w.refaded, Due(w, l))
    <3>1. Switched(ui.info[l], ui.m[l], ui.q[l], ui.refaded, Due(ui, l))
      BY DEF SwitchesSound
    <3>2. Due(w, l) \in BOOLEAN
      BY DEF Due
    <3>3. Due(ui, l) => Due(w, l)
      BY <1>4
    <3>4. Switched(ui.info[l], ui.m[l], ui.q[l], w.refaded, Due(w, l))
      BY <1>1, <1>4, <3>1, <3>2, <3>3, SwitchedStill
    <3> QED BY <1>4, <3>4
  <2> QED BY <1>4, <2>1 DEF SwitchesSound
<1>5. CASE Layer!StyleLoads
  <2>1. /\ SwitchFields \subseteq DOMAIN ui' /\ ui'.info = ui.info /\ ui'.m = ui.m /\ ui'.q = ui.q
        /\ ui'.loads = ui.loads /\ ui'.refaded = ui.refaded /\ ui'.change = "handlers" /\ ui'.loaded = TRUE
        /\ ui'.todo = Layers
    BY <1>1, <1>5 DEF Layer!StyleLoads, SwitchFields
  <2>2. \A l \in Layers : Due(ui, l) => Due(ui', l)
    BY <2>1 DEF Due
  <2> QED BY <1>4, <2>1, <2>2
<1>6. CASE Layer!StyleEnds
  <2>1. /\ SwitchFields \subseteq DOMAIN ui' /\ ui'.info = ui.info /\ ui'.m = ui.m /\ ui'.q = ui.q
        /\ ui'.loads = ui.loads /\ ui'.refaded = ui.refaded /\ ui'.change = "idle" /\ ui'.loaded = ui.loaded
    BY <1>1, <1>6 DEF Layer!StyleEnds, SwitchFields
  <2>2. \A l \in Layers : ~Due(ui, l)
    BY <1>6 DEF Layer!StyleEnds, Due
  <2>3. ui.change = "handlers"
    BY <1>6 DEF Layer!StyleEnds
  <2>4. ui.loaded
    BY <2>3 DEF SwitchesSound
  <2> QED BY <1>4, <2>1, <2>2, <2>4
<1> QED BY <1>2, <1>3, <1>5, <1>6 DEF Layer!StyleStarts

(* What waits in a queue is something to show.                             *)
LEMMA UpdatesKept ==
    ASSUME NEW q \in Updates
    PROVE  /\ \A d \in Nat \ {0} : LET p == Append(q, [data |-> d, frame |-> FALSE]) IN p \in Updates /\ p # << >>
           /\ q # << >> => /\ Head(q).data \in Nat \ {0} /\ Tail(q) \in Updates
                          /\ [q EXCEPT ![1].frame = TRUE] \in Updates /\ [q EXCEPT ![1].frame = TRUE] # << >>
<1>1. ASSUME NEW d \in Nat \ {0}
      PROVE  LET p == Append(q, [data |-> d, frame |-> FALSE]) IN p \in Updates /\ p # << >>
  BY DEF Updates
<1> DEFINE S == [data : Nat \ {0}, frame : BOOLEAN]
<1>a. q \in Seq(S)
  BY DEF Updates
<1>b. \A e \in S : e.data \in Nat \ {0}
  OBVIOUS
<1>c. ASSUME q # << >> PROVE Head(q) \in S /\ Tail(q) \in Seq(S) /\ 1 \in 1..Len(q) /\ q[1] \in S
  <2> HIDE DEF S
  <2>1. Len(q) \in Nat /\ Len(q) # 0
    BY <1>a, <1>c
  <2> QED BY <1>a, <1>c, <2>1
<1>2. ASSUME q # << >> PROVE Head(q).data \in Nat \ {0} /\ Tail(q) \in Updates
  BY <1>2, <1>b, <1>c DEF Updates
<1>3. ASSUME q # << >>
      PROVE  [q EXCEPT ![1].frame = TRUE] \in Updates /\ [q EXCEPT ![1].frame = TRUE] # << >>
  <2> DEFINE e == [q[1] EXCEPT !.frame = TRUE]
  <2>1. q[1] \in [data : Nat \ {0}, frame : BOOLEAN] /\ 1 \in 1..Len(q)
    BY <1>3, <1>c
  <2>2. e \in [data : Nat \ {0}, frame : BOOLEAN]
    BY <2>1
  <2> HIDE DEF e
  <2>3. [q EXCEPT ![1] = e] \in Updates /\ [q EXCEPT ![1] = e] # << >>
    BY <2>1, <2>2 DEF Updates
  <2> QED BY <2>3 DEF e
<1> QED BY <1>1, <1>2, <1>3

(* An update joins the queue of a layer that has something to show.        *)
LEMMA SwitchQueued ==
    ASSUME NEW l \in Layers, SwitchesSound(ui), NEW u, OthersAlike(ui, u, l), NEW d \in Nat \ {0},
           u.m[l] = ui.m[l], u.q[l] = ui.q[l], u.info[l] \in [vis : BOOLEAN, data : Nat], u.info[l].data = d,
           ~u.refaded /\ u.m[l].on => (u.info[l].vis <=> u.m[l].vis /\ ~u.m[l].clear)
    PROVE  SwitchesSound(Layer!UpdateMapLayer(u, l, d))
<1> DEFINE p == Append(ui.q[l], [data |-> d, frame |-> FALSE])
           w == Layer!UpdateMapLayer(u, l, d)
<1>1. Switched(ui.info[l], ui.m[l], ui.q[l], ui.refaded, Due(ui, l))
  BY DEF SwitchesSound
<1>2. p \in Updates /\ p # << >>
  BY <1>1, UpdatesKept DEF Switched
<1>3. w = [u EXCEPT !.q = [u.q EXCEPT ![l] = p]]
  BY DEF Layer!UpdateMapLayer
<1> HIDE DEF p, w
<1>4. OthersAlike(ui, w, l) /\ w.q[l] = p /\ w.m[l] = ui.m[l] /\ w.info[l] = u.info[l] /\ w.refaded = u.refaded
  BY <1>3 DEF OthersAlike, SwitchFields
<1>5. Switched(w.info[l], w.m[l], w.q[l], w.refaded, Due(w, l))
  BY <1>1, <1>2, <1>4 DEF Switched
<1>6. SwitchesSound(w)
  BY <1>4, <1>5, OneSwitched
<1> QED BY <1>6 DEF w

(* An update is drawn: the layer then is as its switch and its data say.   *)
LEMMA SwitchDrawn ==
    ASSUME NEW l \in Layers, SwitchesSound(ui), ui.q[l] # << >>
    PROVE  LET d == Head(ui.q[l]).data
               u == [ui EXCEPT !.m[l] = [on |-> TRUE, data |-> d, vis |-> ui.info[l].vis, clear |-> FALSE]]
           IN  SwitchesSound(Layer!Ended(Layer!Kept(u, l, d), l))
<1> DEFINE d == Head(ui.q[l]).data
           r == [on |-> TRUE, data |-> d, vis |-> ui.info[l].vis, clear |-> FALSE]
           u == [ui EXCEPT !.m[l] = r]
           i == [ui.info[l] EXCEPT !.data = d]
           w == Layer!Ended(Layer!Kept(u, l, d), l)
<1>1. Switched(ui.info[l], ui.m[l], ui.q[l], ui.refaded, Due(ui, l))
  BY DEF SwitchesSound
<1>2. d \in Nat \ {0} /\ Tail(ui.q[l]) \in Updates
  BY <1>1, UpdatesKept DEF Switched
<1>3. ui.info[l] \in [vis : BOOLEAN, data : Nat]
  BY <1>1 DEF Switched
<1> HIDE DEF d
<1>4. /\ i \in [vis : BOOLEAN, data : Nat] /\ i.data = d /\ i.vis = ui.info[l].vis
      /\ r \in [on : BOOLEAN, data : Nat, vis : BOOLEAN, clear : BOOLEAN]
      /\ r.on = TRUE /\ r.data = d /\ r.vis = ui.info[l].vis /\ r.clear = FALSE
  BY <1>2, <1>3
<1>5. w = [[u EXCEPT !.info[l].data = d] EXCEPT !.q[l] = Tail(@)]
  BY DEF Layer!Ended, Layer!Kept
<1> HIDE DEF w, r
<1>6. OthersAlike(ui, w, l) /\ w.q[l] = Tail(ui.q[l]) /\ w.m[l] = r /\ w.info[l] = i /\ w.refaded = ui.refaded
  BY <1>5 DEF SwitchesSound, OthersAlike, SwitchFields
<1> HIDE DEF i
<1>7. Switched(w.info[l], w.m[l], w.q[l], w.refaded, Due(w, l))
  BY <1>2, <1>4, <1>6 DEF Switched
<1>8. SwitchesSound(w)
  BY <1>6, <1>7, OneSwitched
<1> QED BY <1>8 DEF w, d, r

LEMMA SwitchesDrawing ==
    ASSUME SwitchesSound(ui), LayersSound(ui), NEW l \in Layers,
           Layer!UpdateStarts(l) \/ Layer!StyleWaitEnds(l) \/ Layer!FrameRuns(l)
    PROVE  SwitchesSound(ui')
<1> DEFINE d == Head(ui.q[l]).data
           u == [ui EXCEPT !.m[l] = [on |-> TRUE, data |-> d, vis |-> ui.info[l].vis, clear |-> FALSE]]
<1>1. Switched(ui.info[l], ui.m[l], ui.q[l], ui.refaded, Due(ui, l)) /\ ui.q[l] # << >>
  BY DEF SwitchesSound, Layer!UpdateStarts, Layer!StyleWaitEnds, Layer!FrameRuns
<1>2. SwitchesSound(Layer!Ended(Layer!Kept(u, l, d), l))
  BY <1>1, SwitchDrawn
<1>3. CASE ui' = [ui EXCEPT !.q[l][1].frame = TRUE]
  <2> DEFINE p == [ui.q[l] EXCEPT ![1].frame = TRUE]
  <2>1. p \in Updates /\ p # << >>
    BY <1>1, UpdatesKept DEF Switched
  <2>2. ui' = [ui EXCEPT !.q[l] = p]
    BY <1>3
  <2> HIDE DEF p
  <2>3. OthersAlike(ui, ui', l) /\ ui'.q[l] = p /\ ui'.m[l] = ui.m[l] /\ ui'.info[l] = ui.info[l] /\ ui'.refaded = ui.refaded
    BY <2>2 DEF SwitchesSound, OthersAlike, SwitchFields
  <2>4. Switched(ui'.info[l], ui'.m[l], ui'.q[l], ui'.refaded, Due(ui', l))
    BY <1>1, <2>1, <2>3 DEF Switched
  <2> QED BY <2>3, <2>4, OneSwitched
<1>4. CASE ~ui.loaded /\ ui' = Layer!Ended(ui, l)
  <2> DEFINE p == Tail(ui.q[l])
  <2>1. p \in Updates
    BY <1>1, UpdatesKept DEF Switched
  <2>2. ui' = [ui EXCEPT !.q[l] = p]
    BY <1>4 DEF Layer!Ended
  <2> HIDE DEF p
  <2>3. /\ OthersAlike(ui, ui', l) /\ ui'.q[l] = p /\ ui'.m[l] = ui.m[l] /\ ui'.info[l] = ui.info[l]
        /\ ui'.refaded = ui.refaded /\ ui'.change = ui.change
    BY <2>2 DEF SwitchesSound, OthersAlike, SwitchFields
  <2>4. ~ui.m[l].on /\ Due(ui', l)
    BY <1>4, <2>3 DEF LayersSound, Due
  <2>5. Switched(ui'.info[l], ui'.m[l], ui'.q[l], ui'.refaded, Due(ui', l))
    BY <1>1, <2>1, <2>3, <2>4 DEF Switched
  <2> QED BY <2>3, <2>5, OneSwitched
<1> QED BY <1>2, <1>3, <1>4 DEF Layer!UpdateStarts, Layer!StyleWaitEnds, Layer!FrameRuns

LEMMA SwitchesPutBack ==
    ASSUME SwitchesSound(ui), NEW l \in Layers, Layer!PutBack(l)
    PROVE  SwitchesSound(ui')
<1> DEFINE u == [ui EXCEPT !.todo = @ \ {l}]
<1>1. Switched(ui.info[l], ui.m[l], ui.q[l], ui.refaded, Due(ui, l)) /\ SwitchFields \subseteq DOMAIN ui
  BY DEF SwitchesSound
<1>2. /\ u.m[l] = ui.m[l] /\ u.q[l] = ui.q[l] /\ u.info[l] = ui.info[l] /\ u.refaded = ui.refaded /\ OthersAlike(ui, u, l)
  BY DEF SwitchesSound, OthersAlike, SwitchFields
<1>3. IF ui.info[l].vis /\ ui.info[l].data # 0 THEN ui' = Layer!UpdateMapLayer(u, l, ui.info[l].data) ELSE ui' = u
  BY DEF Layer!PutBack
<1> HIDE DEF u
<1>4. CASE ui.info[l].vis /\ ui.info[l].data # 0
  <2> DEFINE d == ui.info[l].data
  <2>1. d \in Nat \ {0}
    BY <1>1, <1>4 DEF Switched
  <2>2. /\ u.info[l] \in [vis : BOOLEAN, data : Nat] /\ u.info[l].data = d
        /\ ~u.refaded /\ u.m[l].on => (u.info[l].vis <=> u.m[l].vis /\ ~u.m[l].clear)
    BY <1>1, <1>2 DEF Switched
  <2>3. SwitchesSound(Layer!UpdateMapLayer(u, l, d))
    BY <1>2, <2>1, <2>2, SwitchQueued
  <2> QED BY <1>3, <1>4, <2>3
<1>5. CASE ~(ui.info[l].vis /\ ui.info[l].data # 0)
  <2>1. Switched(u.info[l], u.m[l], u.q[l], u.refaded, Due(u, l))
    BY <1>1, <1>2, <1>5 DEF Switched
  <2>2. SwitchesSound(u)
    BY <1>2, <2>1, OneSwitched
  <2> QED BY <1>3, <1>5, <2>2
<1> QED BY <1>4, <1>5

LEMMA SwitchesData ==
    ASSUME SwitchesSound(ui), NEW l \in Layers, Layer!DataArrives(l)
    PROVE  SwitchesSound(ui')
<1> DEFINE d == ui.loads + 1
           i == [ui.info[l] EXCEPT !.data = d]
           u == [ui EXCEPT !.need = @ \ {l}, !.loads = d, !.info[l] = i]
<1>1. Switched(ui.info[l], ui.m[l], ui.q[l], ui.refaded, Due(ui, l)) /\ SwitchFields \subseteq DOMAIN ui
  BY DEF SwitchesSound
<1>2. ui' = Layer!UpdateMapLayer(u, l, d)
  BY DEF Layer!DataArrives
<1>3. d \in Nat \ {0}
  BY DEF SwitchesSound
<1> HIDE DEF d
<1>4. i \in [vis : BOOLEAN, data : Nat] /\ i.data = d /\ i.vis = ui.info[l].vis
  BY <1>1, <1>3 DEF Switched
<1> HIDE DEF i
<1>5. /\ u.m[l] = ui.m[l] /\ u.q[l] = ui.q[l] /\ u.info[l] = i /\ u.refaded = ui.refaded /\ OthersAlike(ui, u, l)
  BY <1>3 DEF SwitchesSound, OthersAlike, SwitchFields
<1> HIDE DEF u
<1>6. /\ u.info[l] \in [vis : BOOLEAN, data : Nat] /\ u.info[l].data = d
      /\ ~u.refaded /\ u.m[l].on => (u.info[l].vis <=> u.m[l].vis /\ ~u.m[l].clear)
  BY <1>1, <1>4, <1>5 DEF Switched
<1> QED BY <1>2, <1>3, <1>5, <1>6, SwitchQueued

(* A fade that ends when the layer is shown again is the crossing excepted.*)
LEMMA SwitchesFaded ==
    ASSUME SwitchesSound(ui), NEW l \in Layers, Layer!FadeEnds(l)
    PROVE  SwitchesSound(ui')
<1> DEFINE v == IF ui.m[l].on THEN FALSE ELSE ui.m[l].vis
           m == [ui.m[l] EXCEPT !.vis = v]
           r == ui.refaded \/ ui.info[l].vis
<1>1. Switched(ui.info[l], ui.m[l], ui.q[l], ui.refaded, Due(ui, l)) /\ SwitchFields \subseteq DOMAIN ui
  BY DEF SwitchesSound
<1>2. /\ m \in [on : BOOLEAN, data : Nat, vis : BOOLEAN, clear : BOOLEAN]
      /\ m.on = ui.m[l].on /\ m.data = ui.m[l].data /\ m.clear = ui.m[l].clear /\ (ui.m[l].on => ~m.vis)
  BY <1>1 DEF Switched
<1>3. ui' = [ui EXCEPT !.fades[l] = @ - 1, !.m[l] = m, !.refaded = r]
  BY DEF Layer!FadeEnds
<1>4. r \in BOOLEAN /\ (ui.refaded => r) /\ (ui.info[l].vis => r)
  OBVIOUS
<1> HIDE DEF m, r
<1>5. /\ OthersAlike(ui, ui', l) /\ ui'.q[l] = ui.q[l] /\ ui'.m[l] = m /\ ui'.info[l] = ui.info[l]
      /\ ui'.refaded = r /\ ui'.change = ui.change /\ ui'.todo = ui.todo
  BY <1>3, <1>4 DEF SwitchesSound, OthersAlike, SwitchFields
<1>6. Due(ui', l) <=> Due(ui, l)
  BY <1>5 DEF Due
<1>7. Switched(ui'.info[l], ui'.m[l], ui'.q[l], ui'.refaded, Due(ui', l))
  BY <1>1, <1>2, <1>4, <1>5, <1>6 DEF Switched
<1> QED BY <1>5, <1>7, OneSwitched

LEMMA SwitchesToggled ==
    ASSUME SwitchesSound(ui), NEW l \in Layers, NEW v \in BOOLEAN, Layer!ToggleLayer(l, v)
    PROVE  SwitchesSound(ui')
<1> DEFINE i == [ui.info[l] EXCEPT !.vis = v]
           u == [ui EXCEPT !.info[l] = i]
<1>1. Switched(ui.info[l], ui.m[l], ui.q[l], ui.refaded, Due(ui, l)) /\ SwitchFields \subseteq DOMAIN ui
  BY DEF SwitchesSound
<1>2. ui' = Layer!Acted(IF v /\ u.info[l].data = 0 THEN [u EXCEPT !.need = @ \cup {l}]
                        ELSE IF u.m[l].on THEN Layer!FadeLayer(u, l, v)
                        ELSE IF v THEN Layer!UpdateMapLayer(u, l, u.info[l].data) ELSE u)
  BY DEF Layer!ToggleLayer
<1>3. i \in [vis : BOOLEAN, data : Nat] /\ i.data = ui.info[l].data /\ i.vis = v
  BY <1>1 DEF Switched
<1> HIDE DEF i
<1>4. /\ u.m[l] = ui.m[l] /\ u.q[l] = ui.q[l] /\ u.info[l] = i /\ u.refaded = ui.refaded /\ OthersAlike(ui, u, l)
      /\ u.change = ui.change /\ u.todo = ui.todo /\ SwitchFields \subseteq DOMAIN u
  BY <1>1 DEF SwitchesSound, OthersAlike, SwitchFields
<1> HIDE DEF u
<1>5. ASSUME (v /\ i.data = 0) \/ (~v /\ ~u.m[l].on) PROVE SwitchesSound(u)
  <2>1. Due(u, l) <=> Due(ui, l)
    BY <1>4 DEF Due
  <2>2. Switched(u.info[l], u.m[l], u.q[l], u.refaded, Due(u, l))
    BY <1>1, <1>3, <1>4, <1>5, <2>1 DEF Switched
  <2> QED BY <1>4, <2>2, OneSwitched
<1>6. CASE v /\ u.info[l].data = 0
  <2> DEFINE w == [u EXCEPT !.need = @ \cup {l}]
  <2>1. SwitchesSound(u)
    BY <1>4, <1>5, <1>6
  <2>2. SwitchFields \subseteq DOMAIN w /\ \A f \in SwitchFields : w[f] = u[f]
    BY <1>4 DEF SwitchFields
  <2>3. ui' = Layer!Acted(w)
    BY <1>2, <1>6
  <2> HIDE DEF w
  <2>4. SwitchesSound(w)
    BY <2>1, <2>2, SwitchesSame
  <2> QED BY <2>3, <2>4, SwitchesActed
<1>7. CASE ~(v /\ u.info[l].data = 0) /\ u.m[l].on
  <2> DEFINE m == IF v THEN [ui.m[l] EXCEPT !.vis = TRUE, !.clear = FALSE] ELSE [ui.m[l] EXCEPT !.clear = TRUE]
             w == Layer!FadeLayer(u, l, v)
  <2>1. /\ m \in [on : BOOLEAN, data : Nat, vis : BOOLEAN, clear : BOOLEAN]
        /\ m.on = ui.m[l].on /\ m.data = ui.m[l].data /\ (v <=> m.vis /\ ~m.clear)
    BY <1>1 DEF Switched
  <2>2. ui' = Layer!Acted(w)
    BY <1>2, <1>7
  <2>3. (v => w = [u EXCEPT !.m[l] = m]) /\ (~v => w = [u EXCEPT !.m[l] = m, !.fades[l] = @ + 1])
    <3>1. CASE v
      <4>1. w = [[u EXCEPT !.m[l].vis = TRUE] EXCEPT !.m[l].clear = FALSE]
        BY <3>1 DEF Layer!FadeLayer
      <4>2. [[u EXCEPT !.m[l].vis = TRUE] EXCEPT !.m[l].clear = FALSE] = [u EXCEPT !.m[l] = m]
        BY <1>1, <1>4, <3>1 DEF SwitchesSound, OthersAlike, SwitchFields
      <4> QED BY <3>1, <4>1, <4>2
    <3>2. CASE ~v
      <4>1. w = [u EXCEPT !.m[l].clear = TRUE, !.fades[l] = @ + 1]
        BY <3>2 DEF Layer!FadeLayer
      <4> QED BY <1>4, <3>2, <4>1
    <3> QED BY <3>1, <3>2
  <2> HIDE DEF m, w
  <2>4. /\ OthersAlike(ui, w, l) /\ w.q[l] = ui.q[l] /\ w.m[l] = m /\ w.info[l] = i /\ w.refaded = ui.refaded
        /\ w.change = ui.change /\ w.todo = ui.todo
    <3>1. CASE v
      BY <1>4, <2>3, <3>1 DEF OthersAlike, SwitchFields
    <3>2. CASE ~v
      BY <1>4, <2>3, <3>2 DEF OthersAlike, SwitchFields
    <3> QED BY <3>1, <3>2
  <2>5. Due(w, l) <=> Due(ui, l)
    BY <2>4 DEF Due
  <2>6. Switched(w.info[l], w.m[l], w.q[l], w.refaded, Due(w, l))
    BY <1>1, <1>3, <1>4, <1>7, <2>1, <2>4, <2>5 DEF Switched
  <2> QED BY <2>2, <2>4, <2>6, OneSwitched, SwitchesActed
<1>8. CASE ~(v /\ u.info[l].data = 0) /\ ~u.m[l].on /\ v
  <2> DEFINE d == u.info[l].data
  <2>1. d \in Nat \ {0} /\ u.info[l] \in [vis : BOOLEAN, data : Nat]
    BY <1>3, <1>4, <1>8
  <2>2. ~u.refaded /\ u.m[l].on => (u.info[l].vis <=> u.m[l].vis /\ ~u.m[l].clear)
    BY <1>8
  <2>3. ui' = Layer!Acted(Layer!UpdateMapLayer(u, l, d))
    BY <1>2, <1>8
  <2> HIDE DEF d
  <2>4. u.info[l].data = d
    BY DEF d
  <2>5. SwitchesSound(Layer!UpdateMapLayer(u, l, d))
    BY <1>4, <2>1, <2>2, <2>4, SwitchQueued
  <2> QED BY <2>3, <2>5, SwitchesActed
<1>9. CASE ~u.m[l].on /\ ~v
  <2>1. SwitchesSound(u) /\ ui' = Layer!Acted(u)
    BY <1>2, <1>5, <1>9
  <2> QED BY <2>1, SwitchesActed
<1> QED BY <1>6, <1>7, <1>8, <1>9

LEMMA SwitchesKept ==
    ASSUME SwitchesSound(ui), LayersSound(ui), Layer!Next
    PROVE  SwitchesSound(ui')
<1>1. CASE \/ Layer!Initialize \/ Layer!LibraryReady \/ Layer!MapLoads \/ Layer!InitFails \/ Layer!OnReady
           \/ \E s \in Styles : Layer!SetStyle(s)
  BY <1>1, SwitchesUntouched
<1>2. CASE Layer!StyleStarts \/ Layer!StyleLoads \/ Layer!StyleEnds
  BY <1>2, SwitchesOfStyle
<1>3. ASSUME NEW l \in Layers, Layer!DataFails(l) \/ Layer!Reload(l) PROVE SwitchesSound(ui')
  BY <1>3, SwitchesUntouched
<1>4. ASSUME NEW l \in Layers, Layer!UpdateStarts(l) \/ Layer!StyleWaitEnds(l) \/ Layer!FrameRuns(l) PROVE SwitchesSound(ui')
  BY <1>4, SwitchesDrawing
<1>5. ASSUME NEW l \in Layers, Layer!FadeEnds(l) PROVE SwitchesSound(ui')
  BY <1>5, SwitchesFaded
<1>6. ASSUME NEW l \in Layers, Layer!DataArrives(l) \/ Layer!PutBack(l) PROVE SwitchesSound(ui')
  BY <1>6, SwitchesData, SwitchesPutBack
<1>7. ASSUME NEW l \in Layers, NEW v \in BOOLEAN, Layer!ToggleLayer(l, v) PROVE SwitchesSound(ui')
  BY <1>7, SwitchesToggled
<1> QED BY <1>1, <1>2, <1>3, <1>4, <1>5, <1>6, <1>7 DEF Layer!Next

LEMMA SwitchesStart ==
    ASSUME Layer!Init
    PROVE  SwitchesSound(ui)
<1>1. /\ SwitchFields \subseteq DOMAIN ui /\ ui.info = [l \in Layers |-> [vis |-> FALSE, data |-> 0]]
      /\ ui.m = [l \in Layers |-> Layer!Gone] /\ ui.q = [l \in Layers |-> << >>]
      /\ ui.loads = 0 /\ ui.refaded = FALSE /\ ui.change = "idle" /\ ui.loaded = TRUE
  BY DEF Layer!Init, Layer!Start, SwitchFields
<1>2. << >> \in Updates
  BY DEF Updates
<1>3. ASSUME NEW l \in Layers PROVE Switched(ui.info[l], ui.m[l], ui.q[l], ui.refaded, Due(ui, l))
  <2>1. ui.info[l] = [vis |-> FALSE, data |-> 0] /\ ui.m[l] = Layer!Gone /\ ui.q[l] = << >>
    BY <1>1
  <2> QED BY <1>2, <2>1 DEF Switched, Layer!Gone
<1>4. DOMAIN ui.info = Layers /\ DOMAIN ui.m = Layers /\ DOMAIN ui.q = Layers
  BY <1>1
<1>5. ui.loads \in Nat /\ ui.change \in {"idle", "loading", "handlers"} /\ SwitchFields \subseteq DOMAIN ui
  BY <1>1
<1>6. ui.refaded \in BOOLEAN /\ ui.loaded
  BY <1>1, Zenon
<1> QED BY <1>3, <1>4, <1>5, <1>6 DEF SwitchesSound

LEMMA SwitchesSeen ==
    ASSUME SwitchesSound(ui)
    PROVE  Layer!MapShowsSwitches
<1> SUFFICES ASSUME Layer!Settled, ~ui.refaded, NEW l \in Layers
             PROVE  /\ (ui.m[l].on /\ ui.m[l].vis /\ ~ui.m[l].clear) = (ui.info[l].vis /\ ui.info[l].data # 0)
                    /\ ui.info[l].vis => ui.m[l].data = ui.info[l].data
  BY DEF Layer!MapShowsSwitches
<1>1. Switched(ui.info[l], ui.m[l], ui.q[l], ui.refaded, Due(ui, l)) /\ ui.q[l] = << >> /\ ~Due(ui, l)
  BY DEF SwitchesSound, Layer!Settled, Due
<1> QED BY <1>1 DEF Switched

-----------------------------------------------------------------------------
(* The trips on the map: what is drawn, by which renderer, of which data.  *)

DrawFields == {"dat", "dk", "dsel", "native", "nat", "nsel", "overlay", "sel", "sup", "info", "lost", "soon"}
QueueFields == {"jobs", "dat", "latest", "putback"}

(* What the renderer that is not in use had drawn is gone.                 *)
Single(u) ==
    IF u.native THEN u.dk = Rendering!Nothing /\ u.dsel = NoTrip
    ELSE u.nat = Rendering!Nothing /\ u.nsel = NoTrip

Exact(u) ==
    /\ u.sup = {} => IF u.native THEN u.nat = Rendering!Seen(u) /\ u.nsel = Rendering!Highlight(u)
                     ELSE u.dk = Rendering!Seen(u) /\ u.dsel = Rendering!Highlight(u)
    /\ u.sup # {} => /\ u.nat = Rendering!Nothing /\ u.nsel = NoTrip
                     /\ u.dk = Rendering!Nothing /\ u.dsel = NoTrip

DrawTyped(u) ==
    /\ (DrawFields \cup QueueFields) \subseteq DOMAIN u
    /\ u.soon \in Nat /\ u.lost \in BOOLEAN /\ u.native \in BOOLEAN /\ u.overlay \in BOOLEAN

DrawSound(u) ==
    /\ DrawTyped(u) /\ Single(u)
    /\ u.soon = 0 /\ ~u.lost /\ (u.native \/ u.overlay) => Exact(u)

SameDrawing(u, v) == DOMAIN v = DOMAIN u /\ \A f \in DrawFields : v[f] = u[f]

LEMMA SameDrawingSound ==
    ASSUME NEW u, DrawSound(u), NEW v, SameDrawing(u, v)
    PROVE  DrawSound(v)
<1>1. /\ v.dat = u.dat /\ v.dk = u.dk /\ v.dsel = u.dsel /\ v.native = u.native /\ v.nat = u.nat
      /\ v.nsel = u.nsel /\ v.overlay = u.overlay /\ v.sel = u.sel /\ v.sup = u.sup /\ v.info = u.info
      /\ v.lost = u.lost /\ v.soon = u.soon /\ DOMAIN v = DOMAIN u
  BY DEF SameDrawing, DrawFields
<1>2. Rendering!Seen(v) = Rendering!Seen(u) /\ Rendering!Highlight(v) = Rendering!Highlight(u)
  BY <1>1 DEF Rendering!Seen, Rendering!Highlight
<1>3. Exact(u) => Exact(v)
  BY <1>1, <1>2, Zenon DEF Exact
<1>4. Single(v) /\ DrawTyped(v)
  BY <1>1 DEF DrawSound, Single, DrawTyped
<1> QED BY <1>1, <1>3, <1>4 DEF DrawSound

(* A rendering draws what there is to see, in one renderer.                *)
LEMMA RenderDraws ==
    ASSUME NEW u, DrawTyped(u), Single(u)
    PROVE  LET w == Rendering!Render(u)
           IN  /\ DrawSound(w) /\ DOMAIN w = DOMAIN u
               /\ \A f \in QueueFields : w[f] = u[f]
<1> DEFINE w == Rendering!Render(u)
           v == [u EXCEPT !.lost = FALSE]
           Drawn(x) == /\ DrawTyped(x) /\ Single(x) /\ Exact(x) /\ DOMAIN x = DOMAIN u
                       /\ \A f \in QueueFields : x[f] = u[f]
           Plain(x) == /\ DOMAIN x = DOMAIN u /\ DrawTyped(x) /\ \A f \in QueueFields : x[f] = u[f]
<1>1. /\ Plain(v) /\ v.lost = FALSE /\ Single(v)
      /\ v.sup = u.sup
  BY DEF DrawTyped, DrawFields, QueueFields, Single
<1> HIDE DEF v
<1>2. ASSUME v.sup # {} PROVE Drawn(Rendering!ClearNativeLayers([v EXCEPT !.dk = Rendering!Nothing, !.dsel = NoTrip]))
  <2> DEFINE y == [v EXCEPT !.dk = Rendering!Nothing, !.dsel = NoTrip]
             x == Rendering!ClearNativeLayers(y)
  <2>1. /\ Plain(y) /\ y.dk = Rendering!Nothing /\ y.dsel = NoTrip /\ y.sup # {}
    BY <1>1, <1>2 DEF DrawTyped, DrawFields, QueueFields
  <2> HIDE DEF y
  <2>2. /\ Plain(x) /\ x.dk = Rendering!Nothing /\ x.dsel = NoTrip /\ x.sup # {}
        /\ x.nat = Rendering!Nothing /\ x.nsel = NoTrip
    BY <2>1 DEF DrawTyped, DrawFields, QueueFields, Rendering!ClearNativeLayers
  <2> HIDE DEF x
  <2>3. Drawn(x)
    BY <2>2 DEF Exact, Single
  <2> QED BY <2>3 DEF x, y
<1>3. ASSUME v.sup = {} PROVE Drawn(Rendering!RenderNative(v))
  <2> DEFINE x == Rendering!RenderNative(v)
  <2>1. /\ Plain(x) /\ x.dk = Rendering!Nothing /\ x.dsel = NoTrip /\ x.sup = {} /\ x.native = TRUE
        /\ x.nat = Rendering!Seen(v) /\ x.nsel = Rendering!Highlight(v)
        /\ x.dat = v.dat /\ x.sel = v.sel /\ x.info = v.info
    BY <1>1, <1>3 DEF DrawTyped, DrawFields, QueueFields, Rendering!RenderNative
  <2> HIDE DEF x
  <2>2. Rendering!Seen(x) = Rendering!Seen(v) /\ Rendering!Highlight(x) = Rendering!Highlight(v)
    BY <2>1 DEF Rendering!Seen, Rendering!Highlight
  <2>3. Drawn(x)
    BY <2>1, <2>2 DEF Exact, Single
  <2> QED BY <2>3 DEF x
<1>4. ASSUME NEW y, Plain(y), y.sup = {}, y.native = FALSE, Single(y) PROVE Drawn(Rendering!RenderDeck(y))
  <2> DEFINE x == Rendering!RenderDeck(y)
  <2>1. /\ Plain(x) /\ x.nat = Rendering!Nothing /\ x.nsel = NoTrip /\ x.sup = {} /\ x.native = FALSE
        /\ x.dk = Rendering!Seen(y) /\ x.dsel = Rendering!Highlight(y)
        /\ x.dat = y.dat /\ x.sel = y.sel /\ x.info = y.info
    BY <1>4 DEF DrawTyped, DrawFields, QueueFields, Rendering!RenderDeck, Single
  <2> HIDE DEF x
  <2>2. Rendering!Seen(x) = Rendering!Seen(y) /\ Rendering!Highlight(x) = Rendering!Highlight(y)
    BY <2>1 DEF Rendering!Seen, Rendering!Highlight
  <2>3. Drawn(x)
    BY <2>1, <2>2 DEF Exact, Single
  <2> QED BY <2>3 DEF x
<1>5. ASSUME v.sup = {}, v.native = TRUE PROVE Drawn(Rendering!RenderDeck(Rendering!ClearNativeLayers(v)))
  <2> DEFINE y == Rendering!ClearNativeLayers(v)
  <2>1. Plain(y) /\ y.sup = {} /\ y.native = FALSE /\ Single(y)
    BY <1>1, <1>5 DEF DrawTyped, DrawFields, QueueFields, Rendering!ClearNativeLayers, Single
  <2> HIDE DEF y
  <2>2. Drawn(Rendering!RenderDeck(y))
    BY <1>4, <2>1
  <2> QED BY <2>2 DEF y
<1>6. v.native \in BOOLEAN
  BY <1>1 DEF DrawTyped
<1>7. ASSUME v.sup = {}, v.native = FALSE PROVE Drawn(Rendering!RenderDeck(v))
  BY <1>1, <1>4, <1>7
<1>8. CASE v.sup # {}
  <2>1. w = Rendering!ClearNativeLayers([v EXCEPT !.dk = Rendering!Nothing, !.dsel = NoTrip])
    BY <1>8 DEF Rendering!Render, v
  <2>2. Drawn(w)
    BY <1>2, <1>8, <2>1, Zenon
  <2> QED BY <2>2 DEF DrawSound
<1>9. CASE v.sup = {}
  <2>1. w \in {Rendering!RenderNative(v), Rendering!RenderDeck(IF v.native THEN Rendering!ClearNativeLayers(v) ELSE v)}
    BY <1>9 DEF Rendering!Render, v
  <2> HIDE DEF w, Drawn
  <2>2. Drawn(w)
    BY <1>3, <1>5, <1>6, <1>7, <1>9, <2>1
  <2> QED BY <2>2 DEF DrawSound, Drawn, w
<1> QED BY <1>8, <1>9

(* Whatever the overlay has to do is done, or a refresh is due or lost.    *)
LEMMA RefreshingDraws ==
    ASSUME NEW u, DrawTyped(u), Single(u)
    PROVE  LET w == Rendering!RefreshTripStyles(u)
           IN  /\ DrawSound(w) /\ DOMAIN w = DOMAIN u
               /\ \A f \in QueueFields : w[f] = u[f]
<1> DEFINE a == [u EXCEPT !.lost = TRUE]
           b == [u EXCEPT !.busy = TRUE, !.soon = @ + 1]
<1>1. /\ DOMAIN a = DOMAIN u /\ DrawTyped(a) /\ a.lost = TRUE /\ Single(a)
      /\ \A f \in QueueFields : a[f] = u[f]
  BY DEF DrawTyped, DrawFields, QueueFields, Single
<1>2. /\ DOMAIN b = DOMAIN u /\ DrawTyped(b) /\ b.soon = u.soon + 1 /\ Single(b) /\ u.soon \in Nat
      /\ \A f \in QueueFields : b[f] = u[f]
  BY DEF DrawTyped, DrawFields, QueueFields, Single
<1>3. Rendering!RefreshTripStyles(u) \in {a, b}
  BY DEF Rendering!RefreshTripStyles
<1> HIDE DEF a, b
<1>4. b.soon # 0
  BY <1>2
<1> QED BY <1>1, <1>2, <1>3, <1>4 DEF DrawSound

LEMMA DrawingHelpers ==
    ASSUME NEW u, DrawSound(u), NEW t, NEW l, NEW b \in BOOLEAN
    PROVE  /\ DrawSound(Rendering!Acted(u)) /\ DrawSound(Rendering!RefreshTripStyles(u))
           /\ DrawSound(Rendering!Render(u)) /\ DrawSound(Rendering!Stopped(u))
           /\ DrawSound(Rendering!ClosedByClick(u)) /\ DrawSound(Rendering!PopupRemoved(u, t))
           /\ DrawSound(Rendering!HandleTripClick(u, t, l, b))
<1>1. DrawTyped(u) /\ Single(u)
  BY DEF DrawSound
<1>2. DrawSound(Rendering!RefreshTripStyles(u)) /\ DrawSound(Rendering!Render(u))
  BY <1>1, RefreshingDraws, RenderDraws
<1>3. /\ SameDrawing(u, Rendering!Acted(u)) /\ SameDrawing(u, Rendering!Stopped(u))
      /\ SameDrawing(u, Rendering!ClosedByClick(u)) /\ SameDrawing(u, Rendering!PopupRemoved(u, t))
  BY DEF Rendering!Acted, Rendering!Stopped, Rendering!ClosedByClick, Rendering!PopupRemoved, SameDrawing, DrawFields
<1> DEFINE w == [u EXCEPT !.sel = [trip |-> t, layer |-> l],
                          !.pop = @ \cup {[id |-> u.steps + 1, trip |-> t, defer |-> b, armed |-> ~b]}]
<1>4. DrawTyped(w) /\ Single(w)
  BY <1>1 DEF DrawTyped, DrawFields, QueueFields, Single
<1>5. Rendering!HandleTripClick(u, t, l, b) = Rendering!RefreshTripStyles(w)
  BY DEF Rendering!HandleTripClick
<1> HIDE DEF w
<1>6. DrawSound(Rendering!RefreshTripStyles(w))
  BY <1>4, RefreshingDraws
<1> QED BY <1>2, <1>3, <1>5, <1>6, SameDrawingSound

(* Bundles, layers, scenes, styles and the terrain.                        *)
LEMMA DrawingSteps ==
    ASSUME DrawSound(ui),
           \/ Rendering!ThrottleEnds \/ Rendering!RefreshSelection \/ Rendering!Decoded \/ Rendering!DecodeFails
           \/ Rendering!StyleChanges \/ Rendering!ReliefToggled \/ Rendering!MapIdle
           \/ \E l \in Layers, b \in Bundles : Rendering!BundleArrives(l, b)
           \/ \E l \in Layers, v \in BOOLEAN : Rendering!SetLayerVisibility(l, v)
           \/ \E h \in BOOLEAN : Rendering!SetUseHeatmap(h)
           \/ \E x \in Reasons : Rendering!SuppressTripLayers(x) \/ Rendering!RestoreTripLayers(x)
    PROVE  DrawSound(ui')
<1>t. DrawTyped(ui) /\ Single(ui)
  BY DEF DrawSound
<1>h. ASSUME NEW u, DrawSound(u) PROVE DrawSound(Rendering!Acted(u))
  BY <1>h, DrawingHelpers, TRUE \in BOOLEAN
<1>r. ASSUME NEW u, DrawTyped(u), Single(u) PROVE DrawSound(Rendering!Render(u)) /\ DrawSound(Rendering!RefreshTripStyles(u))
  BY <1>r, RenderDraws, RefreshingDraws
<1>1. CASE Rendering!ThrottleEnds \/ Rendering!DecodeFails
  <2>1. SameDrawing(ui, ui')
    BY <1>1, <1>t DEF Rendering!ThrottleEnds, Rendering!DecodeFails, SameDrawing, DrawTyped, DrawFields
  <2> QED BY <2>1, SameDrawingSound
<1>2. CASE Rendering!RefreshSelection
  <2> DEFINE u == [ui EXCEPT !.soon = @ - 1]
  <2>1. DrawTyped(u) /\ Single(u) /\ ui' = Rendering!Render(u)
    BY <1>2, <1>t DEF DrawTyped, DrawFields, QueueFields, Single, Rendering!RefreshSelection
  <2> HIDE DEF u
  <2> QED BY <2>1, <1>r
<1>3. CASE Rendering!Decoded
  <2> DEFINE job == Head(ui.jobs)
             u == [ui EXCEPT !.jobs = Tail(@), !.dat[job.layer] = job.bundle, !.drape[job.layer] = "none"]
  <2>1. DrawTyped(u) /\ Single(u)
    BY <1>t DEF DrawTyped, DrawFields, QueueFields, Single
  <2>2. ui' = Rendering!RefreshTripStyles(Rendering!Render(u))
    BY <1>3 DEF Rendering!Decoded
  <2> HIDE DEF u
  <2>3. DrawSound(Rendering!Render(u))
    BY <2>1, <1>r
  <2> QED BY <2>2, <2>3, DrawingHelpers, TRUE \in BOOLEAN
<1>4. CASE Rendering!StyleChanges
  <2>1. PICK jobs, putback :
            ui' = Rendering!Acted([ui EXCEPT !.nat = Rendering!Nothing, !.nsel = NoTrip, !.lost = TRUE,
                                             !.jobs = jobs, !.putback = putback])
    BY <1>4, ZenonT(60) DEF Rendering!StyleChanges
  <2> DEFINE u == [ui EXCEPT !.nat = Rendering!Nothing, !.nsel = NoTrip, !.lost = TRUE,
                             !.jobs = jobs, !.putback = putback]
  <2>2. /\ DOMAIN u = DOMAIN ui /\ u.lost = TRUE /\ u.soon = ui.soon /\ u.native = ui.native /\ u.overlay = ui.overlay
        /\ u.nat = Rendering!Nothing /\ u.nsel = NoTrip /\ u.dk = ui.dk /\ u.dsel = ui.dsel
    BY <1>t, SMTT(30) DEF DrawTyped, DrawFields, QueueFields
  <2>3. ui' = Rendering!Acted(u)
    BY <2>1
  <2> HIDE DEF u
  <2>4. DrawSound(u)
    BY <1>t, <2>2 DEF DrawSound, DrawTyped, Single
  <2> QED BY <1>h, <2>3, <2>4
<1>5. CASE Rendering!ReliefToggled
  <2> DEFINE u == [ui EXCEPT !.relief = ~@]
             v == [u EXCEPT !.terrain = u.relief]
  <2>1. SameDrawing(ui, u)
    BY DEF SameDrawing, DrawFields
  <2>2. ui' = Rendering!Acted(u) \/ ui' = Rendering!Acted(Rendering!Render(v))
    BY <1>5 DEF Rendering!ReliefToggled
  <2> HIDE DEF u
  <2>3. SameDrawing(u, v)
    BY <2>1 DEF SameDrawing, DrawFields
  <2> HIDE DEF v
  <2>4. DrawSound(u) /\ DrawSound(v)
    BY <2>1, <2>3, SameDrawingSound
  <2>5. DrawSound(Rendering!Render(v))
    BY <2>4, DrawingHelpers, TRUE \in BOOLEAN
  <2> QED BY <1>h, <2>2, <2>4, <2>5
<1>6. CASE Rendering!MapIdle
  <2>1. PICK drape : ui' = Rendering!Render([ui EXCEPT !.drape = drape])
    BY <1>6 DEF Rendering!MapIdle
  <2> DEFINE u == [ui EXCEPT !.drape = drape]
  <2>2. DrawTyped(u) /\ Single(u) /\ ui' = Rendering!Render(u)
    BY <2>1, <1>t DEF DrawTyped, DrawFields, QueueFields, Single
  <2> HIDE DEF u
  <2> QED BY <1>r, <2>2
<1>7. ASSUME NEW l \in Layers, NEW b \in Bundles, Rendering!BundleArrives(l, b) PROVE DrawSound(ui')
  <2> DEFINE u == [ui EXCEPT !.jobs = Append(@, [layer |-> l, bundle |-> b]), !.latest[l] = b]
  <2>1. SameDrawing(ui, u) /\ ui' = Rendering!Acted(u)
    BY <1>7, <1>t DEF SameDrawing, DrawTyped, DrawFields, Rendering!BundleArrives
  <2> HIDE DEF u
  <2>2. DrawSound(u)
    BY <2>1, SameDrawingSound
  <2> QED BY <1>h, <2>1, <2>2
<1>8. ASSUME NEW l \in Layers, NEW v \in BOOLEAN, Rendering!SetLayerVisibility(l, v) PROVE DrawSound(ui')
  <2> DEFINE u == [ui EXCEPT !.info[l].vis = v]
  <2>1. DrawTyped(u) /\ Single(u) /\ ui' = Rendering!Acted(Rendering!Render(u))
    BY <1>8, <1>t DEF DrawTyped, DrawFields, QueueFields, Single, Rendering!SetLayerVisibility
  <2> HIDE DEF u
  <2> QED BY <1>h, <1>r, <2>1
<1>9. ASSUME NEW h \in BOOLEAN, Rendering!SetUseHeatmap(h) PROVE DrawSound(ui')
  <2>1. PICK info : ui' = Rendering!Acted(Rendering!Render([ui EXCEPT !.info = info]))
    BY <1>9 DEF Rendering!SetUseHeatmap
  <2> DEFINE u == [ui EXCEPT !.info = info]
  <2>2. DrawTyped(u) /\ Single(u) /\ ui' = Rendering!Acted(Rendering!Render(u))
    BY <2>1, <1>t DEF DrawTyped, DrawFields, QueueFields, Single
  <2> HIDE DEF u
  <2> QED BY <1>h, <1>r, <2>2
<1>10. ASSUME NEW x \in Reasons, Rendering!SuppressTripLayers(x) \/ Rendering!RestoreTripLayers(x)
       PROVE  DrawSound(ui')
  <2>1. PICK s : \/ ui' = Rendering!Acted(Rendering!Render([ui EXCEPT !.sup = s]))
                 \/ ui' = Rendering!Acted([ui EXCEPT !.sup = s]) /\ ui.sup # {} /\ s # {}
    <3>1. CASE Rendering!SuppressTripLayers(x)
      <4> WITNESS ui.sup \cup {x}
      <4> QED BY <3>1 DEF Rendering!SuppressTripLayers
    <3>2. CASE Rendering!RestoreTripLayers(x)
      <4>1. ([ui EXCEPT !.sup = @ \ {x}]).sup = ui.sup \ {x}
        BY <1>t DEF DrawTyped, DrawFields
      <4> WITNESS ui.sup \ {x}
      <4> QED BY <3>2, <4>1 DEF Rendering!RestoreTripLayers
    <3> QED BY <1>10, <3>1, <3>2
  <2> DEFINE u == [ui EXCEPT !.sup = s]
  <2>2. /\ DrawTyped(u) /\ Single(u) /\ u.sup = s /\ u.soon = ui.soon /\ u.lost = ui.lost
        /\ u.native = ui.native /\ u.overlay = ui.overlay /\ u.nat = ui.nat /\ u.nsel = ui.nsel
        /\ u.dk = ui.dk /\ u.dsel = ui.dsel
    BY <1>t DEF DrawTyped, DrawFields, QueueFields, Single
  <2>3. \/ ui' = Rendering!Acted(Rendering!Render(u))
        \/ ui' = Rendering!Acted(u) /\ ui.sup # {} /\ s # {}
    BY <2>1
  <2> HIDE DEF u
  <2>4. ASSUME ui.sup # {}, s # {} PROVE DrawSound(u)
    <3>1. Exact(ui) => Exact(u)
      BY <2>2, <2>4 DEF Exact
    <3> QED BY <2>2, <3>1 DEF DrawSound
  <2> QED BY <1>h, <1>r, <2>2, <2>3, <2>4
<1> QED
  BY <1>1, <1>2, <1>3, <1>4, <1>5, <1>6, <1>7, <1>8, <1>9, <1>10

(* Selections, popups, their actions and the replay.                       *)
LEMMA ClickingSteps ==
    ASSUME DrawSound(ui),
           \/ Rendering!ClickNothing \/ Rendering!Decline \/ Rendering!Confirm
           \/ Rendering!SyncSelection \/ Rendering!DrawEnds \/ Rendering!ClickReplay
           \/ Rendering!ReplayEnds \/ Rendering!Leave
           \/ \E l \in Layers, t \in Trips : Rendering!ClickDeck(l, t) \/ Rendering!ClickNative(l, t)
           \/ \E t \in Trips : Rendering!ZoomToTrip(t) \/ Rendering!ActionDone(t) \/ Rendering!ActionFails(t)
           \/ \E p \in ui.pop : Rendering!ArmPopup(p) \/ Rendering!ClosePopup(p) \/ Rendering!AskAction(p)
    PROVE  DrawSound(ui')
<1>b. TRUE \in BOOLEAN /\ FALSE \in BOOLEAN
  OBVIOUS
<1>t. DrawTyped(ui) /\ Single(ui)
  BY DEF DrawSound
<1>h. ASSUME NEW u, DrawSound(u) PROVE DrawSound(Rendering!Acted(u)) /\ DrawSound(Rendering!Render(u))
  BY <1>h, <1>b, DrawingHelpers
<1>r. ASSUME NEW u, DrawTyped(u), Single(u) PROVE DrawSound(Rendering!RefreshTripStyles(u))
  BY <1>r, RefreshingDraws
<1>1. CASE Rendering!ClickNothing
  <2> DEFINE u == Rendering!ClosedByClick(ui)
             v == [u EXCEPT !.sel = Rendering!Nobody]
  <2>1. DrawSound(u)
    BY <1>b, DrawingHelpers
  <2>2. ui' = Rendering!Acted(u) \/ ui' = Rendering!Acted(Rendering!RefreshTripStyles(v))
    BY <1>1 DEF Rendering!ClickNothing
  <2> HIDE DEF u
  <2>3. DrawTyped(v) /\ Single(v)
    BY <2>1 DEF DrawSound, DrawTyped, DrawFields, QueueFields, Single
  <2> HIDE DEF v
  <2> QED BY <1>h, <1>r, <2>1, <2>2, <2>3
<1>2. CASE Rendering!SyncSelection \/ Rendering!Leave
  <2> DEFINE u == Rendering!Stopped(ui)
  <2>1. DrawSound(u)
    BY <1>b, DrawingHelpers
  <2>2. \/ ui' = [u EXCEPT !.act = NoTrip] \/ ui' = Rendering!Acted([u EXCEPT !.left = TRUE])
        \/ ui' = [u EXCEPT !.act = ui.sel.trip, !.draw = ui.sel.trip, !.control = ui.sel.trip]
    BY <1>2 DEF Rendering!SyncSelection, Rendering!Leave
  <2> HIDE DEF u
  <2>3. /\ SameDrawing(u, [u EXCEPT !.act = NoTrip]) /\ SameDrawing(u, [u EXCEPT !.left = TRUE])
        /\ SameDrawing(u, [u EXCEPT !.act = ui.sel.trip, !.draw = ui.sel.trip, !.control = ui.sel.trip])
    BY <2>1 DEF SameDrawing, DrawSound, DrawTyped, DrawFields
  <2> QED BY <1>h, <2>1, <2>2, <2>3, SameDrawingSound
<1>3. CASE Rendering!Decline \/ Rendering!Confirm \/ Rendering!DrawEnds \/ Rendering!ReplayEnds
  <2>1. SameDrawing(ui, ui')
    BY <1>3, <1>t DEF Rendering!Decline, Rendering!Confirm, Rendering!DrawEnds, Rendering!ReplayEnds,
                      SameDrawing, DrawTyped, DrawFields
  <2> QED BY <2>1, SameDrawingSound
<1>4. CASE Rendering!ClickReplay
  <2> DEFINE u == [ui EXCEPT !.play = IF @ = NoTrip THEN ui.control ELSE NoTrip]
  <2>1. SameDrawing(ui, u) /\ ui' = Rendering!Acted(u)
    BY <1>4, <1>t DEF Rendering!ClickReplay, SameDrawing, DrawTyped, DrawFields
  <2> HIDE DEF u
  <2> QED BY <1>h, <2>1, SameDrawingSound
<1>5. ASSUME NEW l \in Layers, NEW t \in Trips, Rendering!ClickDeck(l, t) \/ Rendering!ClickNative(l, t)
      PROVE  DrawSound(ui')
  <2> DEFINE u == Rendering!ClosedByClick(ui)
  <2>1. \/ ui' = Rendering!Acted(Rendering!Render(Rendering!HandleTripClick(u, t, l, TRUE)))
        \/ ui' = Rendering!Acted(Rendering!HandleTripClick(u, t, l, FALSE))
    BY <1>5 DEF Rendering!ClickDeck, Rendering!ClickNative
  <2>2. DrawSound(u)
    BY <1>b, DrawingHelpers
  <2> HIDE DEF u
  <2>3. DrawSound(Rendering!HandleTripClick(u, t, l, TRUE)) /\ DrawSound(Rendering!HandleTripClick(u, t, l, FALSE))
    BY <1>b, <2>2, DrawingHelpers
  <2> QED BY <1>h, <2>1, <2>3
<1>6. ASSUME NEW t \in Trips, Rendering!ZoomToTrip(t) PROVE DrawSound(ui')
  <2>1. PICK sel : ui' = Rendering!Acted(Rendering!RefreshTripStyles([ui EXCEPT !.sel = sel]))
    BY <1>6 DEF Rendering!ZoomToTrip
  <2> DEFINE u == [ui EXCEPT !.sel = sel]
  <2>2. DrawTyped(u) /\ Single(u) /\ ui' = Rendering!Acted(Rendering!RefreshTripStyles(u))
    BY <1>t, <2>1 DEF DrawTyped, DrawFields, QueueFields, Single
  <2> HIDE DEF u
  <2> QED BY <1>h, <1>r, <2>2
<1>7. ASSUME NEW t \in Trips, Rendering!ActionDone(t) \/ Rendering!ActionFails(t) PROVE DrawSound(ui')
  <2>1. SameDrawing(ui, ui')
    BY <1>7, <1>t DEF Rendering!ActionDone, Rendering!ActionFails, SameDrawing, DrawTyped, DrawFields
  <2> QED BY <2>1, SameDrawingSound
<1>8. ASSUME NEW p \in ui.pop, Rendering!ArmPopup(p) PROVE DrawSound(ui')
  <2>1. SameDrawing(ui, ui')
    BY <1>8, <1>t DEF Rendering!ArmPopup, SameDrawing, DrawTyped, DrawFields
  <2> QED BY <2>1, SameDrawingSound
<1>9. ASSUME NEW p \in ui.pop, Rendering!ClosePopup(p) \/ Rendering!AskAction(p) PROVE DrawSound(ui')
  <2> DEFINE u == [ui EXCEPT !.ask = p.trip]
  <2>1. ui' = Rendering!Acted(Rendering!PopupRemoved(ui, p)) \/ ui' = Rendering!Acted(u)
    BY <1>9 DEF Rendering!ClosePopup, Rendering!AskAction
  <2>2. SameDrawing(ui, u)
    BY <1>t DEF SameDrawing, DrawTyped, DrawFields
  <2> HIDE DEF u
  <2>3. DrawSound(u) /\ DrawSound(Rendering!PopupRemoved(ui, p))
    BY <1>b, <2>2, SameDrawingSound, DrawingHelpers
  <2> QED BY <1>h, <2>1, <2>3
<1> QED
  BY <1>1, <1>2, <1>3, <1>4, <1>5, <1>6, <1>7, <1>8, <1>9

LEMMA DrawingKept ==
    ASSUME DrawSound(ui), Rendering!Next
    PROVE  DrawSound(ui')
BY DrawingSteps, ClickingSteps DEF Rendering!Next

LEMMA DrawingStart ==
    ASSUME Rendering!Init
    PROVE  DrawSound(ui)
<1> DEFINE z == Rendering!Start
<1>1. /\ (DrawFields \cup QueueFields) \subseteq DOMAIN z
      /\ z.soon = 0 /\ z.lost = FALSE /\ z.native = FALSE /\ z.overlay = FALSE
      /\ z.nat = Rendering!Nothing /\ z.nsel = NoTrip
  BY DEF Rendering!Start, DrawFields, QueueFields
<1>2. PICK d \in BOOLEAN, b \in Bundles, l \in Layers :
          ui = [z EXCEPT !.deck = d, !.jobs = <<[layer |-> l, bundle |-> b]>>, !.latest[l] = b]
  BY DEF Rendering!Init
<1> HIDE DEF z
<1>3. /\ DOMAIN ui = DOMAIN z /\ ui.soon = z.soon /\ ui.lost = z.lost /\ ui.native = z.native
      /\ ui.overlay = z.overlay /\ ui.nat = z.nat /\ ui.nsel = z.nsel
  BY <1>1, <1>2 DEF DrawFields
<1>4. ui.native = FALSE /\ ui.overlay = FALSE /\ ui.lost = FALSE
  BY <1>1, <1>3, Zenon
<1>5. ~(ui.native \/ ui.overlay)
  BY <1>4, Zenon
<1>6. ui.native \in BOOLEAN /\ ui.overlay \in BOOLEAN /\ ui.lost \in BOOLEAN
  BY <1>4, Zenon
<1>7. ui.soon \in Nat /\ DrawFields \cup QueueFields \subseteq DOMAIN ui
  BY <1>1, <1>3
<1>8. DrawTyped(ui)
  BY <1>6, <1>7, Zenon DEF DrawTyped
<1>9. ui.nat = Rendering!Nothing /\ ui.nsel = NoTrip
  BY <1>1, <1>3, Zenon
<1>10. Single(ui)
  BY <1>5, <1>9, Zenon DEF Single
<1> QED BY <1>5, <1>8, <1>10, Zenon DEF DrawSound

LEMMA DrawnIsSeen ==
    ASSUME DrawSound(ui)
    PROVE  Rendering!DrawnIsState /\ Rendering!OneRenderer
<1>1. ui.native \in BOOLEAN
  BY DEF DrawSound, DrawTyped
<1>2. Rendering!OneRenderer
  BY <1>1 DEF DrawSound, Single, Rendering!OneRenderer
<1>3. ASSUME ui.nat = Rendering!Seen(ui) PROVE [l \in Layers |-> ui.nat[l]] = Rendering!Seen(ui)
  BY <1>3 DEF Rendering!Seen
<1>4. Rendering!DrawnIsState
  BY <1>1, <1>3, Zenon DEF DrawSound, Exact, Rendering!DrawnIsState
<1> QED BY <1>2, <1>4

(* The bundles on their way to the map. What is decoded last for a layer   *)
(* is what arrived last, or the layer has it, unless a style was put back. *)
Job == [layer : Layers, bundle : Bundles \cup {NoBundle}]
Coming(jobs, dat, latest, l) ==
    \/ dat[l] = latest[l] /\ \A i \in DOMAIN jobs : jobs[i].layer # l
    \/ \E i \in DOMAIN jobs : /\ jobs[i].layer = l /\ jobs[i].bundle = latest[l]
                              /\ \A k \in DOMAIN jobs : k > i => jobs[k].layer # l

QueueSound(u) ==
    /\ QueueFields \subseteq DOMAIN u
    /\ u.jobs \in Seq(Job) /\ u.dat \in Rendering!Drawn /\ u.latest \in Rendering!Drawn
    /\ ~u.putback => \A l \in Layers : Coming(u.jobs, u.dat, u.latest, l)

SameQueue(u, v) == DOMAIN v = DOMAIN u /\ \A f \in QueueFields : v[f] = u[f]

LEMMA SameQueueSound ==
    ASSUME NEW u, QueueSound(u), NEW v, SameQueue(u, v)
    PROVE  QueueSound(v)
<1>1. v.jobs = u.jobs /\ v.dat = u.dat /\ v.latest = u.latest /\ v.putback = u.putback /\ DOMAIN v = DOMAIN u
  BY DEF SameQueue, QueueFields
<1> QED BY <1>1, Zenon DEF QueueSound

(* Nothing but a bundle, its decoding and a style touch the queue.         *)
LEMMA QueueHelpers ==
    ASSUME NEW u, DrawSound(u), QueueSound(u), NEW t, NEW l, NEW b \in BOOLEAN
    PROVE  /\ QueueSound(Rendering!Acted(u)) /\ QueueSound(Rendering!RefreshTripStyles(u))
           /\ QueueSound(Rendering!Render(u)) /\ QueueSound(Rendering!Stopped(u))
           /\ QueueSound(Rendering!ClosedByClick(u)) /\ QueueSound(Rendering!PopupRemoved(u, t))
           /\ QueueSound(Rendering!HandleTripClick(u, t, l, b))
<1>1. DrawTyped(u) /\ Single(u)
  BY DEF DrawSound
<1>2. SameQueue(u, Rendering!RefreshTripStyles(u)) /\ SameQueue(u, Rendering!Render(u))
  BY <1>1, RefreshingDraws, RenderDraws DEF SameQueue
<1>3. /\ SameQueue(u, Rendering!Acted(u)) /\ SameQueue(u, Rendering!Stopped(u))
      /\ SameQueue(u, Rendering!ClosedByClick(u)) /\ SameQueue(u, Rendering!PopupRemoved(u, t))
  BY DEF Rendering!Acted, Rendering!Stopped, Rendering!ClosedByClick, Rendering!PopupRemoved, SameQueue,
         QueueFields, QueueSound
<1> DEFINE w == [u EXCEPT !.sel = [trip |-> t, layer |-> l],
                          !.pop = @ \cup {[id |-> u.steps + 1, trip |-> t, defer |-> b, armed |-> ~b]}]
<1>4. DrawTyped(w) /\ Single(w) /\ SameQueue(u, w)
  BY <1>1 DEF DrawTyped, DrawFields, QueueFields, Single, SameQueue
<1>5. Rendering!HandleTripClick(u, t, l, b) = Rendering!RefreshTripStyles(w)
  BY DEF Rendering!HandleTripClick
<1> HIDE DEF w
<1>6. SameQueue(u, Rendering!RefreshTripStyles(w))
  BY <1>4, RefreshingDraws DEF SameQueue
<1> QED BY <1>2, <1>3, <1>5, <1>6, SameQueueSound

LEMMA QueueArrival ==
    ASSUME NEW jobs \in Seq(Job), NEW dat, NEW latest \in Rendering!Drawn, NEW l \in Layers, NEW b \in Bundles,
           \A x \in Layers : Coming(jobs, dat, latest, x)
    PROVE  \A x \in Layers : Coming(Append(jobs, [layer |-> l, bundle |-> b]), dat, [latest EXCEPT ![l] = b], x)
<1> DEFINE q == Append(jobs, [layer |-> l, bundle |-> b])
           now == [latest EXCEPT ![l] = b]
<1>1. /\ Len(jobs) \in Nat /\ DOMAIN jobs = 1..Len(jobs) /\ DOMAIN q = 1..(Len(jobs) + 1)
      /\ \A i \in 1..Len(jobs) : q[i] = jobs[i]
      /\ q[Len(jobs) + 1] = [layer |-> l, bundle |-> b]
  OBVIOUS
<1>2. now[l] = b /\ \A x \in Layers \ {l} : now[x] = latest[x]
  BY DEF Rendering!Drawn
<1>3. q[Len(jobs) + 1].layer = l /\ q[Len(jobs) + 1].bundle = b
  BY <1>1
<1> HIDE DEF q, now
<1>4. Coming(q, dat, now, l)
  BY <1>1, <1>2, <1>3 DEF Coming
<1>5. ASSUME NEW x \in Layers \ {l} PROVE Coming(q, dat, now, x)
  <2>1. CASE dat[x] = latest[x] /\ \A i \in DOMAIN jobs : jobs[i].layer # x
    BY <1>1, <1>2, <1>3, <2>1 DEF Coming
  <2>2. CASE \E i \in DOMAIN jobs : /\ jobs[i].layer = x /\ jobs[i].bundle = latest[x]
                                    /\ \A k \in DOMAIN jobs : k > i => jobs[k].layer # x
    <3> PICK i \in DOMAIN jobs : /\ jobs[i].layer = x /\ jobs[i].bundle = latest[x]
                                 /\ \A k \in DOMAIN jobs : k > i => jobs[k].layer # x
      BY <2>2
    <3>1. i \in DOMAIN q /\ q[i] = jobs[i]
      BY <1>1
    <3>2. ASSUME NEW k \in DOMAIN q, k > i PROVE q[k].layer # x
      BY <1>1, <1>3, <3>2
    <3> QED BY <1>2, <3>1, <3>2 DEF Coming
  <2> QED BY <2>1, <2>2 DEF Coming
<1> QED BY <1>4, <1>5 DEF q, now

LEMMA QueueDecoding ==
    ASSUME NEW jobs \in Seq(Job), jobs # << >>, NEW dat \in Rendering!Drawn, NEW latest,
           \A x \in Layers : Coming(jobs, dat, latest, x)
    PROVE  \A x \in Layers : Coming(Tail(jobs), [dat EXCEPT ![Head(jobs).layer] = Head(jobs).bundle], latest, x)
<1> DEFINE q == Tail(jobs)
           now == [dat EXCEPT ![Head(jobs).layer] = Head(jobs).bundle]
<1>1. /\ Len(jobs) \in Nat /\ DOMAIN jobs = 1..Len(jobs) /\ 1 \in DOMAIN jobs /\ DOMAIN q = 1..(Len(jobs) - 1)
      /\ Head(jobs) = jobs[1] /\ \A i \in 1..(Len(jobs) - 1) : q[i] = jobs[i + 1]
  OBVIOUS
<1>2. \A x \in Layers : now[x] = IF x = jobs[1].layer THEN jobs[1].bundle ELSE dat[x]
  BY <1>1 DEF Rendering!Drawn
<1> HIDE DEF q, now
<1>3. ASSUME NEW x \in Layers PROVE Coming(q, now, latest, x)
  <2>1. CASE dat[x] = latest[x] /\ \A i \in DOMAIN jobs : jobs[i].layer # x
    <3>1. now[x] = latest[x]
      BY <1>1, <1>2, <2>1
    <3>2. \A i \in DOMAIN q : q[i].layer # x
      BY <1>1, <2>1
    <3> QED BY <3>1, <3>2 DEF Coming
  <2>2. CASE \E i \in DOMAIN jobs : /\ jobs[i].layer = x /\ jobs[i].bundle = latest[x]
                                    /\ \A k \in DOMAIN jobs : k > i => jobs[k].layer # x
    <3> PICK i \in DOMAIN jobs : /\ jobs[i].layer = x /\ jobs[i].bundle = latest[x]
                                 /\ \A k \in DOMAIN jobs : k > i => jobs[k].layer # x
      BY <2>2
    <3>1. CASE i = 1
      <4>1. now[x] = latest[x]
        BY <1>2, <3>1
      <4>2. \A k \in DOMAIN q : q[k].layer # x
        BY <1>1, <3>1
      <4> QED BY <4>1, <4>2 DEF Coming
    <3>2. CASE i # 1
      <4>1. i - 1 \in DOMAIN q /\ q[i - 1] = jobs[i]
        BY <1>1, <3>2
      <4>2. ASSUME NEW k \in DOMAIN q, k > i - 1 PROVE q[k].layer # x
        <5>1. k \in 1..(Len(jobs) - 1) /\ k + 1 \in DOMAIN jobs /\ k + 1 > i
          BY ONLY <1>1, <4>2, i \in DOMAIN jobs
        <5>2. q[k] = jobs[k + 1]
          BY ONLY <1>1, <5>1
        <5>3. jobs[k + 1].layer # x
          BY <5>1, Zenon
        <5> QED BY ONLY <5>2, <5>3
      <4> QED BY <4>1, <4>2 DEF Coming
    <3> QED BY <3>1, <3>2
  <2> QED BY <2>1, <2>2, <1>3 DEF Coming
<1> QED BY <1>3 DEF q, now

(* Two sequences of one element each make the pair.  *)
LEMMA PairOfTwo == ASSUME NEW a, NEW b PROVE <<a>> \o <<b>> = <<a, b>>
<1> DEFINE S == {a, b}
<1>1. /\ <<a>> \in Seq(S) /\ <<b>> \in Seq(S) /\ <<a, b>> \in Seq(S)
      /\ Len(<<a>>) = 1 /\ Len(<<b>>) = 1 /\ Len(<<a, b>>) = 2
  OBVIOUS
<1>2. <<a>> \o <<b>> \in Seq(S) /\ Len(<<a>> \o <<b>>) = 2
  BY <1>1, ConcatProperties
<1>3. (<<a>> \o <<b>>)[1] = a /\ (<<a>> \o <<b>>)[2] = b
  BY <1>1, ConcatProperties
<1>4. \A i \in 1..2 : (<<a>> \o <<b>>)[i] = <<a, b>>[i]
  BY <1>3
<1> HIDE DEF S
<1> QED BY <1>1, <1>2, <1>4, SeqEqual

(* What a new style puts back are bundles the layers have, one per layer.  *)
LEMMA QueuePutBack ==
    ASSUME QueueSound(ui), Rendering!StyleChanges
    PROVE  \E q \in Seq(Job) :
               /\ ui' = Rendering!Acted([ui EXCEPT !.nat = Rendering!Nothing, !.nsel = NoTrip, !.lost = TRUE,
                                                   !.jobs = @ \o q, !.putback = @ \/ ui.jobs # << >>])
               /\ \A i \in DOMAIN q : q[i].bundle = ui.dat[q[i].layer]
               /\ \A i, k \in DOMAIN q : i # k => q[i].layer # q[k].layer
<1> DEFINE again == {l \in Layers : ui.info[l].vis /\ ui.dat[l] # NoBundle}
           one == CHOOSE l \in again : TRUE
           rest == again \ {one}
           J(l) == [layer |-> l, bundle |-> ui.dat[l]]
           Jobs(ls) == IF ls = {} THEN << >> ELSE LET l == CHOOSE x \in ls : TRUE IN <<J(l)>>
           two == CHOOSE l \in rest : TRUE
           q == IF again = {} THEN << >> ELSE Jobs({one}) \o Jobs(rest)
<1>1. ui' = Rendering!Acted([ui EXCEPT !.nat = Rendering!Nothing, !.nsel = NoTrip, !.lost = TRUE,
                                       !.jobs = @ \o q, !.putback = @ \/ ui.jobs # << >>])
  BY DEF Rendering!StyleChanges
<1>2. \A l \in Layers : J(l) \in Job
  BY DEF QueueSound, Rendering!Drawn, Job
<1>3. Jobs({one}) = <<J(one)>>
  OBVIOUS
<1>4. again # {} => one \in again
  OBVIOUS
<1>5. rest # {} => two \in rest
  OBVIOUS
<1>6. Jobs(rest) = IF rest = {} THEN << >> ELSE <<J(two)>>
  OBVIOUS
<1>7. again \subseteq Layers /\ (two \in rest => two \in again /\ two # one)
  OBVIOUS
<1>9. \A l : J(l).layer = l /\ J(l).bundle = ui.dat[l]
  OBVIOUS
<1> HIDE DEF J, rest, again, one, two, Jobs
<1>8. q = IF again = {} THEN << >> ELSE <<J(one)>> \o (IF rest = {} THEN << >> ELSE <<J(two)>>)
  BY <1>3, <1>6
<1>13. SUFFICES /\ q \in Seq(Job)
                /\ \A i \in DOMAIN q : q[i].bundle = ui.dat[q[i].layer]
                /\ \A i, k \in DOMAIN q : i # k => q[i].layer # q[k].layer
  BY <1>1
<1> HIDE DEF q
<1>10. CASE again = {}
  <2>1. q = << >>
    BY <1>8, <1>10
  <2>2. q \in Seq(Job) /\ DOMAIN q = {}
    BY <2>1
  <2> QED BY <2>2
<1>11. CASE again # {} /\ rest = {}
  <2>1. q = <<J(one)>>
    BY <1>2, <1>4, <1>7, <1>8, <1>11
  <2>2. q \in Seq(Job) /\ DOMAIN q = {1} /\ q[1] = J(one)
    BY <1>2, <1>4, <1>7, <1>11, <2>1
  <2> QED BY <1>9, <2>2
<1>12. CASE again # {} /\ rest # {}
  <2>0. ASSUME NEW a, NEW b PROVE <<a>> \o <<b>> = <<a, b>>
    BY PairOfTwo
  <2>1. q = <<J(one), J(two)>>
    BY <1>8, <1>12, <2>0
  <2>2. q \in Seq(Job) /\ DOMAIN q = {1, 2} /\ q[1] = J(one) /\ q[2] = J(two)
    BY <1>2, <1>4, <1>5, <1>7, <1>12, <2>1
  <2>3. one # two
    BY <1>5, <1>7, <1>12
  <2> QED BY <1>9, <2>2, <2>3
<1> QED BY <1>10, <1>11, <1>12

LEMMA QueueSteps ==
    ASSUME DrawSound(ui), QueueSound(ui),
           \/ Rendering!ThrottleEnds \/ Rendering!RefreshSelection \/ Rendering!Decoded \/ Rendering!DecodeFails
           \/ Rendering!StyleChanges \/ Rendering!ReliefToggled \/ Rendering!MapIdle
           \/ \E l \in Layers, b \in Bundles : Rendering!BundleArrives(l, b)
           \/ \E l \in Layers, v \in BOOLEAN : Rendering!SetLayerVisibility(l, v)
           \/ \E h \in BOOLEAN : Rendering!SetUseHeatmap(h)
           \/ \E x \in Reasons : Rendering!SuppressTripLayers(x) \/ Rendering!RestoreTripLayers(x)
    PROVE  QueueSound(ui')
<1>t. DrawTyped(ui) /\ Single(ui)
  BY DEF DrawSound
<1>h. ASSUME NEW u, QueueSound(u) PROVE QueueSound(Rendering!Acted(u))
  <2>1. SameQueue(u, Rendering!Acted(u))
    BY <1>h DEF Rendering!Acted, SameQueue, QueueSound, QueueFields
  <2> QED BY <1>h, <2>1, SameQueueSound
<1>r. ASSUME NEW u, DrawTyped(u), Single(u), QueueSound(u) PROVE QueueSound(Rendering!Render(u))
  <2>1. SameQueue(u, Rendering!Render(u))
    BY <1>r, RenderDraws DEF SameQueue
  <2> QED BY <1>r, <2>1, SameQueueSound
<1>s. ASSUME NEW u, SameQueue(ui, u), DrawTyped(u), Single(u)
      PROVE  /\ QueueSound(u) /\ QueueSound(Rendering!Render(u)) /\ QueueSound(Rendering!Acted(u))
             /\ QueueSound(Rendering!Acted(Rendering!Render(u)))
  BY <1>h, <1>r, <1>s, SameQueueSound
<1> DEFINE Off(u) == SameQueue(ui, u) /\ DrawTyped(u) /\ Single(u)
<1>1. CASE Rendering!ThrottleEnds
  <2>1. SameQueue(ui, ui')
    BY <1>1, <1>t DEF Rendering!ThrottleEnds, SameQueue, DrawTyped, QueueFields
  <2> QED BY <2>1, SameQueueSound
<1>2. CASE Rendering!DecodeFails
  <2>1. /\ DOMAIN ui' = DOMAIN ui /\ (ui').jobs = Tail(ui.jobs) /\ (ui').dat = ui.dat /\ (ui').latest = ui.latest
        /\ (ui').putback = TRUE /\ ui.jobs # << >>
    BY <1>2, <1>t DEF Rendering!DecodeFails, DrawTyped, QueueFields
  <2>2. Tail(ui.jobs) \in Seq(Job)
    BY <2>1 DEF QueueSound
  <2> QED BY <2>1, <2>2 DEF QueueSound
<1>3. CASE Rendering!Decoded
  <2> DEFINE job == Head(ui.jobs)
             u == [ui EXCEPT !.jobs = Tail(@), !.dat[job.layer] = job.bundle, !.drape[job.layer] = "none"]
             now == [ui.dat EXCEPT ![job.layer] = job.bundle]
  <2>1. DrawTyped(u) /\ Single(u)
    BY <1>t DEF DrawTyped, DrawFields, QueueFields, Single
  <2>2. ui' = Rendering!RefreshTripStyles(Rendering!Render(u)) /\ ui.jobs # << >>
    BY <1>3 DEF Rendering!Decoded
  <2>3. /\ DOMAIN u = DOMAIN ui /\ u.jobs = Tail(ui.jobs) /\ u.dat = now /\ u.latest = ui.latest
        /\ u.putback = ui.putback
    BY <1>t DEF DrawTyped, QueueFields
  <2> HIDE DEF u
  <2>4. job \in Job /\ Tail(ui.jobs) \in Seq(Job)
    BY <2>2 DEF QueueSound
  <2>5. now \in Rendering!Drawn
    BY <2>4 DEF Rendering!Drawn, QueueSound, Job
  <2>6. ~ui.putback => \A x \in Layers : Coming(Tail(ui.jobs), now, ui.latest, x)
    BY <2>2, QueueDecoding DEF QueueSound
  <2> HIDE DEF now
  <2>7. QueueSound(u)
    BY <2>3, <2>4, <2>5, <2>6 DEF QueueSound
  <2>8. QueueSound(Rendering!Render(u)) /\ DrawSound(Rendering!Render(u))
    BY <1>r, <2>1, <2>7, RenderDraws
  <2> QED BY <2>2, <2>8, QueueHelpers, TRUE \in BOOLEAN
<1>4. CASE Rendering!StyleChanges
  <2> PICK q \in Seq(Job) :
               /\ ui' = Rendering!Acted([ui EXCEPT !.nat = Rendering!Nothing, !.nsel = NoTrip, !.lost = TRUE,
                                                   !.jobs = @ \o q, !.putback = @ \/ ui.jobs # << >>])
               /\ \A i \in DOMAIN q : q[i].bundle = ui.dat[q[i].layer]
               /\ \A i, k \in DOMAIN q : i # k => q[i].layer # q[k].layer
    BY <1>4, QueuePutBack
  <2> DEFINE back == ui.putback \/ ui.jobs # << >>
             u == [ui EXCEPT !.nat = Rendering!Nothing, !.nsel = NoTrip, !.lost = TRUE,
                             !.jobs = @ \o q, !.putback = back]
  <2>0. ui' = Rendering!Acted(u)
    OBVIOUS
  <2> HIDE DEF back
  <2>1. /\ DOMAIN u = DOMAIN ui /\ u.jobs = ui.jobs \o q /\ u.dat = ui.dat /\ u.latest = ui.latest
        /\ u.putback = back
    BY <1>t DEF DrawTyped, QueueFields
  <2> HIDE DEF u
  <2>2. ASSUME ~back, NEW x \in Layers PROVE Coming(ui.jobs \o q, ui.dat, ui.latest, x)
    <3>1. ~ui.putback /\ ui.jobs = << >>
      BY <2>2 DEF back
    <3>2. ui.jobs \o q = q
      BY <3>1
    <3>3. ui.dat[x] = ui.latest[x]
      BY <3>1 DEF QueueSound, Coming
    <3>4. CASE \A i \in DOMAIN q : q[i].layer # x
      BY <3>2, <3>3, <3>4 DEF Coming
    <3>5. CASE \E i \in DOMAIN q : q[i].layer = x
      BY <3>2, <3>3, <3>5 DEF Coming
    <3> QED BY <3>4, <3>5
  <2>3. ui.jobs \o q \in Seq(Job)
    BY DEF QueueSound
  <2>4. QueueSound(u)
    BY <2>1, <2>2, <2>3 DEF QueueSound
  <2> QED BY <1>h, <2>0, <2>4
<1>5. ASSUME NEW l \in Layers, NEW b \in Bundles, Rendering!BundleArrives(l, b) PROVE QueueSound(ui')
  <2> DEFINE u == [ui EXCEPT !.jobs = Append(@, [layer |-> l, bundle |-> b]), !.latest[l] = b]
             jobs == Append(ui.jobs, [layer |-> l, bundle |-> b])
             now == [ui.latest EXCEPT ![l] = b]
  <2>1. /\ DOMAIN u = DOMAIN ui /\ u.jobs = jobs /\ u.dat = ui.dat /\ u.latest = now
        /\ u.putback = ui.putback
    BY <1>t DEF DrawTyped, QueueFields
  <2>2. jobs \in Seq(Job) /\ now \in Rendering!Drawn
    BY DEF QueueSound, Rendering!Drawn, Job
  <2>3. ~ui.putback => \A x \in Layers : Coming(jobs, ui.dat, now, x)
    BY QueueArrival DEF QueueSound
  <2>4. ui' = Rendering!Acted(u)
    BY <1>5 DEF Rendering!BundleArrives
  <2> HIDE DEF u, jobs, now
  <2>5. QueueSound(u)
    BY <2>1, <2>2, <2>3 DEF QueueSound
  <2> QED BY <1>h, <2>4, <2>5
<1>6. CASE Rendering!RefreshSelection
  <2> DEFINE u == [ui EXCEPT !.soon = @ - 1]
  <2>1. SameQueue(ui, u) /\ DrawTyped(u) /\ Single(u) /\ ui' = Rendering!Render(u)
    BY <1>6, <1>t DEF SameQueue, DrawTyped, DrawFields, QueueFields, Single, Rendering!RefreshSelection
  <2> HIDE DEF u
  <2> QED BY <2>1, <1>s
<1>7. CASE Rendering!MapIdle
  <2>1. PICK drape : ui' = Rendering!Render([ui EXCEPT !.drape = drape])
    BY <1>7 DEF Rendering!MapIdle
  <2> DEFINE u == [ui EXCEPT !.drape = drape]
  <2>2. SameQueue(ui, u) /\ DrawTyped(u) /\ Single(u) /\ ui' = Rendering!Render(u)
    BY <2>1, <1>t DEF SameQueue, DrawTyped, DrawFields, QueueFields, Single
  <2> HIDE DEF u
  <2> QED BY <2>2, <1>s
<1>8. CASE Rendering!ReliefToggled
  <2> DEFINE u == [ui EXCEPT !.relief = ~@]
             v == [u EXCEPT !.terrain = u.relief]
  <2>1. SameQueue(ui, u) /\ DrawTyped(u) /\ Single(u)
    BY <1>t DEF SameQueue, DrawTyped, DrawFields, QueueFields, Single
  <2>2. ui' = Rendering!Acted(u) \/ ui' = Rendering!Acted(Rendering!Render(v))
    BY <1>8 DEF Rendering!ReliefToggled
  <2> HIDE DEF u
  <2>3. SameQueue(ui, v) /\ DrawTyped(v) /\ Single(v)
    BY <2>1 DEF SameQueue, DrawTyped, DrawFields, QueueFields, Single
  <2> HIDE DEF v
  <2> QED BY <2>1, <2>2, <2>3, <1>s
<1>9. CASE (\E l \in Layers, v \in BOOLEAN : Rendering!SetLayerVisibility(l, v)) \/ \E h \in BOOLEAN : Rendering!SetUseHeatmap(h)
  <2>1. PICK info : ui' = Rendering!Acted(Rendering!Render([ui EXCEPT !.info = info]))
    BY <1>9 DEF Rendering!SetLayerVisibility, Rendering!SetUseHeatmap
  <2> DEFINE u == [ui EXCEPT !.info = info]
  <2>2. SameQueue(ui, u) /\ DrawTyped(u) /\ Single(u) /\ ui' = Rendering!Acted(Rendering!Render(u))
    BY <2>1, <1>t DEF SameQueue, DrawTyped, DrawFields, QueueFields, Single
  <2> HIDE DEF u
  <2> QED BY <2>2, <1>s
<1>10. ASSUME NEW x \in Reasons, Rendering!SuppressTripLayers(x) \/ Rendering!RestoreTripLayers(x)
       PROVE  QueueSound(ui')
  <2>1. PICK s : \/ ui' = Rendering!Acted(Rendering!Render([ui EXCEPT !.sup = s]))
                 \/ ui' = Rendering!Acted([ui EXCEPT !.sup = s])
    BY <1>10 DEF Rendering!SuppressTripLayers, Rendering!RestoreTripLayers
  <2> DEFINE u == [ui EXCEPT !.sup = s]
  <2>2. SameQueue(ui, u) /\ DrawTyped(u) /\ Single(u)
    BY <1>t DEF SameQueue, DrawTyped, DrawFields, QueueFields, Single
  <2>3. ui' = Rendering!Acted(Rendering!Render(u)) \/ ui' = Rendering!Acted(u)
    BY <2>1
  <2> HIDE DEF u
  <2> QED BY <2>2, <2>3, <1>s
<1> QED
  BY <1>1, <1>2, <1>3, <1>4, <1>5, <1>6, <1>7, <1>8, <1>9, <1>10

LEMMA QueueClicks ==
    ASSUME DrawSound(ui), QueueSound(ui),
           \/ Rendering!ClickNothing \/ Rendering!Decline \/ Rendering!Confirm
           \/ Rendering!SyncSelection \/ Rendering!DrawEnds \/ Rendering!ClickReplay
           \/ Rendering!ReplayEnds \/ Rendering!Leave
           \/ \E l \in Layers, t \in Trips : Rendering!ClickDeck(l, t) \/ Rendering!ClickNative(l, t)
           \/ \E t \in Trips : Rendering!ZoomToTrip(t) \/ Rendering!ActionDone(t) \/ Rendering!ActionFails(t)
           \/ \E p \in ui.pop : Rendering!ArmPopup(p) \/ Rendering!ClosePopup(p) \/ Rendering!AskAction(p)
    PROVE  QueueSound(ui')
<1>b. TRUE \in BOOLEAN /\ FALSE \in BOOLEAN
  OBVIOUS
<1>t. DrawTyped(ui) /\ Single(ui)
  BY DEF DrawSound
<1>h. ASSUME NEW u, QueueSound(u) PROVE QueueSound(Rendering!Acted(u))
  <2>1. SameQueue(u, Rendering!Acted(u))
    BY <1>h DEF Rendering!Acted, SameQueue, QueueSound, QueueFields
  <2> QED BY <1>h, <2>1, SameQueueSound
<1>r. ASSUME NEW u, DrawTyped(u), Single(u), QueueSound(u) PROVE QueueSound(Rendering!RefreshTripStyles(u))
  <2>1. SameQueue(u, Rendering!RefreshTripStyles(u))
    BY <1>r, RefreshingDraws DEF SameQueue
  <2> QED BY <1>r, <2>1, SameQueueSound
<1>1. CASE Rendering!ClickNothing
  <2> DEFINE u == Rendering!ClosedByClick(ui)
             v == [u EXCEPT !.sel = Rendering!Nobody]
  <2>1. DrawSound(u) /\ QueueSound(u)
    BY <1>b, DrawingHelpers, QueueHelpers
  <2>2. ui' = Rendering!Acted(u) \/ ui' = Rendering!Acted(Rendering!RefreshTripStyles(v))
    BY <1>1 DEF Rendering!ClickNothing
  <2> HIDE DEF u
  <2>3. DrawTyped(v) /\ Single(v) /\ SameQueue(u, v)
    BY <2>1 DEF DrawSound, DrawTyped, DrawFields, QueueFields, Single, SameQueue
  <2> HIDE DEF v
  <2> QED BY <1>h, <1>r, <2>1, <2>2, <2>3, SameQueueSound
<1>2. CASE Rendering!SyncSelection \/ Rendering!Leave
  <2> DEFINE u == Rendering!Stopped(ui)
  <2>1. QueueSound(u)
    BY <1>b, QueueHelpers
  <2>2. \/ ui' = [u EXCEPT !.act = NoTrip] \/ ui' = Rendering!Acted([u EXCEPT !.left = TRUE])
        \/ ui' = [u EXCEPT !.act = ui.sel.trip, !.draw = ui.sel.trip, !.control = ui.sel.trip]
    BY <1>2 DEF Rendering!SyncSelection, Rendering!Leave
  <2> HIDE DEF u
  <2>3. /\ SameQueue(u, [u EXCEPT !.act = NoTrip]) /\ SameQueue(u, [u EXCEPT !.left = TRUE])
        /\ SameQueue(u, [u EXCEPT !.act = ui.sel.trip, !.draw = ui.sel.trip, !.control = ui.sel.trip])
    BY <2>1 DEF SameQueue, QueueSound, QueueFields
  <2> QED BY <1>h, <2>1, <2>2, <2>3, SameQueueSound
<1>3. CASE \/ Rendering!Decline \/ Rendering!Confirm \/ Rendering!DrawEnds \/ Rendering!ReplayEnds
           \/ (\E t \in Trips : Rendering!ActionFails(t)) \/ \E p \in ui.pop : Rendering!ArmPopup(p)
  <2>1. SameQueue(ui, ui')
    BY <1>3, <1>t DEF Rendering!Decline, Rendering!Confirm, Rendering!DrawEnds, Rendering!ReplayEnds,
                      Rendering!ActionFails, Rendering!ArmPopup, SameQueue, DrawTyped, QueueFields
  <2> QED BY <2>1, SameQueueSound
<1>4. CASE Rendering!ClickReplay
  <2> DEFINE u == [ui EXCEPT !.play = IF @ = NoTrip THEN ui.control ELSE NoTrip]
  <2>1. SameQueue(ui, u) /\ ui' = Rendering!Acted(u)
    BY <1>4, <1>t DEF Rendering!ClickReplay, SameQueue, DrawTyped, QueueFields
  <2> HIDE DEF u
  <2> QED BY <1>h, <2>1, SameQueueSound
<1>5. ASSUME NEW l \in Layers, NEW t \in Trips, Rendering!ClickDeck(l, t) \/ Rendering!ClickNative(l, t)
      PROVE  QueueSound(ui')
  <2> DEFINE u == Rendering!ClosedByClick(ui)
             v == Rendering!HandleTripClick(u, t, l, TRUE)
  <2>1. \/ ui' = Rendering!Acted(Rendering!Render(v))
        \/ ui' = Rendering!Acted(Rendering!HandleTripClick(u, t, l, FALSE))
    BY <1>5 DEF Rendering!ClickDeck, Rendering!ClickNative
  <2>2. DrawSound(u) /\ QueueSound(u)
    BY <1>b, DrawingHelpers, QueueHelpers
  <2> HIDE DEF u
  <2>3. QueueSound(v) /\ DrawSound(v) /\ QueueSound(Rendering!HandleTripClick(u, t, l, FALSE))
    BY <1>b, <2>2, DrawingHelpers, QueueHelpers
  <2> HIDE DEF v
  <2>4. QueueSound(Rendering!Render(v))
    BY <1>b, <2>3, QueueHelpers
  <2> QED BY <1>h, <2>1, <2>3, <2>4
<1>6. ASSUME NEW t \in Trips, Rendering!ZoomToTrip(t) PROVE QueueSound(ui')
  <2>1. PICK sel : ui' = Rendering!Acted(Rendering!RefreshTripStyles([ui EXCEPT !.sel = sel]))
    BY <1>6 DEF Rendering!ZoomToTrip
  <2> DEFINE u == [ui EXCEPT !.sel = sel]
  <2>2. /\ SameQueue(ui, u) /\ DrawTyped(u) /\ Single(u)
        /\ ui' = Rendering!Acted(Rendering!RefreshTripStyles(u))
    BY <1>t, <2>1 DEF SameQueue, DrawTyped, DrawFields, QueueFields, Single
  <2> HIDE DEF u
  <2> QED BY <1>h, <1>r, <2>2, SameQueueSound
<1>7. ASSUME NEW t \in Trips, Rendering!ActionDone(t) PROVE QueueSound(ui')
  <2> PICK b \in Bundles, l \in Layers :
           ui' = [ui EXCEPT !.net = @ \ {t}, !.pop = {p \in @ : p.trip # t},
                            !.stray = @ + Rendering!Cardinality({p \in ui.pop : p.trip = t /\ p.defer /\ ~p.armed}),
                            !.jobs = Append(@, [layer |-> l, bundle |-> b]), !.latest[l] = b]
    BY <1>7 DEF Rendering!ActionDone
  <2> DEFINE jobs == Append(ui.jobs, [layer |-> l, bundle |-> b])
             now == [ui.latest EXCEPT ![l] = b]
  <2>1. /\ DOMAIN ui' = DOMAIN ui /\ (ui').jobs = jobs /\ (ui').dat = ui.dat /\ (ui').latest = now
        /\ (ui').putback = ui.putback
    BY <1>t DEF DrawTyped, QueueFields
  <2>2. jobs \in Seq(Job) /\ now \in Rendering!Drawn
    BY DEF QueueSound, Rendering!Drawn, Job
  <2>3. ~ui.putback => \A x \in Layers : Coming(jobs, ui.dat, now, x)
    BY QueueArrival DEF QueueSound
  <2> HIDE DEF jobs, now
  <2> QED BY <2>1, <2>2, <2>3 DEF QueueSound
<1>8. ASSUME NEW p \in ui.pop, Rendering!ClosePopup(p) \/ Rendering!AskAction(p) PROVE QueueSound(ui')
  <2> DEFINE u == [ui EXCEPT !.ask = p.trip]
  <2>1. ui' = Rendering!Acted(Rendering!PopupRemoved(ui, p)) \/ ui' = Rendering!Acted(u)
    BY <1>8 DEF Rendering!ClosePopup, Rendering!AskAction
  <2>2. SameQueue(ui, u)
    BY <1>t DEF SameQueue, DrawTyped, QueueFields
  <2> HIDE DEF u
  <2>3. QueueSound(u) /\ QueueSound(Rendering!PopupRemoved(ui, p))
    BY <1>b, <2>2, SameQueueSound, QueueHelpers
  <2> QED BY <1>h, <2>1, <2>3
<1> QED
  BY <1>1, <1>2, <1>3, <1>4, <1>5, <1>6, <1>7, <1>8

LEMMA QueueKept ==
    ASSUME DrawSound(ui), QueueSound(ui), Rendering!Next
    PROVE  QueueSound(ui')
BY QueueSteps, QueueClicks DEF Rendering!Next

LEMMA QueueStart ==
    ASSUME Rendering!Init
    PROVE  QueueSound(ui)
<1> DEFINE z == Rendering!Start
<1>1. /\ QueueFields \subseteq DOMAIN z
      /\ z.dat = Rendering!Nothing /\ z.latest = Rendering!Nothing
  BY DEF Rendering!Start, QueueFields
<1>2. PICK d \in BOOLEAN, b \in Bundles, l \in Layers :
          ui = [z EXCEPT !.deck = d, !.jobs = <<[layer |-> l, bundle |-> b]>>, !.latest[l] = b]
  BY DEF Rendering!Init
<1> HIDE DEF z
<1> DEFINE jobs == <<[layer |-> l, bundle |-> b]>>
           now == [Rendering!Nothing EXCEPT ![l] = b]
<1>3. DOMAIN ui = DOMAIN z /\ ui.jobs = jobs /\ ui.dat = Rendering!Nothing /\ ui.latest = now
  BY <1>1, <1>2 DEF QueueFields
<1>4. Rendering!Nothing \in Rendering!Drawn /\ now \in Rendering!Drawn
  BY DEF Rendering!Nothing, Rendering!Drawn
<1>5. jobs \in Seq(Job) /\ DOMAIN jobs = {1} /\ jobs[1].layer = l /\ jobs[1].bundle = b
  BY DEF Job
<1>6. now[l] = b /\ \A x \in Layers \ {l} : now[x] = Rendering!Nothing[x]
  BY DEF Rendering!Nothing
<1> HIDE DEF jobs, now
<1>7. \A x \in Layers : Coming(jobs, Rendering!Nothing, now, x)
  BY <1>5, <1>6 DEF Coming
<1> QED BY <1>1, <1>3, <1>4, <1>5, <1>7 DEF QueueSound

LEMMA LatestIsDecoded ==
    ASSUME QueueSound(ui)
    PROVE  Rendering!LatestBundle
BY DEF QueueSound, Coming, Rendering!LatestBundle

-----------------------------------------------------------------------------
(* The field journal: as of which day its map is.                          *)

PaceFields == {"mode", "milestone", "mixed", "scrub", "from", "cut", "asOf", "page", "net", "geo", "map", "steps"}

PaceShaped(u) ==
    /\ PaceFields \subseteq DOMAIN u
    /\ u.steps \in Nat /\ u.scrub \in BOOLEAN /\ u.milestone \in BOOLEAN /\ u.mixed \in BOOLEAN

Reloading(u) == \E q \in u.net : q.op \in Reloads
Opening(u) == \E q \in u.net : q.op \in Reloads /\ q.n = 0

(* Until the first load has ended there is no map; and no colour without   *)
(* streets.                                                                *)
Steady(u) ==
    /\ PaceShaped(u)
    /\ u.geo = NoRange => u.mode # "progress"
    /\ ~u.mixed /\ Opening(u) => u.page # "ready" /\ u.map = "none" /\ u.mode = "none"

(* A drag has begun at the day the map shows; otherwise it shows the day   *)
(* of the page.                                                            *)
Aligned(u) ==
    ~u.mixed /\ u.mode = "progress" /\ ~u.milestone /\ u.page = "ready" /\ ~Reloading(u) =>
        LET d == IF u.scrub THEN u.from ELSE u.asOf IN u.cut = d /\ (d = 0 => ChartDays = 0)

PaceSound(u) == Steady(u) /\ Aligned(u)

(* Another section takes the map, or a milestone.                          *)
LEMMA PaceColoured ==
    ASSUME NEW u, PaceSound(u), u.mixed \/ ~Opening(u), NEW w, PaceFields \subseteq DOMAIN w,
           \A f \in {"scrub", "from", "asOf", "page", "net", "geo"} : w[f] = u[f],
           w.steps \in Nat, w.milestone \in BOOLEAN, w.mixed \in BOOLEAN, u.mixed => w.mixed,
           w.geo = NoRange => w.mode = u.mode,
           \/ w.mode # "progress" \/ w.milestone
           \/ w.mode = u.mode /\ w.milestone = u.milestone /\ w.cut = u.cut
    PROVE  PaceSound(w)
<1>1. w.scrub = u.scrub /\ w.from = u.from /\ w.asOf = u.asOf /\ w.page = u.page /\ w.net = u.net /\ w.geo = u.geo
  OBVIOUS
<1>2. Reloading(w) = Reloading(u) /\ Opening(w) = Opening(u)
  BY <1>1 DEF Reloading, Opening
<1>3. PaceShaped(w)
  BY <1>1 DEF PaceSound, Steady, PaceShaped
<1>4. Steady(w)
  BY <1>1, <1>2, <1>3 DEF PaceSound, Steady
<1>5. Aligned(w)
  BY <1>1, <1>2, <1>3 DEF PaceSound, Aligned, PaceShaped
<1> QED BY <1>4, <1>5 DEF PaceSound

LEMMA PaceSame ==
    ASSUME NEW u, PaceSound(u), NEW w, PaceFields \subseteq DOMAIN w,
           \A f \in PaceFields \ {"steps"} : w[f] = u[f], w.steps \in Nat
    PROVE  PaceSound(w)
<1>1. /\ w.scrub = u.scrub /\ w.from = u.from /\ w.asOf = u.asOf /\ w.page = u.page /\ w.net = u.net /\ w.geo = u.geo
      /\ w.mode = u.mode /\ w.milestone = u.milestone /\ w.cut = u.cut /\ w.mixed = u.mixed /\ w.map = u.map
  BY DEF PaceFields
<1> QED BY <1>1 DEF PaceSound, Steady, Aligned, PaceShaped, Reloading, Opening

LEMMA PaceHelpers ==
    ASSUME NEW u, PaceSound(u), u.mixed \/ ~Opening(u), NEW b, NEW d
    PROVE  /\ PaceSound(Journal!SetFrequencyMap(u)) /\ PaceSound(Journal!SetFrontierMap(u, b))
           /\ PaceSound(Journal!HighlightSegments(u)) /\ PaceSound(Journal!SelectMilestone(u, d))
<1>1. PaceFields \subseteq DOMAIN u /\ u.steps \in Nat /\ u.milestone \in BOOLEAN /\ u.mixed \in BOOLEAN
  BY DEF PaceSound, Steady, PaceShaped
<1>2. ASSUME NEW w, DOMAIN w = DOMAIN u, \A f \in PaceFields \ {"mode"} : w[f] = u[f],
             w.mode = u.mode \/ (u.geo # NoRange /\ w.mode # "progress")
      PROVE  PaceSound(w)
  <2>1. /\ \A f \in {"scrub", "from", "asOf", "page", "net", "geo"} : w[f] = u[f]
        /\ w.steps = u.steps /\ w.milestone = u.milestone /\ w.mixed = u.mixed /\ w.cut = u.cut /\ w.geo = u.geo
    BY <1>2 DEF PaceFields
  <2> QED BY <1>1, <1>2, <2>1, PaceColoured
<1>3. PaceSound(Journal!SetFrequencyMap(u))
  <2> DEFINE w == Journal!SetFrequencyMap(u)
  <2>1. DOMAIN w = DOMAIN u /\ (\A f \in PaceFields \ {"mode"} : w[f] = u[f])
        /\ (w.mode = u.mode \/ (u.geo # NoRange /\ w.mode # "progress"))
    BY <1>1 DEF Journal!SetFrequencyMap, PaceFields
  <2> HIDE DEF w
  <2>2. PaceSound(w)
    BY <1>2, <2>1
  <2> QED BY <2>2 DEF w
<1>4. PaceSound(Journal!SetFrontierMap(u, b))
  <2> DEFINE w == Journal!SetFrontierMap(u, b)
  <2>1. DOMAIN w = DOMAIN u /\ (\A f \in PaceFields \ {"mode"} : w[f] = u[f])
        /\ (w.mode = u.mode \/ (u.geo # NoRange /\ w.mode # "progress"))
    BY <1>1 DEF Journal!SetFrontierMap, PaceFields
  <2> HIDE DEF w
  <2>2. PaceSound(w)
    BY <1>2, <2>1
  <2> QED BY <2>2 DEF w
<1>5. PaceSound(Journal!HighlightSegments(u))
  <2> DEFINE w == Journal!HighlightSegments(u)
  <2>1. DOMAIN w = DOMAIN u /\ (\A f \in PaceFields \ {"mode"} : w[f] = u[f])
        /\ (w.mode = u.mode \/ (u.geo # NoRange /\ w.mode # "progress"))
    BY <1>1 DEF Journal!HighlightSegments, PaceFields
  <2> HIDE DEF w
  <2>2. PaceSound(w)
    BY <1>2, <2>1
  <2> QED BY <2>2 DEF w
<1>6. PaceSound(Journal!SelectMilestone(u, d))
  <2> DEFINE v == [u EXCEPT !.chapter = d, !.pinned = FALSE]
             w == Journal!SetProgressMap(v, d, TRUE)
  <2>1. DOMAIN v = DOMAIN u /\ \A f \in PaceFields : v[f] = u[f]
    BY DEF PaceFields
  <2> HIDE DEF v
  <2>2. /\ DOMAIN w = DOMAIN v /\ \A f \in PaceFields \ {"mode", "milestone", "cut"} : w[f] = v[f]
        /\ \/ w = v
           \/ v.geo # NoRange /\ w.milestone = TRUE
    BY <1>1, <2>1 DEF Journal!SetProgressMap, PaceFields
  <2>3. /\ v.geo = u.geo /\ v.mode = u.mode /\ v.milestone = u.milestone /\ v.cut = u.cut
    BY <2>1 DEF PaceFields
  <2> HIDE DEF w
  <2>4. /\ \A f \in {"scrub", "from", "asOf", "page", "net", "geo"} : w[f] = u[f]
        /\ w.steps = u.steps /\ w.mixed = u.mixed /\ w.geo = u.geo
        /\ DOMAIN w = DOMAIN u
    BY <2>1, <2>2 DEF PaceFields
  <2>5. w.milestone \in BOOLEAN
    BY <1>1, <2>2, <2>3
  <2>6. w.geo = NoRange => w.mode = u.mode
    BY <2>2, <2>3, <2>4
  <2>7. w.milestone \/ (w.mode = u.mode /\ w.milestone = u.milestone /\ w.cut = u.cut)
    BY <2>2, <2>3
  <2>8. PaceSound(w)
    BY <1>1, <2>4, <2>5, <2>6, <2>7, PaceColoured
  <2> QED BY <2>8 DEF w, v, Journal!SelectMilestone
<1> QED BY <1>3, <1>4, <1>5, <1>6

(* The cursor: map and page go to the same day.                            *)
LEMMA PaceMoved ==
    ASSUME NEW u, Steady(u), u.mixed \/ (~Opening(u) /\ ~u.scrub), NEW d, d = 0 => ChartDays = 0
    PROVE  PaceSound(Journal!UpdateTimelineCursor(u, d, TRUE))
<1> DEFINE v == [[u EXCEPT !.asOf = d] EXCEPT !.pinned = FALSE]
           w == Journal!SetProgressMap(v, d, FALSE)
<1>1. PaceFields \subseteq DOMAIN u
  BY DEF Steady, PaceShaped
<1>2. DOMAIN v = DOMAIN u /\ v.asOf = d /\ \A f \in PaceFields \ {"asOf"} : v[f] = u[f]
  BY <1>1 DEF PaceFields
<1> HIDE DEF v
<1>3. /\ DOMAIN w = DOMAIN v /\ \A f \in PaceFields \ {"mode", "milestone", "cut"} : w[f] = v[f]
      /\ \/ v.geo = NoRange /\ w = v
         \/ v.geo # NoRange /\ w.milestone = FALSE /\ w.cut = d
  BY <1>1, <1>2 DEF Journal!SetProgressMap, PaceFields
<1>4. v.geo = u.geo /\ v.mode = u.mode /\ v.milestone = u.milestone /\ v.cut = u.cut
  BY <1>2 DEF PaceFields
<1> HIDE DEF w
<1>5. /\ DOMAIN w = DOMAIN u /\ w.asOf = d /\ w.scrub = u.scrub /\ w.page = u.page /\ w.net = u.net /\ w.geo = u.geo
      /\ w.mixed = u.mixed /\ w.steps = u.steps /\ w.map = u.map
  BY <1>2, <1>3 DEF PaceFields
<1>6. w.milestone \in BOOLEAN
  BY <1>3, <1>4 DEF Steady, PaceShaped
<1>7. Opening(w) = Opening(u)
  BY <1>5 DEF Opening
<1>8. Steady(w)
  BY <1>3, <1>4, <1>5, <1>6, <1>7 DEF Steady, PaceShaped
<1>9. Aligned(w)
  <2>1. CASE v.geo = NoRange
    BY <1>3, <1>4, <2>1 DEF Steady, Aligned
  <2>2. CASE v.geo # NoRange
    BY <1>3, <1>5, <2>2 DEF Aligned
  <2> QED BY <2>1, <2>2
<1>10. PaceSound(w)
  BY <1>8, <1>9 DEF PaceSound
<1> QED BY <1>10 DEF w, v, Journal!UpdateTimelineCursor

(* Asking. A new load makes what the map shows its own concern.            *)
LEMMA PaceSent ==
    ASSUME NEW u, Steady(u), NEW op, NEW n, NEW p, op \in Reloads \/ Aligned(u),
           ~u.mixed /\ u.net = {} /\ op \in Reloads /\ n = 0 => u.page # "ready" /\ u.map = "none" /\ u.mode = "none"
    PROVE  PaceSound(Journal!Sent(u, op, n, p))
<1> DEFINE q == [op |-> op, n |-> n, r |-> u.range, s |-> u.source, page |-> p]
           w == Journal!Sent(u, op, n, p)
<1>1. w = [u EXCEPT !.net = @ \cup {q}, !.mixed = @ \/ u.net # {}] /\ q.op = op /\ q.n = n
  BY DEF Journal!Sent
<1> HIDE DEF q, w
<1>2. /\ w.net = u.net \cup {q} /\ w.mixed = (u.mixed \/ u.net # {}) /\ DOMAIN w = DOMAIN u
      /\ w.scrub = u.scrub /\ w.from = u.from /\ w.asOf = u.asOf /\ w.page = u.page /\ w.geo = u.geo /\ w.steps = u.steps
      /\ w.mode = u.mode /\ w.milestone = u.milestone /\ w.cut = u.cut /\ w.map = u.map
  BY <1>1 DEF Steady, PaceShaped, PaceFields
<1>3. PaceShaped(w)
  BY <1>2 DEF Steady, PaceShaped
<1>4. Steady(w)
  <2>1. ASSUME ~w.mixed, Opening(w) PROVE w.page # "ready" /\ w.map = "none" /\ w.mode = "none"
    <3>1. ~u.mixed /\ u.net = {} /\ w.net = {q}
      BY <1>2, <2>1
    <3>2. op \in Reloads /\ n = 0
      BY <1>1, <2>1, <3>1 DEF Opening
    <3> QED BY <1>2, <3>1, <3>2
  <2> QED BY <1>2, <1>3, <2>1 DEF Steady
<1>5. Aligned(w)
  <2>1. CASE op \in Reloads
    BY <1>1, <1>2, <2>1 DEF Aligned, Reloading
  <2>2. CASE op \notin Reloads
    <3>1. Reloading(u) => Reloading(w)
      BY <1>2 DEF Reloading
    <3> QED BY <1>2, <2>2, <3>1 DEF Aligned
  <2> QED BY <2>1, <2>2
<1>6. PaceSound(w)
  BY <1>4, <1>5 DEF PaceSound
<1> QED BY <1>6 DEF w

(* Steps are counted, the address follows.                                 *)
LEMMA PaceCounted ==
    ASSUME NEW u, PaceSound(u)
    PROVE  PaceSound(Journal!Acted(u)) /\ PaceSound(Journal!SyncUrl(u))
<1> DEFINE v == Journal!Acted(u)
           w == Journal!SyncUrl(u)
<1>1. PaceFields \subseteq DOMAIN u /\ u.steps \in Nat
  BY DEF PaceSound, Steady, PaceShaped
<1>2. /\ DOMAIN v = DOMAIN u /\ (\A f \in PaceFields \ {"steps"} : v[f] = u[f]) /\ v.steps \in Nat
      /\ DOMAIN w = DOMAIN u /\ (\A f \in PaceFields \ {"steps"} : w[f] = u[f]) /\ w.steps \in Nat
  BY <1>1 DEF Journal!Acted, Journal!SyncUrl, PaceFields
<1> HIDE DEF v, w
<1>3. PaceSound(v) /\ PaceSound(w)
  BY <1>1, <1>2, PaceSame
<1> QED BY <1>3 DEF v, w

(* What the reader does, on a page that is there.                          *)
LEMMA PaceActs ==
    ASSUME PaceSound(ui),
           \/ Journal!MapLoads \/ Journal!LoadMore \/ Journal!ShowStreet \/ Journal!ShowFrontierStreet
           \/ Journal!ScrubCancel \/ Journal!SaveGoal
           \/ \E x \in Ranges : Journal!ChooseRange(x)
           \/ \E x \in Feeds : Journal!ChooseSource(x)
           \/ \E l \in {"street", "segment"} : Journal!ChooseLevel(l)
           \/ \E s \in {"known", "frontier", "pace"} : Journal!ScrollTo(s)
           \/ \E d \in Journal!Days : Journal!ChooseMilestone(d) \/ Journal!MoveCursor(d)
                                      \/ Journal!ScrubStart(d) \/ Journal!ScrubEnd(d)
    PROVE  PaceSound(ui')
<1>0. /\ PaceFields \subseteq DOMAIN ui /\ Steady(ui) /\ Aligned(ui) /\ ui.steps \in Nat /\ ui.steps + 1 # 0
      /\ ui.scrub \in BOOLEAN /\ ui.milestone \in BOOLEAN /\ ui.mixed \in BOOLEAN
  BY DEF PaceSound, Steady, PaceShaped
<1>a. Journal!User \/ ui.map = "loading" => ui.mixed \/ ~Opening(ui)
  BY <1>0 DEF Steady, Journal!User
<1>1. CASE Journal!MapLoads
  <2> DEFINE v == [ui EXCEPT !.map = "ready"]
  <2>1. DOMAIN v = DOMAIN ui /\ \A f \in PaceFields \ {"map"} : v[f] = ui[f]
    BY <1>0 DEF PaceFields
  <2>6. ui.mixed \/ ~Opening(ui)
    BY <1>1, <1>a DEF Journal!MapLoads
  <2>2. \E d : ui' = Journal!SyncUrl(Journal!SelectMilestone(v, d))
    BY <1>1 DEF Journal!MapLoads
  <2> HIDE DEF v
  <2>3. /\ \A f \in {"scrub", "from", "asOf", "page", "net", "geo"} : v[f] = ui[f]
        /\ v.steps = ui.steps /\ v.mixed = ui.mixed /\ v.mode = ui.mode /\ v.milestone = ui.milestone /\ v.cut = ui.cut
        /\ v.net = ui.net
    BY <2>1 DEF PaceFields
  <2>4. PaceSound(v)
    BY <1>0, <2>1, <2>3, <2>6, PaceColoured
  <2>5. v.mixed \/ ~Opening(v)
    BY <2>3, <2>6 DEF Opening
  <2> QED BY <2>2, <2>4, <2>5, PaceHelpers, PaceCounted
<1>2. CASE Journal!LoadMore \/ Journal!SaveGoal
  <2>1. PaceSound(Journal!Sent(ui, "append", ui.steps + 1, ui.more)) /\ PaceSound(Journal!Sent(ui, "goal", ui.steps + 1, 0))
    BY <1>0, PaceSent
  <2> QED BY <1>2, <2>1, PaceCounted DEF Journal!LoadMore, Journal!SaveGoal
<1>3. CASE Journal!ShowStreet \/ Journal!ShowFrontierStreet
  <2>1. ui.mixed \/ ~Opening(ui)
    BY <1>3, <1>a DEF Journal!ShowStreet, Journal!ShowFrontierStreet
  <2> QED BY <1>3, <2>1, PaceHelpers, PaceCounted DEF Journal!ShowStreet, Journal!ShowFrontierStreet
<1>4. CASE Journal!ScrubCancel
  <2> DEFINE w == [[ui EXCEPT !.scrub = FALSE] EXCEPT !.asOf = ui.from]
  <2>1. ui' = w /\ ui.scrub
    BY <1>4 DEF Journal!ScrubCancel, Journal!UpdateTimelineCursor
  <2>2. /\ DOMAIN w = DOMAIN ui /\ w.scrub = FALSE /\ w.asOf = ui.from /\ w.page = ui.page /\ w.net = ui.net /\ w.geo = ui.geo
        /\ w.mode = ui.mode /\ w.milestone = ui.milestone /\ w.cut = ui.cut /\ w.mixed = ui.mixed /\ w.map = ui.map /\ w.steps = ui.steps
    BY <1>0 DEF PaceFields
  <2> HIDE DEF w
  <2>3. Steady(w)
    BY <1>0, <2>2 DEF Steady, PaceShaped, Opening
  <2>4. Aligned(w)
    BY <1>0, <2>1, <2>2 DEF Aligned, Reloading
  <2> QED BY <2>1, <2>3, <2>4 DEF PaceSound
<1>5. ASSUME NEW x \in Ranges, Journal!ChooseRange(x) PROVE PaceSound(ui')
  <2> DEFINE v == [ui EXCEPT !.range = x, !.asOf = 0]
             w == Journal!Sent(v, "meta", ui.steps + 1, 0)
  <2>1. ui' = Journal!Acted(w)
    BY <1>5 DEF Journal!ChooseRange
  <2>2. Steady(v)
    BY <1>0 DEF Steady, PaceShaped, PaceFields, Opening
  <2> HIDE DEF v
  <2>3. PaceSound(w)
    BY <1>0, <2>2, PaceSent DEF Reloads
  <2> HIDE DEF w
  <2> QED BY <2>1, <2>3, PaceCounted
<1>6. ASSUME NEW x \in Feeds, Journal!ChooseSource(x) PROVE PaceSound(ui')
  <2> DEFINE v == [ui EXCEPT !.source = x]
             w == Journal!Sent(v, "source", ui.steps + 1, 1)
  <2>1. ui' = Journal!Acted(w)
    BY <1>6 DEF Journal!ChooseSource
  <2>2. DOMAIN v = DOMAIN ui /\ (\A f \in PaceFields \ {"steps"} : v[f] = ui[f]) /\ v.steps = ui.steps
    BY <1>0 DEF PaceFields
  <2> HIDE DEF v
  <2>3. PaceSound(v)
    BY <1>0, <2>2, PaceSame
  <2>4. PaceSound(w)
    BY <1>0, <2>3, PaceSent DEF PaceSound
  <2> HIDE DEF w
  <2> QED BY <2>1, <2>4, PaceCounted
<1>7. ASSUME NEW l, Journal!ChooseLevel(l) PROVE PaceSound(ui')
  <2> DEFINE v == [ui EXCEPT !.level = l]
  <2>1. /\ DOMAIN v = DOMAIN ui /\ (\A f \in PaceFields \ {"steps"} : v[f] = ui[f]) /\ v.steps = ui.steps
        /\ v.mixed = ui.mixed /\ v.net = ui.net
    BY <1>0 DEF PaceFields
  <2>2. ui' = Journal!Acted(Journal!SyncUrl(Journal!SetFrequencyMap(v))) /\ (ui.mixed \/ ~Opening(ui))
    BY <1>7, <1>a DEF Journal!ChooseLevel
  <2> HIDE DEF v
  <2>3. PaceSound(v) /\ (v.mixed \/ ~Opening(v))
    BY <1>0, <2>1, <2>2, PaceSame DEF Opening
  <2>4. PaceSound(Journal!SetFrequencyMap(v))
    BY <2>3, PaceHelpers
  <2> QED BY <2>2, <2>4, PaceCounted
<1>8. ASSUME NEW s, Journal!ScrollTo(s) PROVE PaceSound(ui')
  <2> DEFINE v == [ui EXCEPT !.mixed = @ \/ ui.scrub]
             d == IF ui.asOf = 0 THEN ChartDays ELSE ui.asOf
  <2>1. \/ ui' = Journal!Acted(Journal!SetFrequencyMap(ui)) \/ ui' = Journal!Acted(Journal!SetFrontierMap(ui, FALSE))
        \/ ui' = Journal!Acted(Journal!UpdateTimelineCursor(v, d, TRUE))
    BY <1>8 DEF Journal!ScrollTo
  <2>2. ui.mixed \/ ~Opening(ui)
    BY <1>8, <1>a DEF Journal!ScrollTo
  <2>3. d = 0 => ChartDays = 0
    OBVIOUS
  <2>4. /\ DOMAIN v = DOMAIN ui /\ v.mixed = (ui.mixed \/ ui.scrub) /\ \A f \in PaceFields \ {"mixed"} : v[f] = ui[f]
    BY <1>0 DEF PaceFields
  <2> HIDE DEF v, d
  <2>5. /\ v.scrub = ui.scrub /\ v.page = ui.page /\ v.net = ui.net /\ v.geo = ui.geo /\ v.steps = ui.steps
        /\ v.mode = ui.mode /\ v.milestone = ui.milestone /\ v.map = ui.map
    BY <2>4 DEF PaceFields
  <2>6. Steady(v) /\ (v.mixed \/ (~Opening(v) /\ ~v.scrub))
    BY <1>0, <2>2, <2>4, <2>5 DEF Steady, PaceShaped, Opening
  <2>7. PaceSound(Journal!UpdateTimelineCursor(v, d, TRUE))
    BY <2>3, <2>6, PaceMoved
  <2> QED BY <2>1, <2>2, <2>7, PaceHelpers, PaceCounted
<1>9. ASSUME NEW d \in Journal!Days, Journal!ChooseMilestone(d) \/ Journal!MoveCursor(d) PROVE PaceSound(ui')
  <2>1. ui.mixed \/ ~Opening(ui)
    BY <1>9, <1>a DEF Journal!ChooseMilestone, Journal!MoveCursor
  <2>2. CASE Journal!ChooseMilestone(d)
    BY <2>1, <2>2, PaceHelpers, PaceCounted DEF Journal!ChooseMilestone
  <2>3. CASE Journal!MoveCursor(d)
    <3>1. (ui.mixed \/ (~Opening(ui) /\ ~ui.scrub)) /\ (d = 0 => ChartDays = 0)
      BY <2>1, <2>3 DEF Journal!MoveCursor
    <3>2. PaceSound(Journal!UpdateTimelineCursor(ui, d, TRUE))
      BY <1>0, <3>1, PaceMoved
    <3> QED BY <2>3, <3>2, PaceCounted DEF Journal!MoveCursor
  <2> QED BY <1>9, <2>2, <2>3
<1>10. ASSUME NEW d \in Journal!Days, Journal!ScrubStart(d) PROVE PaceSound(ui')
  <2> DEFINE b == IF ui.asOf = 0 THEN ChartDays ELSE ui.asOf
             w == [[ui EXCEPT !.scrub = TRUE, !.from = b] EXCEPT !.asOf = d]
  <2>1. ui' = Journal!Acted(w) /\ ~ui.scrub
    BY <1>10 DEF Journal!ScrubStart, Journal!UpdateTimelineCursor
  <2>2. (b = ui.asOf \/ (ui.asOf = 0 /\ b = ChartDays)) /\ (b = 0 => ChartDays = 0)
    OBVIOUS
  <2> HIDE DEF b
  <2>3. /\ DOMAIN w = DOMAIN ui /\ w.scrub = TRUE /\ w.from = b /\ w.page = ui.page /\ w.net = ui.net /\ w.geo = ui.geo
        /\ w.mode = ui.mode /\ w.milestone = ui.milestone /\ w.cut = ui.cut /\ w.mixed = ui.mixed /\ w.map = ui.map /\ w.steps = ui.steps
    BY <1>0 DEF PaceFields
  <2> HIDE DEF w
  <2>4. Steady(w)
    BY <1>0, <2>3 DEF Steady, PaceShaped, Opening
  <2>5. Aligned(w)
    BY <1>0, <2>1, <2>2, <2>3 DEF Aligned, Reloading
  <2>6. PaceSound(w)
    BY <2>4, <2>5 DEF PaceSound
  <2> QED BY <2>1, <2>6, PaceCounted
<1>11. ASSUME NEW d \in Journal!Days, Journal!ScrubEnd(d) PROVE PaceSound(ui')
  <2> DEFINE v == [ui EXCEPT !.scrub = FALSE]
  <2>1. ui' = Journal!Acted(Journal!SyncUrl(Journal!UpdateTimelineCursor(v, d, TRUE))) /\ d # 0 /\ (ui.mixed \/ ~Opening(ui))
    BY <1>11, <1>a DEF Journal!ScrubEnd
  <2>2. DOMAIN v = DOMAIN ui /\ v.scrub = FALSE /\ \A f \in PaceFields \ {"scrub"} : v[f] = ui[f]
    BY <1>0 DEF PaceFields
  <2> HIDE DEF v
  <2>3. /\ v.page = ui.page /\ v.net = ui.net /\ v.geo = ui.geo /\ v.steps = ui.steps /\ v.mixed = ui.mixed
        /\ v.mode = ui.mode /\ v.milestone = ui.milestone /\ v.map = ui.map
    BY <2>2 DEF PaceFields
  <2>4. Steady(v) /\ (v.mixed \/ (~Opening(v) /\ ~v.scrub))
    BY <1>0, <2>1, <2>2, <2>3 DEF Steady, PaceShaped, Opening
  <2>5. PaceSound(Journal!UpdateTimelineCursor(v, d, TRUE))
    BY <2>1, <2>4, PaceMoved
  <2> QED BY <2>1, <2>5, PaceCounted
<1> QED BY <1>1, <1>2, <1>3, <1>4, <1>5, <1>6, <1>7, <1>8, <1>9, <1>10, <1>11

(* Answers: a load that runs alone leaves the frequency of the streets, or *)
(* no map yet.                                                             *)
LEMMA PaceAnswers ==
    ASSUME PaceSound(ui), StorySound(ui), NoRange \notin Ranges, NEW r \in ui.net,
           \/ Journal!MetaArrives(r) \/ Journal!SegmentsArrive(r) \/ Journal!ListArrives(r)
           \/ Journal!LoadFails(r) \/ Journal!SourceArrives(r) \/ Journal!AppendArrives(r)
           \/ Journal!GoalArrives(r) \/ Journal!OutlookArrives(r) \/ Journal!MinorFails(r)
    PROVE  PaceSound(ui')
<1> DEFINE g == [ui EXCEPT !.net = @ \ {r}]
<1>1. /\ PaceFields \subseteq DOMAIN ui /\ Steady(ui) /\ Aligned(ui) /\ ui.steps \in Nat
      /\ ui.scrub \in BOOLEAN /\ ui.milestone \in BOOLEAN /\ ui.mixed \in BOOLEAN
  BY DEF PaceSound, Steady, PaceShaped
<1>2. /\ r.r \in Ranges
      /\ ~ui.mixed => (ui.net = {r} /\ Expected(ui, r) /\ ui.range \in Ranges)
  BY DEF StorySound, StoryTyped
<1>3. Journal!Got(ui, r) = g
  BY DEF Journal!Got
<1>4. /\ DOMAIN g = DOMAIN ui /\ g.net = ui.net \ {r} /\ g.mixed = ui.mixed /\ (~g.mixed => g.net = {})
      /\ g.scrub = ui.scrub /\ g.from = ui.from /\ g.asOf = ui.asOf /\ g.page = ui.page /\ g.geo = ui.geo /\ g.steps = ui.steps
      /\ g.mode = ui.mode /\ g.milestone = ui.milestone /\ g.cut = ui.cut /\ g.map = ui.map
  BY <1>1, <1>2 DEF PaceFields
<1> HIDE DEF g
(* What an answer writes that is not of the pace.                          *)
<1>5. ASSUME NEW w, DOMAIN w = DOMAIN ui, w.geo = g.geo \/ w.geo \in Ranges,
             w.net = g.net, w.mixed = g.mixed, w.scrub = g.scrub, w.from = g.from, w.asOf = g.asOf, w.steps = g.steps,
             w.mode = g.mode, w.milestone = g.milestone, w.cut = g.cut, w.map = g.map,
             w.page = g.page
      PROVE  /\ Steady(w)
             /\ r.op \notin Reloads => Aligned(w)
             /\ ~w.mixed /\ r.op \in Reloads /\ r.n = 0 => w.page # "ready" /\ w.map = "none" /\ w.mode = "none"
  <2>1. Steady(w)
    BY <1>1, <1>4, <1>5 DEF Steady, PaceShaped, Opening
  <2>2. ASSUME r.op \notin Reloads PROVE Aligned(w)
    <3>1. Reloading(ui) => Reloading(w)
      BY <1>4, <1>5, <2>2 DEF Reloading
    <3> QED BY <1>1, <1>4, <1>5, <3>1 DEF Aligned
  <2>3. ASSUME ~w.mixed, r.op \in Reloads, r.n = 0 PROVE w.page # "ready" /\ w.map = "none" /\ w.mode = "none"
    <3>1. ~ui.mixed /\ Opening(ui)
      BY <1>4, <1>5, <2>3 DEF Opening
    <3> QED BY <1>1, <1>4, <1>5, <3>1 DEF Steady
  <2> QED BY <2>1, <2>2, <2>3
<1>6. CASE Journal!MetaArrives(r)
  <2> DEFINE v == [g EXCEPT !.meta = r.r]
  <2>1. ui' = Journal!Sent(v, "segments", r.n, 0) /\ r.op = "meta"
    BY <1>3, <1>6 DEF Journal!MetaArrives
  <2>2. /\ DOMAIN v = DOMAIN ui /\ v.geo = g.geo /\ v.net = g.net /\ v.mixed = g.mixed /\ v.scrub = g.scrub /\ v.from = g.from
        /\ v.asOf = g.asOf /\ v.steps = g.steps /\ v.mode = g.mode /\ v.milestone = g.milestone /\ v.cut = g.cut /\ v.map = g.map /\ v.page = g.page
    BY <1>1, <1>4 DEF PaceFields
  <2> HIDE DEF v
  <2>3. Steady(v) /\ (~v.mixed /\ r.op \in Reloads /\ r.n = 0 => v.page # "ready" /\ v.map = "none" /\ v.mode = "none")
    BY <1>5, <2>2
  <2> QED BY <2>1, <2>3, PaceSent DEF Reloads
<1>7. CASE Journal!SegmentsArrive(r)
  <2> DEFINE v == [g EXCEPT !.geo = r.r, !.list = << >>, !.more = 0]
  <2>1. ui' = Journal!Sent(v, "list", r.n, 1) /\ r.op = "segments"
    BY <1>3, <1>7 DEF Journal!SegmentsArrive
  <2>2. /\ DOMAIN v = DOMAIN ui /\ v.geo \in Ranges /\ v.net = g.net /\ v.mixed = g.mixed /\ v.scrub = g.scrub /\ v.from = g.from
        /\ v.asOf = g.asOf /\ v.steps = g.steps /\ v.mode = g.mode /\ v.milestone = g.milestone /\ v.cut = g.cut /\ v.map = g.map /\ v.page = g.page
    BY <1>1, <1>2, <1>4 DEF PaceFields
  <2> HIDE DEF v
  <2>3. Steady(v) /\ (~v.mixed /\ r.op \in Reloads /\ r.n = 0 => v.page # "ready" /\ v.map = "none" /\ v.mode = "none")
    BY <1>5, <2>2
  <2> QED BY <2>1, <2>3, PaceSent DEF Reloads
<1>8. CASE Journal!ListArrives(r)
  <2> DEFINE v == Journal!Listed([g EXCEPT !.page = "ready"], r)
             w == [v EXCEPT !.map = "loading"]
             f == [v EXCEPT !.mode = "frequency", !.pinned = FALSE, !.picked = FALSE]
  <2>1. /\ r.op = "list"
        /\ ui' = IF r.n = 0 THEN w ELSE Journal!SyncUrl(Journal!SetFrequencyMap(v))
    BY <1>3, <1>8 DEF Journal!ListArrives
  <2>2. /\ DOMAIN v = DOMAIN ui /\ v.geo = g.geo /\ v.net = g.net /\ v.mixed = g.mixed /\ v.scrub = g.scrub /\ v.from = g.from
        /\ v.asOf = g.asOf /\ v.steps = g.steps /\ v.mode = g.mode /\ v.milestone = g.milestone /\ v.cut = g.cut /\ v.map = g.map /\ v.page = "ready"
    BY <1>1, <1>4 DEF PaceFields, Journal!Listed
  <2> HIDE DEF v
  <2>3. CASE r.n = 0
    <3>1. /\ DOMAIN w = DOMAIN ui /\ w.geo = g.geo /\ w.net = g.net /\ w.mixed = g.mixed /\ w.mode = g.mode /\ w.milestone = g.milestone
          /\ w.scrub = g.scrub /\ w.steps = g.steps
      BY <1>1, <2>2 DEF PaceFields
    <3> HIDE DEF w
    <3>2. ~ui.mixed => ui.mode = "none"
      BY <1>1, <2>1, <2>3 DEF Steady, Opening, Reloads
    <3>3. Steady(w)
      BY <1>1, <1>4, <3>1 DEF Steady, PaceShaped, Opening
    <3>4. Aligned(w)
      BY <1>4, <3>1, <3>2 DEF Aligned
    <3> QED BY <2>1, <2>3, <3>3, <3>4 DEF PaceSound
  <2>4. CASE r.n # 0
    <3>1. ~g.mixed => g.geo # NoRange
      BY <1>2, <1>4, <2>1 DEF Expected
    <3>2. Journal!SetFrequencyMap(v) = IF v.geo = NoRange THEN v ELSE f
      BY DEF Journal!SetFrequencyMap
    <3>3. ASSUME NEW z, DOMAIN z = DOMAIN ui, z.geo = g.geo, z.net = g.net, z.mixed = g.mixed, z.milestone = g.milestone,
                 z.scrub = g.scrub, z.steps = g.steps, z.mode = g.mode \/ z.mode = "frequency", ~g.mixed => z.mode = "frequency"
          PROVE  PaceSound(z)
      <4>1. Steady(z)
        BY <1>1, <1>4, <3>3 DEF Steady, PaceShaped, Opening
      <4>2. Aligned(z)
        BY <1>4, <3>3 DEF Aligned
      <4> QED BY <4>1, <4>2 DEF PaceSound
    <3>4. /\ DOMAIN f = DOMAIN ui /\ f.geo = g.geo /\ f.net = g.net /\ f.mixed = g.mixed /\ f.mode = "frequency" /\ f.milestone = g.milestone
          /\ f.scrub = g.scrub /\ f.steps = g.steps
      BY <1>1, <2>2 DEF PaceFields
    <3> HIDE DEF f
    <3>5. v.geo # NoRange => PaceSound(f)
      BY <3>3, <3>4
    <3>6. v.geo = NoRange => PaceSound(v)
      BY <2>2, <3>1, <3>3
    <3>7. PaceSound(Journal!SetFrequencyMap(v))
      BY <3>2, <3>5, <3>6
    <3> QED BY <2>1, <2>4, <3>7, PaceCounted
  <2> QED BY <2>3, <2>4
<1>9. CASE Journal!LoadFails(r)
  <2> DEFINE w == [g EXCEPT !.page = "error"]
  <2>1. ui' = w
    BY <1>3, <1>9 DEF Journal!LoadFails
  <2>2. /\ DOMAIN w = DOMAIN ui /\ w.geo = g.geo /\ w.net = g.net /\ w.mixed = g.mixed /\ w.mode = g.mode /\ w.milestone = g.milestone
        /\ w.scrub = g.scrub /\ w.steps = g.steps /\ w.page = "error" /\ w.map = g.map
    BY <1>1, <1>4 DEF PaceFields
  <2> HIDE DEF w
  <2>3. Steady(w)
    BY <1>1, <1>4, <2>2 DEF Steady, PaceShaped, Opening
  <2>4. Aligned(w)
    BY <2>2 DEF Aligned
  <2> QED BY <2>1, <2>3, <2>4 DEF PaceSound
<1>10. CASE Journal!SourceArrives(r)
  <2> DEFINE v == Journal!Listed(g, r)
  <2>1. ui' = Journal!SyncUrl(v) /\ r.op = "source"
    BY <1>3, <1>10 DEF Journal!SourceArrives
  <2>2. /\ DOMAIN v = DOMAIN ui /\ v.geo = g.geo /\ v.net = g.net /\ v.mixed = g.mixed /\ v.scrub = g.scrub /\ v.from = g.from
        /\ v.asOf = g.asOf /\ v.steps = g.steps /\ v.mode = g.mode /\ v.milestone = g.milestone /\ v.cut = g.cut /\ v.map = g.map /\ v.page = g.page
    BY <1>1, <1>4 DEF PaceFields, Journal!Listed
  <2> HIDE DEF v
  <2>3. PaceSound(v)
    BY <1>5, <2>1, <2>2 DEF PaceSound, Reloads
  <2> QED BY <2>1, <2>3, PaceCounted
<1>11. CASE Journal!AppendArrives(r) \/ Journal!OutlookArrives(r) \/ Journal!MinorFails(r)
  <2> DEFINE a == [g EXCEPT !.list = Append(@, Journal!Page(r)), !.more = r.page + 1]
             o == [g EXCEPT !.outlook = ui.goal]
  <2>1. ui' \in {a, o, g} /\ r.op \notin Reloads
    BY <1>3, <1>11 DEF Journal!AppendArrives, Journal!OutlookArrives, Journal!MinorFails, Reloads
  <2>2. /\ DOMAIN a = DOMAIN ui /\ a.geo = g.geo /\ a.net = g.net /\ a.mixed = g.mixed /\ a.scrub = g.scrub /\ a.from = g.from
        /\ a.asOf = g.asOf /\ a.steps = g.steps /\ a.mode = g.mode /\ a.milestone = g.milestone /\ a.cut = g.cut /\ a.map = g.map /\ a.page = g.page
    BY <1>1, <1>4 DEF PaceFields
  <2>3. /\ DOMAIN o = DOMAIN ui /\ o.geo = g.geo /\ o.net = g.net /\ o.mixed = g.mixed /\ o.scrub = g.scrub /\ o.from = g.from
        /\ o.asOf = g.asOf /\ o.steps = g.steps /\ o.mode = g.mode /\ o.milestone = g.milestone /\ o.cut = g.cut /\ o.map = g.map /\ o.page = g.page
    BY <1>1, <1>4 DEF PaceFields
  <2> HIDE DEF a, o
  <2>4. Steady(a) /\ Aligned(a)
    BY <1>5, <2>1, <2>2
  <2>5. Steady(o) /\ Aligned(o)
    BY <1>5, <2>1, <2>3
  <2>6. Steady(g) /\ Aligned(g)
    BY <1>4, <1>5, <2>1
  <2> QED BY <2>1, <2>4, <2>5, <2>6 DEF PaceSound
<1>12. CASE Journal!GoalArrives(r)
  <2> DEFINE v == [g EXCEPT !.goal = r.n]
  <2>1. ui' = Journal!Sent(v, "outlook", r.n, 0) /\ r.op = "goal"
    BY <1>3, <1>12 DEF Journal!GoalArrives
  <2>2. /\ DOMAIN v = DOMAIN ui /\ v.geo = g.geo /\ v.net = g.net /\ v.mixed = g.mixed /\ v.scrub = g.scrub /\ v.from = g.from
        /\ v.asOf = g.asOf /\ v.steps = g.steps /\ v.mode = g.mode /\ v.milestone = g.milestone /\ v.cut = g.cut /\ v.map = g.map /\ v.page = g.page
    BY <1>1, <1>4 DEF PaceFields
  <2> HIDE DEF v
  <2>3. Steady(v) /\ Aligned(v)
    BY <1>5, <2>1, <2>2 DEF Reloads
  <2> QED BY <2>1, <2>3, PaceSent DEF Reloads
<1> QED BY <1>6, <1>7, <1>8, <1>9, <1>10, <1>11, <1>12

LEMMA PaceKept ==
    ASSUME PaceSound(ui), StorySound(ui), NoRange \notin Ranges, Journal!Next
    PROVE  PaceSound(ui')
BY PaceActs, PaceAnswers DEF Journal!Next

LEMMA PaceStart ==
    ASSUME Journal!Init
    PROVE  PaceSound(ui)
<1>1. Steady(Journal!Start) /\ Journal!Start.net = {} /\ Journal!Start.page = "loading" /\ Journal!Start.map = "none" /\ Journal!Start.mode = "none"
  BY DEF Journal!Start, Steady, PaceShaped, PaceFields, Opening
<1> HIDE DEF Journal!Start
<1>2. PaceSound(Journal!Sent(Journal!Start, "meta", 0, 0))
  BY <1>1, PaceSent DEF Reloads
<1> QED BY <1>2 DEF Journal!Init

LEMMA PaceTold ==
    ASSUME PaceSound(ui)
    PROVE  Journal!MapAsOf
BY DEF PaceSound, Steady, PaceShaped, Aligned, Reloading, Journal!MapAsOf

-----------------------------------------------------------------------------
(* The map together with its state. The steps rest on what is owned on     *)
(* each page and on what its answers are to, which hold in every state.    *)

ShownInv ==
    /\ page = "proxy" => OverlaysSound(ui)
    /\ page = "layers" => SwitchesSound(ui)
    /\ page = "rendering" => DrawSound(ui) /\ QueueSound(ui)
    /\ page = "journal" => PaceSound(ui)

LEMMA ShownInvariance == WebSpec => []ShownInv
<1>1. WebInit => ShownInv
  BY OverlaysStart, SwitchesStart, DrawingStart, QueueStart, PaceStart DEF WebInit, ShownInv
<1>2. ShownInv /\ OwnedInv /\ AnswersInv /\ [WebNext]_<<vars, page, ui>> => ShownInv'
  <2> SUFFICES ASSUME ShownInv, OwnedInv, AnswersInv, [WebNext]_<<vars, page, ui>> PROVE ShownInv'
    OBVIOUS
  <2>1. CASE UNCHANGED <<vars, page, ui>>
    BY <2>1 DEF ShownInv
  <2>2. CASE WebNext
    <3>1. page' = page
      BY <2>2 DEF WebNext
    <3>2. ASSUME page = "proxy" PROVE OverlaysSound(ui')
      BY <2>2, <3>2, OverlaysKept DEF WebNext, ShownInv, OwnedInv
    <3>3. ASSUME page = "layers" PROVE SwitchesSound(ui')
      BY <2>2, <3>3, SwitchesKept DEF WebNext, ShownInv, OwnedInv
    <3>4. ASSUME page = "rendering" PROVE DrawSound(ui') /\ QueueSound(ui')
      BY <2>2, <3>4, DrawingKept, QueueKept DEF WebNext, ShownInv
    <3>5. ASSUME page = "journal" PROVE PaceSound(ui')
      BY <2>2, <3>5, PaceKept, AbsenceAssumption DEF WebNext, ShownInv, AnswersInv
    <3> QED BY <3>1, <3>2, <3>3, <3>4, <3>5 DEF ShownInv
  <2> QED BY <2>1, <2>2
<1>3. QED
  BY <1>1, <1>2, OwnedInvariance, AnswersInvariance, PTL DEF WebSpec

(* The map shows the state it belongs to, however loads, decodings, style  *)
(* changes, fades and clicks cross: the proxy's overlays are its layers'   *)
(* and nothing else is left on the map (google_map.js); the main map's     *)
(* layers are those switched on, with the data last loaded                 *)
(* (layer-manager.js); trips are drawn once, from the latest bundle        *)
(* (trip-layer-renderer.js), and come back when a lens scene closes; the   *)
(* coverage dashboard's streets and panel are those of the area on show,   *)
(* and the journal's map is as of the day its page shows.                  *)
THEOREM MapShowsTheState == WebSpec => []MapShowsState
<1>1. ShownInv /\ OwnedInv /\ AnswersInv => MapShowsState
  BY OverlaysSeen, SwitchesSeen, DrawnIsSeen, LatestIsDecoded, ScenesOwned, OpenIsOne, PaceTold
     DEF ShownInv, OwnedInv, AnswersInv, MapShowsState
<1>2. QED
  BY <1>1, ShownInvariance, OwnedInvariance, AnswersInvariance, PTL
=============================================================================
