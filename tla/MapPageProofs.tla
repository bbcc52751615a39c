----------------------------- MODULE MapPageProofs -----------------------------
(***************************************************************************)
(* Proofs about the markers of the map page, for any places, zooms, finite *)
(* set of layers, reach of the prefetch, failures and playbacks: a page    *)
(* that is left to settle shows exactly the markers of its view, and the   *)
(* points of a playback are drawn only while it goes on.                   *)
(*                                                                         *)
(* Exactness holds at rest only.  What holds all the time is where each    *)
(* marker is that the load under way is about: on the map, in the queue of *)
(* the painter, or still to come from a stream of this load (Gathered);    *)
(* that the page takes no bounds for covered but those it has loaded       *)
(* without failure (CoveredIsShown); and that a load about an older view,  *)
(* or about dates no longer set, has a timer behind it that will replace   *)
(* it, unless no layer is ticked (LoadIsCurrent).  A load that settles may *)
(* stop a playback or drop the range of the dates: the page is not calm    *)
(* during the one or after the other (PlaybackOwns, LoadGoesOn).  The last *)
(* stream of a load is told from the others by a count, so the count has   *)
(* to be right for any number of streams (LoadCounts).                     *)
(***************************************************************************)
EXTENDS MapPage, FiniteSetTheorems, TLAPS

(* The layers that the load under way, or the last one, is about; the      *)
(* markers it is to show; its streams; and those whose markers are still   *)
(* to come.                                                                *)
Had == IF filters = None THEN {} ELSE filters
Due == {m \in Markers : /\ m.layer \in Had /\ m.cell \in Prefetch(load.at)
                        /\ m.zoom = load.zoom /\ Admits(load.ranged, m.cell)}
Busy == {s \in streams : Active(s)}
Brings(s) == s.phase = "cache" \/ ~s.sent

(* Whether the page may load the rest of a view only. *)
Based == covered # None /\ covered.bounds # None

Streams == [load : Nat, layer : Layers, region : SUBSET Int, phase : {"open", "cache"},
            sent : BOOLEAN]
Loads == [at : Places \cup {None}, zoom : Zooms \cup {None}, ranged : BOOLEAN,
          summed : BOOLEAN, counted : BOOLEAN, pending : Nat, failed : BOOLEAN, finalized : BOOLEAN]

(* Types. *)
PageTyped ==
    /\ at \in Places /\ zoom \in Zooms /\ enabled \subseteq Layers /\ ranged \in BOOLEAN
    /\ filters = None \/ filters \subseteq Layers
    /\ timer \in BOOLEAN \cup {None}
    /\ token \in Nat /\ load \in Loads /\ settled \in BOOLEAN
    /\ streams \subseteq Streams /\ \A s \in streams : s.load <= token

(* finalizeLoad waits for as many streams as the load opened. *)
LoadCounts == IsFiniteSet(Busy) /\ Cardinality(Busy) <= load.pending

(* A load is over when its streams and the queue of the painter are empty. *)
SettledIsOver == settled = load.finalized /\ (settled => Busy = {} /\ queue = {})

(* The view key and the filters are those of the load. *)
LoadIsAsked ==
    /\ viewKey # None =>
         viewKey = <<load.at, load.zoom>> /\ load.at \in Places /\ load.zoom \in Zooms
    /\ filters = None <=> viewKey = None

LoaderInv == PageTyped /\ LoadCounts /\ SettledIsOver /\ LoadIsAsked

(* A playback alone pauses and draws points, and its page is not calm.     *)
PlaybackOwns == (paused \/ points # {} => active) /\ (active => ~calm)

(* Each marker of the load is in one of three places, unless a stream of   *)
(* it has failed.                                                          *)
Gathered ==
    /\ \A s \in Busy : s.layer \in Had /\ s.region \subseteq Prefetch(load.at)
    /\ queue \subseteq Due /\ shown \subseteq Due
    /\ ~load.failed =>
         \A m \in Due : \/ m \in shown \/ m \in queue
                        \/ \E s \in Busy : Brings(s) /\ s.layer = m.layer /\ m.cell \in s.region

(* What a settled page takes for covered is what it has loaded.            *)
CoveredIsShown ==
    settled /\ Based /\ Had # {} =>
        covered.bounds = Prefetch(load.at) /\ covered.zoom = load.zoom /\ ~load.failed

(* A load about an older view will be replaced: a timer is set.            *)
LoadIsCurrent ==
    /\ timer # TRUE => load.ranged = ranged \/ Had = {}
    /\ timer = None => load.at = at /\ load.zoom = zoom /\ filters = enabled

CalmInv == calm => Gathered /\ CoveredIsShown /\ LoadIsCurrent

MarkersInv == LoaderInv /\ PlaybackOwns /\ CalmInv

LEMMA MapConstants ==
    /\ Places \subseteq Int /\ Reach \in Nat /\ IsFiniteSet(Layers) /\ Failing \subseteq Layers
    /\ None \notin BOOLEAN /\ \A x \in (SUBSET Layers) \cup (Places \X Zooms) : None # x
    /\ Start \in Places \X Zooms
BY PageAssumption DEF LoaderAssumption

(* At rest nothing is in the queue or to come, so all that is due is shown. *)
LEMMA ExactAtRest == ASSUME MarkersInv PROVE CalmViewExact
<1> SUFFICES ASSUME AtRest, calm PROVE shown = Wanted(Prefetch(at))
  BY DEF CalmViewExact
<1>1. /\ Busy = {} /\ queue = {} /\ shown \subseteq Due /\ \A m \in Due : m \in shown
      /\ load.at = at /\ load.zoom = zoom /\ filters = enabled /\ (load.ranged = ranged \/ Had = {})
  BY MapConstants DEF MarkersInv, AtRest, LoaderInv, PageTyped, SettledIsOver, CalmInv, Gathered, LoadIsCurrent
<1>2. Had = enabled
  BY <1>1, MapConstants DEF Had, MarkersInv, LoaderInv, PageTyped
<1>3. Due = Wanted(Prefetch(at))
  BY <1>1, <1>2 DEF Due, Wanted
<1> QED BY <1>1, <1>3

(* A pan loads finitely many strips, and they cover what is new of it.     *)
LEMMA MissingFinite ==
    ASSUME NEW prev, NEW next
    PROVE  IsFiniteSet(Missing(prev, next)) /\ \A g \in Missing(prev, next) : g \subseteq next
<1> DEFINE left == {c \in next : \A p \in prev : c < p}
           right == {c \in next : \A p \in prev : c > p}
<1>1. Missing(prev, next) = {left, right} \ {{}} /\ left \subseteq next /\ right \subseteq next
  BY DEF Missing
<1> HIDE DEF left, right
<1>2. IsFiniteSet({left} \cup {right}) /\ {left, right} = {left} \cup {right}
  BY FS_Singleton, FS_Union
<1>3. IsFiniteSet({left, right} \ {{}})
  BY <1>2, FS_Subset
<1> QED BY <1>1, <1>3

LEMMA MissingCovers ==
    ASSUME NEW a \in Int, NEW b \in Int, NEW c \in Prefetch(b) \ Prefetch(a)
    PROVE  \E g \in Missing(Prefetch(a), Prefetch(b)) : c \in g
<1> DEFINE left == {d \in Prefetch(b) : \A p \in Prefetch(a) : d < p}
           right == {d \in Prefetch(b) : \A p \in Prefetch(a) : d > p}
<1>1. Missing(Prefetch(a), Prefetch(b)) = {left, right} \ {{}}
  BY DEF Missing
<1>2. c \in left \/ c \in right
  BY MapConstants DEF Prefetch
<1> HIDE DEF left, right
<1> QED BY <1>1, <1>2

(* One stream per layer and strip is a finite set of streams.              *)
LEMMA OpenedFinite ==
    ASSUME NEW n \in Nat, NEW wanted \in SUBSET Layers, NEW regions, IsFiniteSet(regions)
    PROVE  IsFiniteSet([load : {n}, layer : wanted, region : regions, phase : {"open"}, sent : {FALSE}])
<1> DEFINE opened == [load : {n}, layer : wanted, region : regions, phase : {"open"}, sent : {FALSE}]
           f == [s \in opened |-> <<s.layer, s.region>>]
<1>1. IsFiniteSet(wanted \X regions)
  BY MapConstants, FS_Subset, FS_Product
<1>2. f \in [opened -> wanted \X regions]
  OBVIOUS
<1>3. \A s \in opened : f[s] = <<s.layer, s.region>>
  OBVIOUS
<1>6. ASSUME NEW s \in opened, NEW z \in opened, s.layer = z.layer, s.region = z.region
      PROVE  s = z
  <2>1. s.load = z.load /\ s.phase = z.phase /\ s.sent = z.sent
    OBVIOUS
  <2> QED BY <1>6, <2>1
<1> HIDE DEF opened, f
<1>4. f \in Injection(opened, wanted \X regions)
  <2>1. \A s, z \in opened : f[s] = f[z] => s.layer = z.layer /\ s.region = z.region
    BY <1>3
  <2>2. \A s, z \in opened : f[s] = f[z] => s = z
    BY <1>6, <2>1
  <2> QED BY <1>2, <2>2 DEF Injection, IsInjective
<1>5. IsFiniteSet(opened)
  BY <1>1, <1>4, FS_Injection
<1> QED BY <1>5 DEF opened

(* stopPlayback clears what the playback drew. *)
LEMMA Halted ==
    ASSUME MarkersInv, NEW keep, NEW loops, NEW on, Halt(keep, loops, on)
    PROVE  /\ HasPlayback <=> active
           /\ active => ~active' /\ ~paused' /\ points' = {} /\ ~calm
           /\ ~active => ~active' /\ ~paused' /\ points' = {} /\ shown' = on
<1>1. PlaybackOwns /\ (HasPlayback <=> active)
  BY DEF MarkersInv, PlaybackOwns, HasPlayback
<1>2. CASE active
  <2>1. active' = FALSE /\ paused' = FALSE /\ points' = {}
    BY <1>1, <1>2 DEF Halt
  <2> QED BY <1>1, <1>2, <2>1 DEF PlaybackOwns
<1>3. CASE ~active
  <2>1. shown' = on /\ UNCHANGED <<active, paused, points>>
    BY <1>1, <1>3 DEF Halt
  <2> QED BY <1>1, <1>3, <2>1 DEF PlaybackOwns
<1> QED BY <1>1, <1>2, <1>3

(* What a settling load does to the slider, the dates and a playback.      *)
Slides(on, left) ==
    \/ HideSlider(on, left)
    \/ shown' = on /\ timer' = left /\ ranged' \in {ranged, FALSE} /\ UNCHANGED playing

LEMMA SliderSettles ==
    ASSUME MarkersInv, NEW on, NEW left \in BOOLEAN \cup {None}, Slides(on, left)
    PROVE  /\ ranged' \in BOOLEAN /\ timer' \in BOOLEAN \cup {None}
           /\ active' => active
           /\ paused' \/ points' # {} => active'
           /\ ~active => ~active' /\ shown' = on /\ timer' = left
<1>1. ranged \in BOOLEAN /\ PlaybackOwns
  BY DEF MarkersInv, LoaderInv, PageTyped
<1>2. CASE HideSlider(on, left)
  <2>1. /\ HasPlayback <=> active
        /\ ~active' /\ ~paused' /\ points' = {} /\ (~active => shown' = on)
    BY <1>2, Halted DEF HideSlider
  <2> QED BY <1>2, <2>1 DEF HideSlider
<1>3. CASE shown' = on /\ timer' = left /\ ranged' \in {ranged, FALSE} /\ UNCHANGED playing
  BY <1>1, <1>3 DEF PlaybackOwns, playing
<1> QED BY <1>2, <1>3 DEF Slides

(* updateMarkers of the map: a new load, whole, of strips or of layers.    *)
LEMMA MapUpdated ==
    ASSUME MarkersInv, NEW force \in BOOLEAN, NEW left \in BOOLEAN \cup {None},
           force \/ timer # TRUE, ~active, UpdateMapMarkers(force, left)
    PROVE  MarkersInv'
<1> DEFINE was == Had
           changed == filters # enabled
           reload == \/ force
                     \/ viewKey # <<at, zoom>>
                     \/ enabled # {} /\ ~Based
           pan == reload /\ ~force /\ ~changed /\ Based /\ covered.zoom = zoom
           full == reload /\ ~pan
           regions == IF pan THEN Missing(covered.bounds, Prefetch(at)) ELSE {Prefetch(at)}
           wanted == IF reload THEN enabled ELSE enabled \ was
           cut == IF reload THEN Layers ELSE (enabled \ was) \cup (was \ enabled)
           opened == [load : {token + 1}, layer : wanted, region : regions,
                      phase : {"open"}, sent : {FALSE}]
           fresh == [at |-> at, zoom |-> zoom, ranged |-> ranged, summed |-> ~pan,
                     counted |-> FALSE, pending |-> Cardinality(opened), failed |-> FALSE,
                     finalized |-> FALSE]
           kept == CASE full -> {}
                     [] pan -> {m \in shown : m.layer \in enabled => m.cell \in Prefetch(at)}
                     [] OTHER -> {m \in shown : m.layer \notin cut}
<1>1. /\ token' = token + 1
      /\ viewKey' = IF reload THEN <<at, zoom>> ELSE viewKey
      /\ filters' = enabled
      /\ streams' = (streams \ OpenStreams(cut)) \cup opened
      /\ queue' = {}
      /\ calm' = (full \/ (calm /\ settled /\ (enabled = {} \/ ranged' = ranged)))
      /\ UNCHANGED <<at, zoom, enabled, fails>>
  BY DEF UpdateMapMarkers, Had, Based
<1>0. /\ load' = IF opened # {} THEN fresh ELSE [fresh EXCEPT !.finalized = TRUE]
      /\ settled' = (opened = {})
      /\ opened = {} /\ enabled # {} => covered' = [zoom |-> zoom, bounds |-> Prefetch(at)]
      /\ opened # {} => ranged' = ranged
      /\ Slides(kept, left)
  <2>1. CASE opened # {}
    <3>1. /\ load' = fresh /\ settled' = FALSE /\ shown' = kept /\ timer' = left
          /\ UNCHANGED <<ranged, playing>>
      BY <2>1 DEF UpdateMapMarkers, Had, Based
    <3> QED BY <2>1, <3>1 DEF Slides
  <2>2. CASE opened = {} /\ enabled = {}
    <3>1. /\ load' = [fresh EXCEPT !.finalized = TRUE] /\ settled' = TRUE
          /\ HideSlider(kept, left)
      BY <2>2 DEF UpdateMapMarkers, Had, Based
    <3> QED BY <2>2, <3>1 DEF Slides
  <2>3. CASE opened = {} /\ enabled # {}
    <3>1. Finalize(fresh, {}, kept, left)
      BY <2>3 DEF UpdateMapMarkers, Had, Based
    <3>2. Cardinality(opened) = 0
      BY <2>3, FS_EmptySet
    <3>3. /\ ~fresh.finalized /\ fresh.pending = 0 /\ ~fresh.failed
          /\ fresh.at = at /\ fresh.zoom = zoom /\ fresh.finalized = FALSE
      BY <3>2
    <3> HIDE DEF fresh, kept, opened
    <3>4. /\ load' = [fresh EXCEPT !.finalized = TRUE] /\ settled' = TRUE
          /\ covered' = [zoom |-> zoom, bounds |-> Prefetch(at)]
      BY <3>1, <3>3 DEF Finalize
    <3>5. Slides(kept, left)
      BY <3>1 DEF Finalize, Slides, MarkersInv, LoaderInv, PageTyped
    <3> QED BY <2>3, <3>4, <3>5
  <2> QED BY <2>1, <2>2, <2>3
<1>2. /\ PageTyped /\ SettledIsOver /\ LoadIsAsked /\ LoadCounts
      /\ wanted \subseteq enabled /\ was \subseteq Layers
  BY DEF MarkersInv, LoaderInv, Had, PageTyped
<1>3. /\ regions \subseteq SUBSET Prefetch(at) /\ IsFiniteSet(regions)
      /\ Prefetch(at) \subseteq Int
  <2>1. Prefetch(at) \subseteq Int
    BY <1>2, MapConstants DEF PageTyped, Prefetch
  <2> DEFINE missing == Missing(covered.bounds, Prefetch(at))
  <2>2. IsFiniteSet(missing) /\ \A g \in missing : g \subseteq Prefetch(at)
    BY MissingFinite
  <2>3. IsFiniteSet({Prefetch(at)})
    BY FS_Singleton
  <2> HIDE DEF missing
  <2>4. CASE regions = missing
    BY <2>1, <2>2, <2>4
  <2>5. CASE regions = {Prefetch(at)}
    BY <2>1, <2>3, <2>5
  <2> QED BY <2>4, <2>5 DEF missing
<1>4. /\ opened \subseteq Streams /\ IsFiniteSet(opened) /\ Cardinality(opened) \in Nat
      /\ \A s \in opened : /\ s.load = token + 1 /\ s.layer \in wanted /\ s.region \in regions
                           /\ s.phase = "open" /\ s.sent = FALSE
  <2>1. token + 1 \in Nat /\ wanted \in SUBSET Layers
    BY <1>2 DEF PageTyped
  <2>2. IsFiniteSet(opened)
    BY <1>3, <2>1, OpenedFinite
  <2> QED BY <2>1, <2>2, <1>3, FS_CardinalityType DEF Streams
<1>5. /\ load' \in Loads /\ load'.pending = Cardinality(opened)
      /\ load'.at = at /\ load'.zoom = zoom /\ load'.ranged = ranged /\ load'.failed = FALSE
      /\ load'.finalized = (opened = {}) /\ settled' = (opened = {})
      /\ settled' \in BOOLEAN
  <2> USE <1>4 DEF Loads
  <2> HIDE DEF opened, pan
  <2>1. (~pan) \in BOOLEAN
    BY DEF pan
  <2>2. fresh \in Loads
    BY <1>2, <2>1 DEF PageTyped
  <2>3. fresh.pending = Cardinality(opened) /\ fresh.at = at /\ fresh.zoom = zoom
        /\ fresh.ranged = ranged /\ fresh.failed = FALSE /\ fresh.finalized = FALSE
    OBVIOUS
  <2> HIDE DEF fresh
  <2>4. CASE opened # {}
    BY <1>0, <2>2, <2>3, <2>4
  <2>5. CASE opened = {}
    BY <1>0, <2>2, <2>3, <2>5
  <2> QED BY <2>4, <2>5
<1>6. Busy' = opened
  <2>1. \A s \in streams : s.load # token + 1
    BY <1>2 DEF PageTyped, Streams
  <2> QED BY <1>1, <1>4, <2>1 DEF Busy, Active
<1>10. \A l \in wanted, g \in regions : \E s \in opened :
          s.layer = l /\ s.region = g /\ ~s.sent
  <2> TAKE l \in wanted, g \in regions
  <2> WITNESS [load |-> token + 1, layer |-> l, region |-> g, phase |-> "open", sent |-> FALSE] \in opened
  <2> QED OBVIOUS
<1> HIDE DEF opened, fresh, kept, cut
<1>11. /\ ranged' \in BOOLEAN /\ timer' \in BOOLEAN \cup {None}
       /\ ~active' /\ ~paused' /\ points' = {} /\ shown' = kept /\ timer' = left
  BY <1>0, SliderSettles
<1>7. LoaderInv'
  <2>1. PageTyped'
    <3>1. streams' \subseteq Streams /\ \A s \in streams' : s.load <= token'
      BY <1>1, <1>2, <1>4 DEF PageTyped, Streams
    <3> QED BY <1>1, <1>2, <1>5, <1>11, <3>1 DEF PageTyped
  <2>2. LoadCounts'
    BY <1>4, <1>5, <1>6 DEF LoadCounts
  <2>3. SettledIsOver'
    BY <1>1, <1>5, <1>6 DEF SettledIsOver
  <2>4. LoadIsAsked'
    <3>1. viewKey' = <<at, zoom>> /\ filters' = enabled
      BY <1>1
    <3>2. viewKey' = <<load'.at, load'.zoom>> /\ load'.at \in Places /\ load'.zoom \in Zooms
      BY <1>2, <1>5, <3>1 DEF PageTyped
    <3>3. viewKey' # None /\ filters' # None
      <4>1. <<at, zoom>> \in Places \X Zooms /\ enabled \in SUBSET Layers
        BY <1>2 DEF PageTyped
      <4>2. None # <<at, zoom>> /\ None # enabled
        BY <4>1, MapConstants
      <4> QED BY <3>1, <4>2
    <3> QED BY <3>2, <3>3 DEF LoadIsAsked
  <2> QED BY <2>1, <2>2, <2>3, <2>4, Zenon DEF LoaderInv
<1>8. Had' = enabled
  BY <1>1, <1>2, MapConstants DEF Had, PageTyped
<1>9. CalmInv'
  <2> SUFFICES ASSUME calm' PROVE Gathered' /\ CoveredIsShown' /\ LoadIsCurrent'
    BY DEF CalmInv
  <2>1. LoadIsCurrent'
    <3>1. full /\ enabled # {} => opened # {}
      <4> SUFFICES ASSUME full, enabled # {} PROVE opened # {}
        OBVIOUS
      <4>1. wanted = enabled /\ regions = {Prefetch(at)}
        OBVIOUS
      <4> QED BY <1>10, <4>1
    <3>2. ranged' = ranged \/ enabled = {}
      BY <1>0, <1>1, <3>1
    <3> QED BY <1>1, <1>5, <1>8, <3>2 DEF LoadIsCurrent
  <2>2. /\ \A s \in opened : s.layer \in Had' /\ s.region \subseteq Prefetch(load.at)'
        /\ Prefetch(load.at)' = Prefetch(at)
    BY <1>2, <1>3, <1>4, <1>5, <1>8 DEF Prefetch
  <2> DEFINE due == {m \in Markers : /\ m.layer \in enabled /\ m.cell \in Prefetch(at)
                                     /\ m.zoom = zoom /\ Admits(ranged, m.cell)}
  <2>3. Due' = due
    BY <1>5, <1>8, <2>2 DEF Due
  <2> HIDE DEF due
  <2>4. CoveredIsShown'
    <3> SUFFICES ASSUME settled', Had' # {}
                 PROVE  /\ covered'.bounds = Prefetch(load.at)' /\ covered'.zoom = load'.zoom
                        /\ ~load'.failed
      BY DEF CoveredIsShown
    <3>1. opened = {} /\ enabled # {}
      BY <1>5, <1>8
    <3>2. covered' = [zoom |-> zoom, bounds |-> Prefetch(at)]
      BY <1>0, <3>1
    <3> QED BY <1>5, <2>2, <3>2
  <2> DEFINE Kept(m) == m \in due /\ m \in shown'
             Brought(m) == \E g \in regions : m.layer \in wanted /\ m.cell \in g
  <2>5. SUFFICES shown' \subseteq due /\ \A m \in due : m \in shown' \/ Brought(m)
    <3>1. \A m : Brought(m) =>
            \E s \in opened : Brings(s) /\ s.layer = m.layer /\ m.cell \in s.region
      BY <1>10 DEF Brings
    <3> HIDE DEF Brought
    <3>2. Gathered'
      BY <1>1, <1>6, <2>2, <2>3, <2>5, <3>1 DEF Gathered
    <3> QED BY <2>1, <2>4, <3>2
  <2>6. CASE full
    <3>1. shown' = {} /\ regions = {Prefetch(at)} /\ wanted = enabled
      BY <1>11, <2>6 DEF kept
    <3> QED BY <3>1 DEF due
  <2>9. ASSUME calm, settled, ~force
        PROVE  /\ Busy = {} /\ queue = {} /\ shown \subseteq Due
               /\ ~load.failed => Due \subseteq shown
               /\ Based /\ Had # {} => covered.bounds = Prefetch(load.at) /\ covered.zoom = load.zoom
                                       /\ ~load.failed
               /\ load.ranged = ranged \/ Had = {}
    BY <1>2, <2>9 DEF MarkersInv, CalmInv, Gathered, CoveredIsShown, LoadIsCurrent, SettledIsOver
  <2>7. CASE pan /\ calm /\ settled
    <3>1. ~force /\ filters = enabled /\ Had = enabled /\ Based /\ covered.zoom = zoom
      BY <2>7, <1>2, MapConstants DEF Had, PageTyped
    <3>2. /\ shown' = {m \in shown : m.layer \in enabled => m.cell \in Prefetch(at)}
          /\ regions = Missing(covered.bounds, Prefetch(at)) /\ wanted = enabled
      BY <1>11, <2>7 DEF kept
    <3>3. CASE enabled = {}
      <4>1. shown = {}
        BY <2>7, <2>9, <3>1, <3>3 DEF Due
      <4> QED BY <3>2, <3>3, <4>1 DEF due
    <3>4. CASE enabled # {}
      <4>1. /\ covered.bounds = Prefetch(load.at) /\ load.zoom = zoom /\ ~load.failed
            /\ load.ranged = ranged /\ shown = Due
        BY <2>7, <2>9, <3>1, <3>4
      <4>2. load.at \in Int /\ at \in Int
        <5>1. filters # None
          BY <1>2, <3>1, MapConstants DEF PageTyped
        <5> QED BY <5>1, <1>2, MapConstants DEF LoadIsAsked, PageTyped
      <4>3. shown' \subseteq due
        BY <3>1, <3>2, <4>1 DEF Due, due
      <4>4. ASSUME NEW m \in due PROVE m \in shown' \/ Brought(m)
        <5>1. m \in Markers /\ m.layer \in enabled /\ m.cell \in Prefetch(at) /\ m.zoom = zoom
              /\ Admits(ranged, m.cell)
          BY DEF due
        <5>2. CASE m.cell \in Prefetch(load.at)
          BY <3>1, <3>2, <4>1, <5>1, <5>2 DEF Due
        <5>3. CASE m.cell \notin Prefetch(load.at)
          BY <3>2, <4>1, <4>2, <5>1, <5>3, MissingCovers
        <5> QED BY <5>2, <5>3
      <4> QED BY <4>3, <4>4
    <3> QED BY <3>3, <3>4
  <2>8. CASE ~reload /\ calm /\ settled
    <3>1. ~force /\ viewKey = <<at, zoom>> /\ (enabled = {} \/ Based)
      BY <2>8
    <3>2. load.at = at /\ load.zoom = zoom /\ (load.ranged = ranged \/ Had = {})
      <4>1. viewKey # None
        <5>1. <<at, zoom>> \in Places \X Zooms
          BY <1>2 DEF PageTyped
        <5> QED BY <3>1, <5>1, MapConstants
      <4> QED BY <2>8, <2>9, <3>1, <4>1, <1>2 DEF LoadIsAsked
    <3>3. /\ shown' = {m \in shown : m.layer \notin cut} /\ cut = (enabled \ Had) \cup (Had \ enabled)
          /\ regions = {Prefetch(at)} /\ wanted = enabled \ Had
      BY <1>11, <2>8 DEF kept, cut
    <3>4. Due = {m \in Markers : /\ m.layer \in Had /\ m.cell \in Prefetch(at)
                                  /\ m.zoom = zoom /\ Admits(ranged, m.cell)}
      BY <3>2 DEF Due
    <3>5. shown' \subseteq due
      BY <2>8, <2>9, <3>1, <3>3, <3>4 DEF due
    <3>6. ASSUME NEW m \in due PROVE m \in shown' \/ Brought(m)
      <4>1. m \in Markers /\ m.layer \in enabled /\ m.cell \in Prefetch(at) /\ m.zoom = zoom
            /\ Admits(ranged, m.cell)
        BY DEF due
      <4>2. CASE m.layer \notin Had
        BY <3>3, <4>1, <4>2
      <4>3. CASE m.layer \in Had
        <5>1. m \in shown
          BY <2>8, <2>9, <3>1, <3>4, <4>1, <4>3
        <5> QED BY <3>3, <4>1, <4>3, <5>1
      <4> QED BY <4>2, <4>3
    <3> QED BY <3>5, <3>6
  <2> QED BY <1>1, <2>6, <2>7, <2>8
<1> QED BY <1>7, <1>9, <1>11 DEF MarkersInv, PlaybackOwns

(* What a step of a stream or of the painter leaves alone. *)
View == <<at, zoom, enabled, token, viewKey, filters>>

(* Some stream still brings a marker; a stream is about the load. *)
Bringing(m) == \E s \in Busy : Brings(s) /\ s.layer = m.layer /\ m.cell \in s.region

Fits(s) == s.layer \in Had /\ s.region \subseteq Prefetch(load.at)

(* Streams and painter: markers move on from stream to queue to map.       *)
LEMMA LoadGoesOn ==
    ASSUME MarkersInv, UNCHANGED View, ~settled, calm' => calm /\ ranged' = ranged,
           NEW l \in Loads, NEW on,
           l = [load EXCEPT !.pending = l.pending, !.failed = l.failed,
                            !.summed = l.summed, !.counted = l.counted],
           load.failed => l.failed,
           \/ Finalize(l, queue', on, timer)
           \/ load' = l /\ shown' = on /\ UNCHANGED <<covered, settled, ranged, timer, playing>>,
           streams' \subseteq Streams, \A s \in streams' : s.load <= token,
           IsFiniteSet(Busy'), Cardinality(Busy') <= l.pending,
           calm => /\ \A s \in Busy' : Fits(s)
                   /\ queue' \subseteq Due /\ on \subseteq Due
                   /\ ~l.failed => \A m \in Due : m \in on \/ m \in queue' \/ Bringing(m)'
    PROVE  MarkersInv'
<1>1. PageTyped /\ SettledIsOver /\ LoadIsAsked /\ LoadCounts /\ CalmInv /\ PlaybackOwns
  BY DEF MarkersInv, LoaderInv
<1>2. l.at = load.at /\ l.zoom = load.zoom /\ l.ranged = load.ranged /\ l.finalized = FALSE
  BY <1>1 DEF Loads, PageTyped, SettledIsOver
<1>3. \/ /\ load' = [l EXCEPT !.finalized = TRUE] /\ settled' = TRUE
         /\ l.pending = 0 /\ queue' = {}
         /\ covered' = [zoom |-> l.zoom, bounds |-> IF l.failed THEN None ELSE Prefetch(l.at)]
      \/ load' = l /\ settled' = settled
  <2>1. CASE l.pending = 0 /\ queue' = {} /\ Finalize(l, queue', on, timer)
    BY <1>2, <2>1 DEF Finalize
  <2>2. CASE ~(l.pending = 0 /\ queue' = {}) /\ Finalize(l, queue', on, timer)
    <3>1. load' = [l EXCEPT !.finalized = @ \/ FALSE] /\ settled' = settled
      BY <2>2 DEF Finalize
    <3> QED BY <1>2, <3>1 DEF Loads
  <2> QED BY <2>1, <2>2
<1>9. Slides(on, timer)
  <2>1. ASSUME Finalize(l, queue', on, timer) PROVE Slides(on, timer)
    BY <1>1, <2>1 DEF Finalize, Slides, PageTyped
  <2> QED BY <2>1 DEF Slides
<1>10. /\ ranged' \in BOOLEAN /\ timer' \in BOOLEAN \cup {None} /\ PlaybackOwns'
       /\ calm' => calm /\ ranged' = ranged /\ timer' = timer /\ shown' = on
  BY <1>1, <1>9, SliderSettles DEF PageTyped, PlaybackOwns
<1>4. /\ load' \in Loads /\ load'.at = load.at /\ load'.zoom = load.zoom /\ load'.ranged = load.ranged
      /\ load'.failed = l.failed /\ load'.pending = l.pending
      /\ load'.finalized = settled' /\ settled' \in BOOLEAN
  BY <1>1, <1>2, <1>3 DEF Loads, PageTyped
<1>5. settled' => Busy' = {} /\ queue' = {}
  <2>1. ASSUME settled' PROVE l.pending = 0 /\ queue' = {}
    BY <1>3, <2>1
  <2>2. Cardinality(Busy') = 0 => Busy' = {}
    BY FS_EmptySet
  <2>3. Cardinality(Busy') \in Nat
    BY FS_CardinalityType
  <2> QED BY <2>1, <2>2, <2>3
<1>6. LoaderInv'
  <2>1. PageTyped'
    BY <1>1, <1>4, <1>10 DEF PageTyped, View
  <2>2. LoadIsAsked' /\ SettledIsOver' /\ LoadCounts'
    BY <1>1, <1>4, <1>5 DEF LoadIsAsked, SettledIsOver, LoadCounts, View
  <2> QED BY <2>1, <2>2, Zenon DEF LoaderInv
<1>7. Had' = Had /\ Due' = Due
  BY <1>4 DEF Had, Due, View, Prefetch
<1>8. ASSUME calm' PROVE Gathered' /\ CoveredIsShown' /\ LoadIsCurrent'
  <2>1. LoadIsCurrent'
    BY <1>1, <1>4, <1>7, <1>8, <1>10 DEF CalmInv, LoadIsCurrent, View
  <2>2. Gathered'
    BY <1>4, <1>7, <1>8, <1>10 DEF Gathered, Bringing, Fits, Prefetch
  <2>3. CoveredIsShown'
    <3> SUFFICES ASSUME settled', Based'
                 PROVE  /\ covered'.bounds = Prefetch(load.at)' /\ covered'.zoom = load'.zoom
                        /\ ~load'.failed
      BY DEF CoveredIsShown
    <3>1. covered' = [zoom |-> l.zoom, bounds |-> IF l.failed THEN None ELSE Prefetch(l.at)]
      BY <1>3
    <3> QED BY <1>2, <1>4, <3>1 DEF Based, Prefetch
  <2> QED BY <2>1, <2>2, <2>3
<1> QED BY <1>6, <1>8, <1>10 DEF CalmInv, MarkersInv

(* A stream of an older load changes nothing of this one. *)
LEMMA StaleStreamMoves ==
    ASSUME MarkersInv, UNCHANGED <<View, load, settled, covered, queue, shown, ranged, timer, playing>>,
           calm' => calm, Busy' = Busy,
           streams' \subseteq Streams, \A s \in streams' : s.load <= token
    PROVE  MarkersInv'
<1>1. PageTyped /\ SettledIsOver /\ LoadIsAsked /\ LoadCounts /\ CalmInv /\ PlaybackOwns
  BY DEF MarkersInv, LoaderInv
<1>2. LoaderInv'
  <2>1. PageTyped'
    BY <1>1 DEF PageTyped, View
  <2>2. LoadIsAsked' /\ SettledIsOver' /\ LoadCounts'
    BY <1>1 DEF LoadIsAsked, SettledIsOver, LoadCounts, View
  <2> QED BY <2>1, <2>2, Zenon DEF LoaderInv
<1>3. Had' = Had /\ Due' = Due
  BY DEF Had, Due, View, Prefetch
<1>4. ASSUME calm' PROVE Gathered' /\ CoveredIsShown' /\ LoadIsCurrent'
  BY <1>1, <1>3, <1>4 DEF CalmInv, Gathered, CoveredIsShown, LoadIsCurrent, View, Based, Prefetch
<1>5. PlaybackOwns'
  BY <1>1 DEF PlaybackOwns, playing
<1> QED BY <1>2, <1>4, <1>5 DEF CalmInv, MarkersInv

Enqueued(s) ==
    {[layer |-> s.layer, cell |-> c, zoom |-> load.zoom] : c \in {d \in s.region \ Bare : Admits(load.ranged, d)}}

LEMMA BusyStream ==
    ASSUME MarkersInv, NEW s \in streams, Active(s)
    PROVE  /\ s \in Busy /\ ~settled /\ IsFiniteSet(Busy \ {s})
           /\ Cardinality(Busy) = Cardinality(Busy \ {s}) + 1
           /\ Cardinality(Busy \ {s}) \in Nat /\ load.pending \in Nat
           /\ Cardinality(Busy \ {s}) <= load.pending - 1 /\ load \in Loads
<1>1. /\ s \in Busy /\ ~settled /\ IsFiniteSet(Busy) /\ Cardinality(Busy) <= load.pending
      /\ load \in Loads
  BY DEF Busy, MarkersInv, LoaderInv, SettledIsOver, LoadCounts, PageTyped
<1>2. IsFiniteSet(Busy \ {s}) /\ Cardinality(Busy \ {s}) = Cardinality(Busy) - 1
  BY <1>1, FS_RemoveElement
<1>3. Cardinality(Busy) \in Nat /\ Cardinality(Busy \ {s}) \in Nat /\ load.pending \in Nat
  BY <1>1, <1>2, FS_CardinalityType DEF Loads
<1> QED BY <1>1, <1>2, <1>3

(* What an active stream enqueues is due, and is all it brings. *)
LEMMA EnqueuedIsDue ==
    ASSUME MarkersInv, calm, NEW s \in Busy
    PROVE  /\ Enqueued(s) \subseteq Due
           /\ \A m \in Due : m.layer = s.layer /\ m.cell \in s.region => m \in Enqueued(s)
<1>1. /\ PageTyped /\ LoadIsAsked /\ s.layer \in Had /\ s.region \subseteq Prefetch(load.at)
      /\ Had \subseteq Layers
  BY DEF MarkersInv, LoaderInv, CalmInv, Gathered, Had, PageTyped
<1>2. load.at \in Places /\ load.zoom \in Zooms
  BY <1>1 DEF Had, LoadIsAsked
<1>3. Prefetch(load.at) \subseteq Cells
  BY <1>2 DEF Cells
<1>4. Enqueued(s) \subseteq Due
  BY <1>1, <1>2, <1>3 DEF Enqueued, Due, Markers
<1>5. ASSUME NEW m \in Due, m.layer = s.layer, m.cell \in s.region PROVE m \in Enqueued(s)
  <2>1. /\ m = [layer |-> s.layer, cell |-> m.cell, zoom |-> load.zoom]
        /\ Admits(load.ranged, m.cell) /\ m.cell \notin Bare
    BY <1>5 DEF Due, Markers
  <2> QED BY <1>5, <2>1 DEF Enqueued
<1> QED BY <1>4, <1>5

(* A stream that stays, having brought what it brings or still to bring it. *)
LEMMA StreamTurns ==
    ASSUME MarkersInv, NEW s \in streams, NEW z \in Streams,
           z.load = s.load, z.layer = s.layer, z.region = s.region,
           streams' = (streams \ {s}) \cup {z},
           UNCHANGED <<View, settled, covered, shown, ranged, timer, calm, playing>>,
           load' = [load EXCEPT !.counted = load'.counted], load'.counted \in BOOLEAN,
           ~Active(s) => load' = load,
           \/ Brings(z) /\ queue' = queue
           \/ queue' = IF Active(s) THEN queue \cup Enqueued(s) ELSE queue
    PROVE  MarkersInv'
<1>1. s.load <= token /\ streams \subseteq Streams
  BY DEF MarkersInv, LoaderInv, PageTyped
<1>2. streams' \subseteq Streams /\ \A y \in streams' : y.load <= token
  BY <1>1 DEF MarkersInv, LoaderInv, PageTyped
<1>3. CASE ~Active(s)
  <2>1. Busy' = Busy
    BY <1>1, <1>3 DEF Busy, Active, View
  <2> QED BY <1>2, <1>3, <2>1, StaleStreamMoves
<1>4. CASE Active(s)
  <2>1. Busy' = (Busy \ {s}) \cup {z}
    BY <1>1, <1>4 DEF Busy, Active, View
  <2>2. IsFiniteSet(Busy') /\ Cardinality(Busy') <= load.pending
    <3> DEFINE others == Busy \ {s}
    <3>1. IsFiniteSet(others) /\ Cardinality(others) \in Nat /\ Cardinality(others) <= load.pending - 1
          /\ load.pending \in Nat
      BY <1>4, BusyStream
    <3> HIDE DEF others
    <3>2. /\ IsFiniteSet(others \cup {z})
          /\ Cardinality(others \cup {z}) =
               IF z \in others THEN Cardinality(others) ELSE Cardinality(others) + 1
      BY <3>1, FS_AddElement
    <3>3. Cardinality(others \cup {z}) <= load.pending
      BY <3>1, <3>2
    <3> QED BY <2>1, <3>2, <3>3 DEF others
  <2>3. ASSUME calm
        PROVE  /\ \A y \in Busy' : Fits(y)
               /\ queue' \subseteq Due /\ shown' \subseteq Due
               /\ ~load.failed => \A m \in Due : m \in shown' \/ m \in queue' \/ Bringing(m)'
    <3>1. Gathered /\ s \in Busy
      BY <1>4, <2>3 DEF MarkersInv, CalmInv, Busy
    <3>2. /\ Enqueued(s) \subseteq Due
          /\ \A m \in Due : m.layer = s.layer /\ m.cell \in s.region => m \in Enqueued(s)
      BY <2>3, <3>1, EnqueuedIsDue
    <3>3. \A y \in Busy' : Fits(y)
      BY <2>1, <3>1 DEF Gathered, Fits
    <3>4. ASSUME ~load.failed, NEW m \in Due, ~(m \in shown'), ~(m \in queue')
          PROVE  Bringing(m)'
      <4>1. m \notin shown /\ m \notin queue /\ (Brings(z) \/ m \notin Enqueued(s))
        BY <1>4, <3>4
      <4>2. PICK y \in Busy : Brings(y) /\ y.layer = m.layer /\ m.cell \in y.region
        BY <3>1, <3>4, <4>1 DEF Gathered
      <4>3. y \in Busy' \/ (y = s /\ Brings(z))
        BY <2>1, <3>2, <4>1, <4>2
      <4>4. z \in Busy'
        BY <2>1
      <4> QED BY <4>2, <4>3, <4>4 DEF Bringing, Brings
    <3>5. queue' \subseteq Due /\ shown' \subseteq Due
      BY <1>4, <3>1, <3>2 DEF Gathered
    <3> QED BY <3>3, <3>4, <3>5
  <2> DEFINE l == load'
  <2>4. /\ l \in Loads /\ ~settled /\ l.pending = load.pending /\ l.failed = load.failed
        /\ l = [load EXCEPT !.pending = l.pending, !.failed = l.failed,
                            !.summed = l.summed, !.counted = l.counted]
    BY <1>4, BusyStream DEF Loads
  <2> HIDE DEF l
  <2>5. load' = l
    BY DEF l
  <2> QED BY <1>2, <2>2, <2>3, <2>4, <2>5, LoadGoesOn
<1> QED BY <1>3, <1>4

(* A stream that ends, with what it still brought in the queue, or failed. *)
LEMMA StreamEnded ==
    ASSUME MarkersInv, NEW s \in streams, NEW failed \in BOOLEAN,
           streams' = streams \ {s}, UNCHANGED View, CalmWhileRanged,
           NEW was, was = [load EXCEPT !.counted = was.counted], was.counted \in BOOLEAN,
           Ended(s, was, failed, queue'),
           \/ queue' = queue /\ (failed \/ ~Brings(s))
           \/ queue' = IF Active(s) THEN queue \cup Enqueued(s) ELSE queue
    PROVE  MarkersInv'
<1>1. streams' \subseteq Streams /\ \A y \in streams' : y.load <= token
  BY DEF MarkersInv, LoaderInv, PageTyped
<1>2. Busy' = Busy \ {s}
  BY DEF Busy, Active, View
<1>3. CASE ~Active(s)
  <2>1. Busy' = Busy
    BY <1>2, <1>3 DEF Busy
  <2>2. UNCHANGED <<load, settled, covered, queue, shown, ranged, timer, playing>> /\ (calm' => calm)
    BY <1>3 DEF Ended, CalmWhileRanged
  <2> QED BY <1>1, <2>1, <2>2, StaleStreamMoves
<1>4. CASE Active(s)
  <2>0. PICK summary \in BOOLEAN :
          Finalize([was EXCEPT !.pending = @ - 1, !.failed = @ \/ failed,
                               !.summed = @ \/ (summary /\ ~failed /\ was.at \in s.region)],
                   queue', shown, timer)
    BY <1>4 DEF Ended
  <2> DEFINE told == was.summed \/ (summary /\ ~failed /\ was.at \in s.region)
             l == [was EXCEPT !.pending = @ - 1, !.failed = @ \/ failed, !.summed = told]
  <2>1. /\ IsFiniteSet(Busy') /\ load \in Loads /\ load.pending \in Nat /\ ~settled
        /\ Cardinality(Busy') \in Nat /\ Cardinality(Busy') <= load.pending - 1
    BY <1>2, <1>4, BusyStream
  <2>2. Finalize(l, queue', shown, timer)
    BY <2>0
  <2>3. /\ l.pending = load.pending - 1 /\ l.failed = (load.failed \/ failed)
        /\ l \in Loads
        /\ l = [load EXCEPT !.pending = l.pending, !.failed = l.failed,
                            !.summed = l.summed, !.counted = l.counted]
    <3>1. /\ load.pending - 1 \in Nat /\ load.failed \in BOOLEAN /\ told \in BOOLEAN
          /\ was \in Loads /\ was.pending = load.pending /\ was.failed = load.failed
      BY <2>1 DEF Loads
    <3> HIDE DEF told
    <3>2. /\ l.pending = load.pending - 1 /\ l.failed = (load.failed \/ failed)
          /\ l.summed = told /\ l.counted = was.counted
      BY <3>1 DEF Loads
    <3>3. l = [load EXCEPT !.pending = l.pending, !.failed = l.failed,
                           !.summed = l.summed, !.counted = l.counted]
      BY <3>1, <3>2 DEF Loads
    <3> HIDE DEF l
    <3>4. l \in Loads
      BY <2>1, <3>1, <3>2, <3>3 DEF Loads
    <3> QED BY <3>2, <3>3, <3>4
  <2> HIDE DEF l
  <2>4. ASSUME calm
        PROVE  /\ \A y \in Busy' : Fits(y)
               /\ queue' \subseteq Due /\ shown \subseteq Due
               /\ ~l.failed => \A m \in Due : m \in shown \/ m \in queue' \/ Bringing(m)'
    <3>1. Gathered /\ s \in Busy
      BY <1>4, <2>4 DEF MarkersInv, CalmInv, Busy
    <3>2. /\ Enqueued(s) \subseteq Due
          /\ \A m \in Due : m.layer = s.layer /\ m.cell \in s.region => m \in Enqueued(s)
      BY <2>4, <3>1, EnqueuedIsDue
    <3>3. \A y \in Busy' : Fits(y)
      BY <1>2, <3>1 DEF Gathered, Fits
    <3>4. ASSUME ~l.failed, NEW m \in Due, ~(m \in shown), ~(m \in queue')
          PROVE  Bringing(m)'
      <4>1. m \notin shown /\ m \notin queue /\ (~Brings(s) \/ m \notin Enqueued(s)) /\ ~load.failed
        BY <1>4, <2>3, <3>4
      <4>2. PICK y \in Busy : Brings(y) /\ y.layer = m.layer /\ m.cell \in y.region
        BY <3>1, <4>1 DEF Gathered
      <4>3. y \in Busy'
        BY <1>2, <3>2, <4>1, <4>2
      <4> QED BY <4>2, <4>3 DEF Bringing, Brings
    <3>5. queue' \subseteq Due /\ shown \subseteq Due
      BY <1>4, <3>1, <3>2 DEF Gathered
    <3> QED BY <3>3, <3>4, <3>5
  <2>5. Cardinality(Busy') <= l.pending /\ (load.failed => l.failed)
    BY <2>1, <2>3
  <2> QED BY <1>1, <2>1, <2>2, <2>3, <2>4, <2>5, LoadGoesOn DEF CalmWhileRanged
<1> QED BY <1>3, <1>4

LEMMA FrameKeeps == ASSUME MarkersInv, Frame PROVE MarkersInv'
<1>1. PICK drawn \in {queue} \cup {{CHOOSE m \in queue : TRUE}} :
        queue' = queue \ drawn /\ Finalize(load, queue', shown \cup drawn, timer)
  BY DEF Frame
<1>2. drawn \subseteq queue /\ queue # {} /\ UNCHANGED <<View, streams>>
  BY <1>1 DEF Frame, View
<1>3. /\ ~settled /\ load \in Loads
      /\ load = [load EXCEPT !.pending = load.pending, !.failed = load.failed,
                             !.summed = load.summed, !.counted = load.counted]
  BY <1>2 DEF MarkersInv, LoaderInv, SettledIsOver, PageTyped, Loads
<1>4. Busy' = Busy /\ IsFiniteSet(Busy') /\ Cardinality(Busy') <= load.pending
  BY <1>2 DEF MarkersInv, LoaderInv, LoadCounts, Busy, Active, View
<1>5. streams' \subseteq Streams /\ \A y \in streams' : y.load <= token
  BY <1>2 DEF MarkersInv, LoaderInv, PageTyped
<1>6. ASSUME calm
      PROVE  /\ \A y \in Busy' : Fits(y)
             /\ queue' \subseteq Due /\ shown \cup drawn \subseteq Due
             /\ ~load.failed => \A m \in Due : m \in shown \cup drawn \/ m \in queue' \/ Bringing(m)'
  BY <1>1, <1>2, <1>4, <1>6 DEF MarkersInv, CalmInv, Gathered, Fits, Bringing
<1>7. calm' => calm /\ ranged' = ranged
  BY DEF Frame, CalmWhileRanged
<1> QED BY <1>1, <1>2, <1>3, <1>4, <1>5, <1>6, <1>7, LoadGoesOn

LEMMA LoadingKeeps ==
    ASSUME MarkersInv, Loading PROVE MarkersInv'
<1>1. ASSUME NEW s \in streams, StreamStep(s) PROVE MarkersInv'
  <2>1. s \in Streams /\ load \in Loads
    BY DEF MarkersInv, LoaderInv, PageTyped
  <2> DEFINE was == Counted(s)
  <2>7. was = [load EXCEPT !.counted = was.counted] /\ was.counted \in BOOLEAN
        /\ (~Active(s) => was = load)
    BY <2>1 DEF Counted, Loads
  <2>8. load = [load EXCEPT !.counted = load.counted] /\ load.counted \in BOOLEAN
    BY <2>1 DEF Loads
  <2> HIDE DEF was
  <2>2. CASE Message(s)
    <3> DEFINE z == [s EXCEPT !.sent = TRUE]
    <3>1. z \in Streams /\ z.load = s.load /\ z.layer = s.layer /\ z.region = s.region
      BY <2>1 DEF Streams
    <3>2. /\ streams' = (streams \ {s}) \cup {z}
          /\ queue' = (IF Active(s) THEN queue \cup Enqueued(s) ELSE queue)
          /\ load' = was
          /\ UNCHANGED <<View, settled, covered, shown, ranged, timer, calm, playing>>
      BY <2>2 DEF Message, View, Enqueue, Enqueued, was
    <3> QED BY <2>7, <3>1, <3>2, StreamTurns
  <2>3. CASE Fail(s)
    <3> DEFINE z == [s EXCEPT !.phase = "cache"]
    <3>1. z \in Streams /\ z.load = s.load /\ z.layer = s.layer /\ z.region = s.region /\ Brings(z)
      BY <2>1 DEF Streams, Brings
    <3>2. /\ streams' = (streams \ {s}) \cup {z} /\ queue' = queue
          /\ UNCHANGED <<View, load, settled, covered, shown, ranged, timer, calm, playing>>
      BY <2>3 DEF Fail, View
    <3> QED BY <2>8, <3>1, <3>2, StreamTurns
  <2>4. CASE Done(s)
    <3>1. ~Brings(s) /\ queue' = queue /\ streams' = streams \ {s} /\ UNCHANGED View
          /\ CalmWhileRanged /\ Ended(s, load, FALSE, queue')
      BY <2>4 DEF Done, Drop, View, Brings
    <3> QED BY <2>8, <3>1, StreamEnded
  <2>5. CASE EmitFromCache(s)
    <3>1. /\ queue' = (IF Active(s) THEN queue \cup Enqueued(s) ELSE queue)
          /\ streams' = streams \ {s} /\ UNCHANGED View
          /\ CalmWhileRanged /\ Ended(s, was, FALSE, queue')
      BY <2>5 DEF EmitFromCache, Drop, View, Enqueue, Enqueued, was
    <3> QED BY <2>7, <3>1, StreamEnded
  <2>6. CASE CacheMiss(s)
    <3>1. queue' = queue /\ streams' = streams \ {s} /\ UNCHANGED View
          /\ CalmWhileRanged /\ Ended(s, load, TRUE, queue')
      BY <2>6 DEF CacheMiss, Drop, View
    <3> QED BY <2>8, <3>1, StreamEnded
  <2> QED BY <1>1, <2>2, <2>3, <2>4, <2>5, <2>6 DEF StreamStep
<1> QED BY <1>1, FrameKeeps DEF Loading

Load0 == <<token, load, settled, viewKey, filters, queue>>

(* What the user does to the view, or a playback to the streams, leaves    *)
(* the load as it is.                                                      *)
LEMMA LoaderShrinks ==
    ASSUME MarkersInv, UNCHANGED Load0, streams' \subseteq streams,
           at' \in Places, zoom' \in Zooms, enabled' \subseteq Layers, ranged' \in BOOLEAN,
           timer' \in BOOLEAN \cup {None}
    PROVE  LoaderInv'
<1>1. PageTyped /\ SettledIsOver /\ LoadIsAsked /\ LoadCounts
  BY DEF MarkersInv, LoaderInv
<1>2. PageTyped'
  BY <1>1 DEF PageTyped, Load0
<1>3. Busy' \subseteq Busy
  BY DEF Busy, Active, Load0
<1>4. LoadCounts'
  <2>1. IsFiniteSet(Busy') /\ Cardinality(Busy') <= Cardinality(Busy)
    BY <1>1, <1>3, FS_Subset DEF LoadCounts
  <2>2. Cardinality(Busy) \in Nat /\ Cardinality(Busy') \in Nat /\ load.pending \in Nat
    BY <1>1, <2>1, FS_CardinalityType DEF LoadCounts, PageTyped, Loads
  <2>3. Cardinality(Busy) <= load.pending /\ load' = load
    BY <1>1 DEF LoadCounts, Load0
  <2> QED BY <2>1, <2>2, <2>3 DEF LoadCounts
<1>5. LoadIsAsked' /\ SettledIsOver'
  BY <1>1, <1>3 DEF LoadIsAsked, SettledIsOver, Load0
<1> QED BY <1>2, <1>4, <1>5, Zenon DEF LoaderInv

(* A change of the view that the page is left to settle after sets a timer. *)
LEMMA CalmStays ==
    ASSUME MarkersInv, calm' => calm,
           UNCHANGED <<Load0, streams, covered, shown>>,
           timer' # TRUE /\ calm' => timer # TRUE /\ ranged' = ranged,
           timer' = None => timer = None /\ UNCHANGED <<at, zoom, enabled>>
    PROVE  CalmInv'
<1> SUFFICES ASSUME calm' PROVE Gathered' /\ CoveredIsShown' /\ LoadIsCurrent'
  BY DEF CalmInv
<1>1. Gathered /\ CoveredIsShown /\ LoadIsCurrent
  BY DEF MarkersInv, CalmInv
<1>2. Had' = Had /\ Due' = Due /\ Busy' = Busy
  BY DEF Had, Due, Load0, Prefetch, Busy, Active
<1>3. Gathered' /\ CoveredIsShown'
  BY <1>1, <1>2 DEF Gathered, CoveredIsShown, Load0, Based, Prefetch
<1>4. LoadIsCurrent'
  BY <1>1, <1>2 DEF LoadIsCurrent, Load0
<1> QED BY <1>3, <1>4

(* stopPlayback with the forced update that its finally asks for. *)
LEMMA StoppedKeeps ==
    ASSUME MarkersInv, NEW loops, StopAndRefresh(loops),
           UNCHANGED <<Load0, streams, covered, zoom, enabled, ranged>>,
           at' \in Places, ~active => at' = at
    PROVE  MarkersInv'
<1>1. Halt(FALSE, loops, shown) /\ (HasPlayback <=> active) /\ ~active' /\ ~paused' /\ points' = {}
  BY Halted DEF StopAndRefresh
<1>2. CASE active
  <2>1. timer' = TRUE /\ ~calm'
    BY <1>1, <1>2, Halted DEF StopAndRefresh, Debounce
  <2>2. LoaderInv'
    BY <2>1, LoaderShrinks DEF MarkersInv, LoaderInv, PageTyped
  <2> QED BY <1>1, <2>1, <2>2 DEF MarkersInv, CalmInv, PlaybackOwns
<1>3. CASE ~active
  <2>1. UNCHANGED <<timer, calm, shown, at>>
    BY <1>1, <1>3, Halted DEF StopAndRefresh
  <2>2. LoaderInv'
    BY <2>1, LoaderShrinks DEF MarkersInv, LoaderInv, PageTyped
  <2>3. CalmInv'
    BY <2>1, CalmStays
  <2> QED BY <1>1, <2>2, <2>3 DEF MarkersInv, PlaybackOwns
<1> QED BY <1>2, <1>3

(* A loop draws only while the playback goes on. *)
LEMMA DrawsActive ==
    ASSUME NEW r, NEW st
    PROVE  /\ NextPoint(r, st).drawn # {} => active
           /\ NextTrack(r, st).drawn # {} => active
           /\ AfterPoint(r, st).drawn # {} => active
           /\ Handed(r, st).drawn # {} => active
<1>1. \A z : NextPoint(r, z).drawn # {} => active
  BY DEF NextPoint, Sleep
<1>2. \A z : NextTrack(r, z).drawn # {} => active
  BY <1>1 DEF NextTrack, Sleep
<1>3. AfterPoint(r, st).drawn # {} => active
  BY <1>1, <1>2 DEF AfterPoint, Sleep
<1>4. Handed(r, st).drawn # {} => active
  BY <1>2 DEF Handed, Sleep
<1> QED BY <1>1, <1>2, <1>3, <1>4

(* A step of the playback that neither stops nor starts it. *)
LEMMA PlaysOn ==
    ASSUME MarkersInv,
           UNCHANGED <<Load0, streams, covered, shown, at, zoom, enabled, ranged, timer, calm,
                       active, paused>>,
           points' # {} => active
    PROVE  MarkersInv'
<1>1. LoaderInv'
  BY LoaderShrinks DEF MarkersInv, LoaderInv, PageTyped
<1>2. CalmInv'
  BY CalmStays
<1>3. PlaybackOwns'
  BY DEF MarkersInv, PlaybackOwns
<1> QED BY <1>1, <1>2, <1>3 DEF MarkersInv

LEMMA WakeKeeps == ASSUME MarkersInv, NEW r \in Runs, Wake(r) PROVE MarkersInv'
<1>1. PICK z, ended : Continue(r, z, ended) /\ (z.drawn # {} => active)
  <2>1. CASE Continue(r, AfterPoint(r, state[r]), feed[r].phase = "done")
    BY <2>1, DrawsActive
  <2>2. CASE Continue(r, NextTrack(r, state[r]), feed[r].phase = "done")
    BY <2>2, DrawsActive
  <2> QED BY <2>1, <2>2 DEF Wake
<1>2. Idle
  BY DEF Wake
<1>3. CASE StopAndRefresh([loop EXCEPT ![r] = z.where])
  BY <1>2, <1>3, StoppedKeeps DEF Idle, Load0, MarkersInv, LoaderInv, PageTyped
<1>4. CASE points' = points \cup z.drawn
           /\ UNCHANGED <<active, paused, shown, timer, calm>>
  <2>1. points' # {} => active
    BY <1>1, <1>4 DEF MarkersInv, PlaybackOwns
  <2> QED BY <1>2, <1>4, <2>1, PlaysOn DEF Idle, Load0
<1> QED BY <1>1, <1>3, <1>4 DEF Continue

LEMMA FeedKeeps ==
    ASSUME MarkersInv, NEW r \in Runs, TrackReady(r) \/ StreamEnds(r) \/ StreamFails(r)
    PROVE  MarkersInv'
<1>1. Idle /\ at \in Places
  BY DEF TrackReady, StreamEnds, StreamFails, MarkersInv, LoaderInv, PageTyped
<1>2. ASSUME NEW loops, StopAndRefresh(loops) PROVE MarkersInv'
  BY <1>1, <1>2, StoppedKeeps DEF Idle, Load0
<1>3. CASE TrackReady(r)
  <2> DEFINE z == Handed(current, [state[current] EXCEPT !.queue = @ + 1])
  <2>1. z.drawn # {} => active
    BY DrawsActive
  <2>2. points' = points \cup z.drawn /\ UNCHANGED <<active, paused, shown, timer, calm>>
    BY <1>3 DEF TrackReady
  <2> HIDE DEF z
  <2>3. points' # {} => active
    BY <2>1, <2>2 DEF MarkersInv, PlaybackOwns
  <2> QED BY <1>1, <2>2, <2>3, PlaysOn DEF Idle, Load0
<1>4. CASE StreamEnds(r)
  <2>1. \/ StopAndRefresh([loop EXCEPT ![current] = "over"])
        \/ UNCHANGED <<timer, shown, calm, active, paused, points>>
    BY <1>4 DEF StreamEnds
  <2>2. CASE UNCHANGED <<timer, shown, calm, active, paused, points>>
    <3>1. points' # {} => active
      BY <2>2 DEF MarkersInv, PlaybackOwns
    <3> QED BY <1>1, <2>2, <3>1, PlaysOn DEF Idle, Load0
  <2> QED BY <1>2, <2>1, <2>2
<1>5. CASE StreamFails(r)
  BY <1>2, <1>5 DEF StreamFails
<1> QED BY <1>3, <1>4, <1>5

LEMMA BeginKeeps == ASSUME MarkersInv, Begin, Rest PROVE MarkersInv'
<1>1. /\ timer' = None /\ calm' = FALSE /\ points' = {} /\ paused' = FALSE
      /\ streams' \subseteq streams
      /\ UNCHANGED <<at, zoom, enabled, ranged, Load0>>
  BY DEF Begin, ClearSurface, Rest, Load0
<1>2. LoaderInv'
  BY <1>1, LoaderShrinks DEF MarkersInv, LoaderInv, PageTyped
<1> QED BY <1>1, <1>2 DEF MarkersInv, CalmInv, PlaybackOwns

LEMMA ToggleKeeps == ASSUME MarkersInv, Toggle PROVE MarkersInv'
<1>1. Rest /\ UNCHANGED <<at, zoom, enabled, ranged, Load0>>
  BY DEF Toggle, Rest, Load0
<1>2. CASE Pause \/ Resume
  <2>1. /\ active /\ UNCHANGED <<active, timer, calm, streams, covered, shown>>
    BY <1>2 DEF Pause, Resume
  <2>2. LoaderInv'
    BY <1>1, <2>1, LoaderShrinks DEF MarkersInv, LoaderInv, PageTyped
  <2> QED BY <2>1, <2>2 DEF MarkersInv, CalmInv, PlaybackOwns
<1> QED BY <1>1, <1>2, BeginKeeps DEF Toggle

LEMMA RestartKeeps == ASSUME MarkersInv, RestartFires PROVE MarkersInv'
<1>1. Rest /\ UNCHANGED <<at, zoom, enabled, ranged, Load0>>
  BY DEF RestartFires, Rest, Load0
<1>2. CASE active \/ paused \/ slider = None
  <2>1. UNCHANGED <<active, paused, points, timer, calm, streams, covered, shown>>
    BY <1>2 DEF RestartFires
  <2>2. points' # {} => active
    BY <2>1 DEF MarkersInv, PlaybackOwns
  <2> QED BY <1>1, <2>1, <2>2, PlaysOn DEF Load0
<1>3. CASE ~(active \/ paused \/ slider = None)
  BY <1>1, <1>3, BeginKeeps DEF RestartFires
<1> QED BY <1>2, <1>3

LEMMA PanKeeps == ASSUME MarkersInv, NEW p \in Places, Pan(p) PROVE MarkersInv'
<1>1. at' \in Places /\ UNCHANGED <<Load0, streams, covered, zoom, enabled, ranged>>
  BY DEF Pan, Load0
<1>2. CASE active \/ points # {}
  <2>1. active /\ StopAndRefresh(loop)
    BY <1>2 DEF Pan, MarkersInv, PlaybackOwns
  <2> QED BY <1>1, <2>1, StoppedKeeps
<1>3. CASE ~(active \/ points # {})
  <2>1. /\ timer' = FALSE /\ calm' = (calm /\ timer # TRUE)
        /\ UNCHANGED <<active, paused, points, shown>>
    BY <1>3 DEF Pan, Debounce
  <2>2. LoaderInv'
    BY <1>1, <2>1, LoaderShrinks DEF MarkersInv, LoaderInv, PageTyped
  <2>3. CalmInv'
    BY <1>1, <2>1, MapConstants, CalmStays
  <2> QED BY <2>1, <2>2, <2>3 DEF MarkersInv, PlaybackOwns
<1> QED BY <1>2, <1>3

LEMMA ZoomKeeps == ASSUME MarkersInv, NEW z \in Zooms, Zoom(z) PROVE MarkersInv'
<1>1. zoom' \in Zooms /\ timer' = FALSE /\ UNCHANGED <<Load0, at, enabled, ranged>>
  BY DEF Zoom, Load0
<1>2. CASE active
  <2>1. active' = FALSE /\ paused' = FALSE /\ points' = {} /\ calm' = FALSE /\ streams' \subseteq streams
    BY <1>2 DEF Zoom
  <2>2. LoaderInv'
    BY <1>1, <2>1, LoaderShrinks DEF MarkersInv, LoaderInv, PageTyped
  <2> QED BY <2>1, <2>2 DEF MarkersInv, CalmInv, PlaybackOwns
<1>3. CASE ~active
  <2>1. Halt(FALSE, loop, shown) /\ calm' = (calm /\ timer # TRUE) /\ UNCHANGED <<streams, covered>>
    BY <1>3 DEF Zoom
  <2>2. ~active' /\ ~paused' /\ points' = {} /\ shown' = shown
    BY <1>3, <2>1, Halted
  <2>3. LoaderInv'
    BY <1>1, <2>1, LoaderShrinks DEF MarkersInv, LoaderInv, PageTyped
  <2>4. CalmInv'
    BY <1>1, <2>1, <2>2, MapConstants, CalmStays
  <2> QED BY <2>2, <2>3, <2>4 DEF MarkersInv, PlaybackOwns
<1> QED BY <1>2, <1>3

LEMMA TickKeeps == ASSUME MarkersInv, NEW l \in Layers, Tick(l) PROVE MarkersInv'
<1>1. /\ enabled' \subseteq Layers /\ timer' = FALSE /\ calm' = (calm /\ timer # TRUE)
      /\ UNCHANGED <<Load0, at, zoom, ranged, streams, covered, shown, active, paused, points>>
  BY DEF Tick, Load0, Debounce, playing, MarkersInv, LoaderInv, PageTyped
<1>2. LoaderInv'
  BY <1>1, LoaderShrinks DEF MarkersInv, LoaderInv, PageTyped
<1>3. CalmInv'
  BY <1>1, MapConstants, CalmStays
<1> QED BY <1>1, <1>2, <1>3 DEF MarkersInv, PlaybackOwns

LEMMA DatesKeep == ASSUME MarkersInv, MoveDates PROVE MarkersInv'
<1>1. /\ ranged' \in BOOLEAN /\ timer' = TRUE /\ (calm' => calm)
      /\ Halt(FALSE, loop, shown) /\ UNCHANGED <<Load0, at, zoom, enabled, streams, covered>>
  BY DEF MoveDates, Load0, Debounce
<1>2. LoaderInv'
  BY <1>1, LoaderShrinks DEF MarkersInv, LoaderInv, PageTyped
<1>3. ~active' /\ ~paused' /\ points' = {} /\ (active => ~calm) /\ (~active => shown' = shown)
  BY <1>1, Halted
<1>4. CalmInv'
  <2>1. CASE active
    BY <1>1, <1>3, <2>1 DEF CalmInv
  <2>2. CASE ~active
    BY <1>1, <1>3, <2>2, MapConstants, CalmStays
  <2> QED BY <2>1, <2>2
<1> QED BY <1>2, <1>3, <1>4 DEF MarkersInv, PlaybackOwns

(* updateMarkers, also while a playback goes on, which it does not touch.  *)
LEMMA UpdateKeeps ==
    ASSUME MarkersInv, NEW force \in BOOLEAN, NEW left \in BOOLEAN \cup {None},
           force \/ timer # TRUE, UpdateMarkers(force, left)
    PROVE  MarkersInv'
<1>1. CASE ~active
  BY <1>1, MapUpdated DEF UpdateMarkers
<1>2. CASE active
  <2>1. /\ token' = token + 1 /\ settled' = TRUE /\ queue' = {}
        /\ load' = [load EXCEPT !.finalized = TRUE] /\ ~calm'
        /\ timer' = left
        /\ UNCHANGED <<at, zoom, enabled, ranged, viewKey, filters, streams, active, paused, points>>
    BY <1>2 DEF UpdateMarkers, MarkersInv, PlaybackOwns, playing
  <2>2. PageTyped /\ LoadCounts /\ LoadIsAsked
    BY DEF MarkersInv, LoaderInv
  <2>3. load' \in Loads /\ load'.at = load.at /\ load'.zoom = load.zoom /\ load'.pending = load.pending
        /\ load'.finalized = TRUE
    BY <2>1, <2>2 DEF PageTyped, Loads
  <2>4. Busy' = {}
    BY <2>1, <2>2 DEF Busy, Active, PageTyped, Streams
  <2>5. PageTyped'
    BY <2>1, <2>2, <2>3 DEF PageTyped, Streams
  <2>6. LoadCounts'
    BY <2>3, <2>4, FS_EmptySet DEF LoadCounts, Loads
  <2>7. SettledIsOver' /\ LoadIsAsked'
    BY <2>1, <2>2, <2>3, <2>4 DEF SettledIsOver, LoadIsAsked
  <2>8. LoaderInv'
    BY <2>5, <2>6, <2>7, Zenon DEF LoaderInv
  <2> QED BY <2>1, <2>8 DEF MarkersInv, CalmInv, PlaybackOwns
<1> QED BY <1>1, <1>2

LEMMA MarkersStep == ASSUME MarkersInv, Next PROVE MarkersInv'
<1>1. ASSUME Refresh PROVE MarkersInv'
  BY <1>1, UpdateKeeps DEF Refresh, MarkersInv, LoaderInv, PageTyped
<1>2. ASSUME TimerFires PROVE MarkersInv'
  <2>1. timer \in BOOLEAN
    BY <1>2 DEF TimerFires, MarkersInv, LoaderInv, PageTyped
  <2> QED BY <1>2, <2>1, UpdateKeeps DEF TimerFires
<1>3. CASE Act
  BY <1>1, <1>3, PanKeeps, ZoomKeeps, TickKeeps, DatesKeep, ToggleKeeps DEF Act
<1>4. CASE GoOn
  BY <1>2, <1>4, LoadingKeeps, RestartKeeps, WakeKeeps, FeedKeeps DEF GoOn, Load, Play
<1> QED BY <1>3, <1>4 DEF Next

LEMMA MarkersStart == ASSUME Init PROVE MarkersInv
<1>1. /\ at \in Places /\ zoom \in Zooms /\ enabled = Layers /\ ranged = FALSE /\ timer = FALSE
      /\ token = 0 /\ load = NoLoad /\ settled = TRUE
      /\ viewKey = None /\ filters = None /\ covered = None
      /\ streams = {} /\ queue = {} /\ shown = {}
      /\ active = FALSE /\ paused = FALSE /\ points = {}
  BY MapConstants DEF Init, LoaderInit
<1>2. load \in Loads /\ load.pending = 0 /\ load.finalized = TRUE /\ load.ranged = FALSE
  BY <1>1 DEF NoLoad, Loads
<1>3. Busy = {} /\ Had = {} /\ Due = {}
  BY <1>1 DEF Busy, Had, Due
<1>4. LoaderInv
  <2>1. PageTyped
    BY <1>1, <1>2 DEF PageTyped
  <2>2. LoadCounts
    BY <1>2, <1>3, FS_EmptySet DEF LoadCounts
  <2>3. SettledIsOver /\ LoadIsAsked
    BY <1>1, <1>2, <1>3 DEF SettledIsOver, LoadIsAsked
  <2> QED BY <2>1, <2>2, <2>3 DEF LoaderInv
<1>5. CalmInv
  BY <1>1, <1>2, <1>3, MapConstants DEF CalmInv, Gathered, CoveredIsShown, LoadIsCurrent
<1> QED BY <1>1, <1>4, <1>5 DEF MarkersInv, PlaybackOwns

LEMMA MarkersInvariant == PageSpec => []MarkersInv
<1>1. PageInit => MarkersInv
  BY MarkersStart DEF PageInit
<1>2. MarkersInv /\ [PageNext]_pageVars => MarkersInv'
  <2> SUFFICES ASSUME MarkersInv, [PageNext]_pageVars PROVE MarkersInv'
    OBVIOUS
  <2>1. CASE Next
    BY <2>1, MarkersStep
  <2>2. CASE UNCHANGED vars
    BY <2>2, PlaysOn DEF vars, loaderVars, playing, Load0, MarkersInv, PlaybackOwns
  <2> QED BY <2>1, <2>2 DEF PageNext, MovePlayback, MoveBase, InPlayback, pageVars
<1> QED BY <1>1, <1>2, PTL DEF PageSpec

(* Left to settle between one change and the next, the page of the map     *)
(* shows exactly the markers of its view.                                  *)
THEOREM CalmViewIsExact == PageSpec => []CalmViewExact
BY MarkersInvariant, ExactAtRest, PTL

(* Playback points are on the map only while a playback goes on.           *)
THEOREM PointsNeedPlayback == PageSpec => []PointsOnlyWhilePlaying
<1>1. MarkersInv => PointsOnlyWhilePlaying
  BY DEF MarkersInv, PlaybackOwns, PointsOnlyWhilePlaying
<1> QED BY <1>1, MarkersInvariant, PTL
=============================================================================
