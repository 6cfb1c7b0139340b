-------------------------- MODULE SpotPanel_proofs --------------------------
(***************************************************************************)
(* Theorems about SpotPanel, and with it about Ocean and Outlook, whose    *)
(* steps it composes: for any spots, times, model runs, days, period, time *)
(* limit and instances that their assumptions admit.                       *)
(***************************************************************************)
EXTENDS SpotPanel, FiniteSetTheorems, WellFoundedInduction, TLAPS

-----------------------------------------------------------------------------
(* The view: what holds of each canvas *)

Waves == [mounted : BOOLEAN, playing : BOOLEAN, expanded : BOOLEAN]

\* A canvas that is not rendered: its cleanup is due, or it has no ocean.
Off(k) == k.due = "remove" \/ (k.due = "none" /\ k.ocean # "live")

Rendering(c, w) == w.mounted /\ (c = "dialog" => w.expanded)

Single(k) == k.frames <= (IF k.ocean = "live" THEN 1 ELSE 0)

Asking(k, c, w, h) ==
    k.ocean = "live" /\ ~k.lost /\ k.visible /\ w.playing /\ Enabled(c, w) /\ ~h

Fine(k, c, w, h) ==
    /\ Single(k)
    /\ c = "preview" /\ w.expanded => k.frames = 0
    /\ Asking(k, c, w, h) => k.frames > 0
    /\ ~Rendering(c, w) => Off(k)

OceanInv ==
    /\ OceanTypeOK
    /\ \A c \in Canvases : Fine(canvas[c], c, wave, hidden)
    /\ wave.expanded => wave.mounted
    /\ gpu = strays + ProgramsOf("preview") + ProgramsOf("dialog")

LEMMA BlankIsEmpty ==
  Blank \in Canvas /\ Blank.ocean = "none" /\ Blank.frames = 0 /\ Blank.due = "none"
BY DEF Blank, Canvas

LEMMA OceanInvInit == OceanInit => OceanInv
<1> SUFFICES ASSUME OceanInit PROVE OceanInv
  OBVIOUS
<1>1. Blank \in Canvas /\ Blank.ocean = "none" /\ Blank.frames = 0 /\ Blank.due = "none"
  BY BlankIsEmpty
<1>2. canvas \in [Canvases -> Canvas] /\ \A c \in Canvases : canvas[c] = Blank
  BY <1>1 DEF OceanInit
<1>3. OceanTypeOK
  <2>1. wave \in [mounted : BOOLEAN, playing : BOOLEAN, expanded : BOOLEAN]
    BY DEF OceanInit
  <2>2. hidden \in BOOLEAN
    BY DEF OceanInit
  <2>3. gpu \in Nat /\ strays \in 0..MaxStrays
    BY OceanAssumption DEF OceanInit
  <2> QED
    BY <1>2, <2>1, <2>2, <2>3 DEF OceanTypeOK
<1>4. \A c \in Canvases : Fine(canvas[c], c, wave, hidden)
  BY <1>1, <1>2 DEF Fine, Single, Asking, Off
<1> QED
  BY <1>1, <1>2, <1>3, <1>4 DEF OceanInit, OceanInv, ProgramsOf, Canvases

LEMMA CancelledFrame ==
  ASSUME NEW k \in Canvas, Single(k)
  PROVE  /\ Cancelled(k) \in Canvas /\ Cancelled(k).frames = 0
         /\ Cancelled(k) = [k EXCEPT !.frames = 0]
<1>1. k.frames \in 0..2 /\ k.frames <= 1
  BY DEF Canvas, Single
<1>2. PICK n : n = IF k.frames = 0 THEN 0 ELSE k.frames - 1
  OBVIOUS
<1>3. n = 0
  BY <1>1, <1>2
<1>4. Cancelled(k) = [k EXCEPT !.frames = n]
  BY <1>2 DEF Cancelled
<1> QED
  BY <1>3, <1>4 DEF Canvas

\* A redraw leaves the one frame that the canvas asks for, whatever was on its
\* way before.
LEMMA RedrawnFrame ==
  ASSUME NEW k \in Canvas, Single(k), NEW enabled
  PROVE  /\ Redrawn(k, enabled) \in Canvas
         /\ Redrawn(k, enabled) = [k EXCEPT !.frames = IF k.ocean = "live" /\ enabled THEN 1 ELSE 0]
<1>1. Cancelled(k) = [k EXCEPT !.frames = 0]
  BY CancelledFrame
<1>2. CASE k.ocean # "live"
  <2>1. k.frames = 0
    BY <1>2 DEF Single, Canvas
  <2>2. k = [k EXCEPT !.frames = 0]
    BY <2>1 DEF Canvas
  <2> QED
    BY <1>2, <2>2 DEF Redrawn
<1>3. CASE k.ocean = "live" /\ enabled
  <2>1. Redrawn(k, enabled) = [k EXCEPT !.frames = 1]
    <3>1. PICK j : j = [k EXCEPT !.frames = 0]
      OBVIOUS
    <3>2. Redrawn(k, enabled) = [j EXCEPT !.frames = j.frames + 1]
      BY <1>1, <1>3, <3>1 DEF Redrawn
    <3>3. j.frames = 0
      BY <3>1 DEF Canvas
    <3>4. Redrawn(k, enabled) = [j EXCEPT !.frames = 1]
      BY <3>2, <3>3
    <3> QED
      BY <3>1, <3>4 DEF Canvas
  <2>2. [k EXCEPT !.frames = 1] \in Canvas
    BY DEF Canvas
  <2> QED
    BY <1>3, <2>1, <2>2
<1>4. CASE k.ocean = "live" /\ ~enabled
  BY <1>1, <1>4, CancelledFrame DEF Redrawn
<1> QED
  BY <1>2, <1>3, <1>4

LEMMA RedrawnIsFine ==
  ASSUME NEW k \in Canvas, Single(k), NEW c, NEW w, NEW h, ~Rendering(c, w) => Off(k)
  PROVE  /\ Redrawn(k, Enabled(c, w)) \in Canvas
         /\ Redrawn(k, Enabled(c, w)).ocean = k.ocean
         /\ Redrawn(k, Enabled(c, w)).due = k.due
         /\ Fine(Redrawn(k, Enabled(c, w)), c, w, h)
<1>1. PICK n \in {0, 1} : n = IF k.ocean = "live" /\ Enabled(c, w) THEN 1 ELSE 0
  OBVIOUS
<1>2. PICK j : j = Redrawn(k, Enabled(c, w))
  OBVIOUS
<1>3. j \in Canvas /\ j = [k EXCEPT !.frames = n]
  BY <1>1, <1>2, RedrawnFrame
<1>4. j.frames = n /\ j.ocean = k.ocean /\ j.due = k.due
  BY <1>3 DEF Canvas
<1>5. Fine(j, c, w, h)
  BY <1>1, <1>4 DEF Fine, Single, Asking, Off, Enabled
<1> QED
  BY <1>2, <1>3, <1>4, <1>5

-----------------------------------------------------------------------------
(* The view: its steps *)

\* A step after which every canvas is fine and has an ocean if it had one.
LEMMA OceansStay ==
  ASSUME OceanInv, wave' \in Waves, wave'.expanded => wave'.mounted, hidden' \in BOOLEAN,
         UNCHANGED <<gpu, strays>>,
         canvas' \in [Canvases -> Canvas],
         \A c \in Canvases :
             /\ Fine(canvas'[c], c, wave', hidden')
             /\ canvas'[c].ocean = "live" <=> canvas[c].ocean = "live"
  PROVE  OceanInv'
<1>1. OceanTypeOK'
  BY DEF OceanInv, OceanTypeOK, Waves
<1>2. ProgramsOf("preview")' = ProgramsOf("preview") /\ ProgramsOf("dialog")' = ProgramsOf("dialog")
  BY DEF ProgramsOf, Canvases
<1>3. gpu' = strays' + ProgramsOf("preview")' + ProgramsOf("dialog")'
  BY <1>2 DEF OceanInv
<1> QED
  BY <1>1, <1>3 DEF OceanInv

\* A step of one canvas that leaves its ocean.
LEMMA OneCanvas ==
  ASSUME OceanInv, NEW c \in Canvases, NEW k \in Canvas, canvas' = [canvas EXCEPT ![c] = k],
         k.ocean = canvas[c].ocean, Fine(k, c, wave, hidden), UNCHANGED <<wave, hidden, gpu, strays>>
  PROVE  OceanInv'
<1>1. canvas' \in [Canvases -> Canvas]
  BY DEF OceanInv, OceanTypeOK
<1>2. \A d \in Canvases :
        /\ Fine(canvas'[d], d, wave', hidden')
        /\ canvas'[d].ocean = "live" <=> canvas[d].ocean = "live"
  BY DEF OceanInv, OceanTypeOK
<1>3. wave' \in Waves /\ hidden' \in BOOLEAN /\ (wave'.expanded => wave'.mounted)
  BY DEF OceanInv, OceanTypeOK, Waves
<1> QED
  BY <1>1, <1>2, <1>3, OceansStay
LEMMA FrameStep ==
  ASSUME OceanInv, NEW c \in Canvases,
         Draw(c) \/ Resize(c) \/ ContextLost(c) \/ \E visible \in BOOLEAN : Intersect(c, visible)
  PROVE  OceanInv'
<1>0. PICK k \in Canvas : k = canvas[c] /\ Fine(k, c, wave, hidden) /\ Single(k)
  BY DEF OceanInv, OceanTypeOK, Fine
<1>1. UNCHANGED <<wave, hidden, gpu, strays>>
  BY DEF Draw, Resize, ContextLost, Intersect
<1>2. SUFFICES \E j \in Canvas :
                 canvas' = [canvas EXCEPT ![c] = j] /\ j.ocean = k.ocean /\ Fine(j, c, wave, hidden)
  BY <1>0, <1>1, OneCanvas
<1>3. CASE Draw(c)
  <2>1. PICK n \in {0, 1} : n = IF Animating(c, wave, hidden) THEN 1 ELSE 0
    OBVIOUS
  <2>2. PICK j : j = [k EXCEPT !.frames = n]
    OBVIOUS
  <2>3. j \in Canvas /\ j.frames = n /\ j.ocean = k.ocean /\ j.visible = k.visible /\ j.lost = k.lost
        /\ j.due = k.due
    BY <2>2 DEF Canvas
  <2>4. canvas' = [canvas EXCEPT ![c] = j]
    <3>1. canvas' = [canvas EXCEPT ![c].frames = n]
      BY <1>3, <2>1 DEF Draw
    <3> QED
      BY <1>0, <2>2, <3>1
  <2>5. k.frames > 0
    BY <1>0, <1>3 DEF Draw
  <2>6. k.ocean = "live"
    BY <1>0, <2>5 DEF Single, Canvas
  <2>7. Fine(j, c, wave, hidden)
    BY <1>0, <2>1, <2>3, <2>5, <2>6 DEF Fine, Single, Asking, Off, Animating
  <2> QED
    BY <2>3, <2>4, <2>7
<1>4. CASE Resize(c)
  <2>1. canvas' = [canvas EXCEPT ![c] = Redrawn(k, Enabled(c, wave))]
    BY <1>0, <1>4 DEF Resize
  <2>2. ~Rendering(c, wave) => Off(k)
    BY <1>0 DEF Fine
  <2> QED
    BY <1>0, <2>1, <2>2, RedrawnIsFine
<1>5. CASE ContextLost(c)
  <2>1. PICK i, j : i = Cancelled(k) /\ j = [i EXCEPT !.lost = TRUE]
    OBVIOUS
  <2>2. canvas' = [canvas EXCEPT ![c] = j]
    BY <1>0, <1>5, <2>1 DEF ContextLost
  <2>3. i \in Canvas /\ i = [k EXCEPT !.frames = 0]
    BY <1>0, <2>1, CancelledFrame
  <2>4. i.frames = 0 /\ i.ocean = k.ocean /\ i.due = k.due
    BY <2>3 DEF Canvas
  <2>5. j \in Canvas /\ j.frames = 0 /\ j.ocean = k.ocean /\ j.lost = TRUE /\ j.due = k.due
    BY <2>1, <2>3, <2>4 DEF Canvas
  <2>6. Fine(j, c, wave, hidden)
    BY <1>0, <2>5 DEF Fine, Single, Asking, Off
  <2> QED
    BY <2>2, <2>5, <2>6
<1>6. ASSUME NEW visible \in BOOLEAN, Intersect(c, visible)
      PROVE  \E j \in Canvas :
               canvas' = [canvas EXCEPT ![c] = j] /\ j.ocean = k.ocean /\ Fine(j, c, wave, hidden)
  <2>1. PICK l : l = [k EXCEPT !.visible = visible]
    OBVIOUS
  <2>2. l \in Canvas /\ l.frames = k.frames /\ l.ocean = k.ocean /\ l.visible = visible /\ l.due = k.due
    BY <2>1 DEF Canvas
  <2>3. Single(l) /\ (~Rendering(c, wave) => Off(l))
    BY <1>0, <2>2 DEF Single, Fine, Off
  <2>4. canvas' = [canvas EXCEPT ![c] = IF visible THEN Redrawn(l, Enabled(c, wave)) ELSE Cancelled(l)]
    BY <1>0, <1>6, <2>1 DEF Intersect
  <2>5. CASE visible
    BY <2>2, <2>3, <2>4, <2>5, RedrawnIsFine
  <2>6. CASE ~visible
    <3>1. PICK j : j = Cancelled(l)
      OBVIOUS
    <3>2. j = [l EXCEPT !.frames = 0] /\ j \in Canvas
      BY <2>2, <2>3, <3>1, CancelledFrame
    <3>3. j.frames = 0 /\ j.ocean = k.ocean /\ j.visible = visible /\ j.due = k.due
      BY <2>2, <3>2 DEF Canvas
    <3>4. Fine(j, c, wave, hidden)
      BY <1>0, <2>6, <3>3 DEF Fine, Single, Asking, Off
    <3>5. canvas' = [canvas EXCEPT ![c] = j]
      BY <2>4, <2>6, <3>1
    <3> QED
      BY <3>2, <3>3, <3>4, <3>5
  <2> QED
    BY <2>5, <2>6
<1> QED
  BY <1>3, <1>4, <1>5, <1>6

LEMMA VisibilityStep ==
  ASSUME OceanInv, VisibilityChange
  PROVE  OceanInv'
<1>1. /\ canvas' = [c \in Canvases |-> Redrawn(canvas[c], Enabled(c, wave))]
      /\ UNCHANGED <<wave, gpu, strays>>
  BY DEF VisibilityChange
<1>2. hidden' \in BOOLEAN
  BY DEF VisibilityChange
<1>3. \A c \in Canvases : canvas[c] \in Canvas /\ Single(canvas[c]) /\ (~Rendering(c, wave) => Off(canvas[c]))
  BY DEF OceanInv, OceanTypeOK, Fine
<1>4. \A c \in Canvases :
        /\ Redrawn(canvas[c], Enabled(c, wave)) \in Canvas
        /\ Redrawn(canvas[c], Enabled(c, wave)).ocean = canvas[c].ocean
        /\ Fine(Redrawn(canvas[c], Enabled(c, wave)), c, wave, hidden')
  BY <1>3, RedrawnIsFine
<1>5. wave' \in Waves /\ (wave'.expanded => wave'.mounted)
  BY <1>1 DEF OceanInv, OceanTypeOK, Waves
<1> QED
  BY <1>1, <1>2, <1>4, <1>5, OceansStay

\* A click leaves a canvas that is not redrawn as the step made it, and one that
\* is redrawn with the frame it asks for.
LEMMA ClickStep ==
  ASSUME OceanInv, NEW w \in Waves, w.mounted, NEW next \in [Canvases -> Canvas], Click(w, next),
         \A c \in Canvases :
             /\ Single(next[c])
             /\ ~Rendering(c, w) => Off(next[c])
             /\ next[c].ocean = "live" <=> canvas[c].ocean = "live"
             /\ ~Toggled(w, c) => Fine(next[c], c, w, hidden)
  PROVE  OceanInv'
<1>1. /\ canvas' = [c \in Canvases |-> IF Toggled(w, c) THEN Redrawn(next[c], Enabled(c, w)) ELSE next[c]]
      /\ wave' = w /\ UNCHANGED <<hidden, gpu, strays>>
  BY DEF Click
<1>2. ASSUME NEW c \in Canvases
      PROVE  /\ Redrawn(next[c], Enabled(c, w)) \in Canvas
             /\ Redrawn(next[c], Enabled(c, w)).ocean = next[c].ocean
             /\ Fine(Redrawn(next[c], Enabled(c, w)), c, w, hidden)
  BY <1>2, RedrawnIsFine
<1>3. canvas' \in [Canvases -> Canvas]
  BY <1>1, <1>2
<1>4. ASSUME NEW c \in Canvases
      PROVE  Fine(canvas'[c], c, w, hidden) /\ (canvas'[c].ocean = "live" <=> canvas[c].ocean = "live")
  <2>1. CASE Toggled(w, c)
    BY <1>1, <1>2, <2>1
  <2>2. CASE ~Toggled(w, c)
    BY <1>1, <2>2
  <2> QED
    BY <2>1, <2>2
<1>5. hidden' \in BOOLEAN
  BY <1>1 DEF OceanInv, OceanTypeOK
<1> QED
  BY <1>1, <1>3, <1>4, <1>5, OceansStay

LEMMA TogglePlayingStep ==
  ASSUME OceanInv, TogglePlaying
  PROVE  OceanInv'
<1>1. PICK w : w = [wave EXCEPT !.playing = ~wave.playing]
  OBVIOUS
<1>2. wave \in Waves /\ wave.mounted
  BY DEF OceanInv, OceanTypeOK, Waves, TogglePlaying, Click
<1>3. w \in Waves /\ w.mounted = wave.mounted /\ w.expanded = wave.expanded /\ w.playing # wave.playing
  BY <1>1, <1>2 DEF Waves
<1>4. Click(w, canvas)
  BY <1>1 DEF TogglePlaying
<1>5. \A c \in Canvases : Toggled(w, c)
  BY <1>3 DEF Toggled
<1>6. \A c \in Canvases : Single(canvas[c]) /\ (~Rendering(c, w) => Off(canvas[c]))
  BY <1>3 DEF OceanInv, Fine, Rendering
<1>7. canvas \in [Canvases -> Canvas]
  BY DEF OceanInv, OceanTypeOK
<1> QED
  BY <1>2, <1>3, <1>4, <1>5, <1>6, <1>7, ClickStep
LEMMA ExpandStep ==
  ASSUME OceanInv, Expand
  PROVE  OceanInv'
<1>1. PICK w : w = [wave EXCEPT !.expanded = TRUE]
  OBVIOUS
<1>2. PICK blank : blank = [Blank EXCEPT !.due = "renew"]
  OBVIOUS
<1>3. PICK next : next = [canvas EXCEPT !["dialog"] = blank]
  OBVIOUS
<1>4. wave \in Waves /\ wave.mounted /\ ~wave.expanded /\ Rendered
  BY DEF OceanInv, OceanTypeOK, Waves, Expand, Click
<1>5. w \in Waves /\ w.mounted = wave.mounted /\ w.expanded = TRUE /\ w.playing = wave.playing
  BY <1>1, <1>4 DEF Waves
<1>6. Click(w, next)
  BY <1>1, <1>2, <1>3 DEF Expand
<1>7. blank \in Canvas /\ blank.ocean = "none" /\ blank.frames = 0
  BY <1>2, BlankIsEmpty DEF Canvas
<1>8. canvas \in [Canvases -> Canvas] /\ "dialog" \in Canvases
  BY DEF OceanInv, OceanTypeOK, Canvases
<1>9. next \in [Canvases -> Canvas] /\ next["dialog"] = blank
      /\ \A c \in Canvases : c # "dialog" => next[c] = canvas[c]
  BY <1>3, <1>7, <1>8
<1>10. canvas["dialog"].ocean # "live"
  BY <1>4, <1>8 DEF OceanInv, Fine, Rendering, Off, Rendered
<1>11. Toggled(w, "preview")
  BY <1>4, <1>5 DEF Toggled, Enabled
<1>12. ASSUME NEW c \in Canvases
       PROVE  /\ Single(next[c])
              /\ ~Rendering(c, w) => Off(next[c])
              /\ next[c].ocean = "live" <=> canvas[c].ocean = "live"
              /\ ~Toggled(w, c) => Fine(next[c], c, w, hidden)
  <2>1. CASE c = "dialog"
    BY <1>4, <1>5, <1>7, <1>9, <1>10, <2>1 DEF Single, Rendering, Fine, Asking
  <2>2. CASE c = "preview"
    BY <1>4, <1>5, <1>9, <1>11, <2>2 DEF OceanInv, Fine, Rendering
  <2> QED
    BY <2>1, <2>2 DEF Canvases
<1> QED
  BY <1>4, <1>5, <1>6, <1>9, <1>12, ClickStep

LEMMA CollapseStep ==
  ASSUME OceanInv, Collapse
  PROVE  OceanInv'
<1>1. PICK w : w = [wave EXCEPT !.expanded = FALSE]
  OBVIOUS
<1>2. PICK next : next = [canvas EXCEPT !["dialog"].due = "remove"]
  OBVIOUS
<1>3. wave \in Waves /\ wave.mounted /\ wave.expanded
  BY DEF OceanInv, OceanTypeOK, Waves, Collapse, Click
<1>4. w \in Waves /\ w.mounted = wave.mounted /\ w.expanded = FALSE /\ w.playing = wave.playing
  BY <1>1, <1>3 DEF Waves
<1>5. Click(w, next)
  BY <1>1, <1>2 DEF Collapse
<1>6. canvas \in [Canvases -> Canvas] /\ "dialog" \in Canvases
  BY DEF OceanInv, OceanTypeOK, Canvases
<1>7. PICK k : k = [canvas["dialog"] EXCEPT !.due = "remove"]
  OBVIOUS
<1>8. k \in Canvas /\ k.due = "remove" /\ k.frames = canvas["dialog"].frames
      /\ k.ocean = canvas["dialog"].ocean /\ k.lost = canvas["dialog"].lost
      /\ k.visible = canvas["dialog"].visible
  BY <1>6, <1>7 DEF Canvas
<1>9. next \in [Canvases -> Canvas] /\ next["dialog"] = k
      /\ \A c \in Canvases : c # "dialog" => next[c] = canvas[c]
  BY <1>2, <1>6, <1>7, <1>8
<1>10. Toggled(w, "preview")
  BY <1>3, <1>4 DEF Toggled, Enabled
<1>11. Fine(canvas["dialog"], "dialog", wave, hidden) /\ Fine(canvas["preview"], "preview", wave, hidden)
  BY DEF OceanInv, Canvases
<1>12. ASSUME NEW c \in Canvases
       PROVE  /\ Single(next[c])
              /\ ~Rendering(c, w) => Off(next[c])
              /\ next[c].ocean = "live" <=> canvas[c].ocean = "live"
              /\ ~Toggled(w, c) => Fine(next[c], c, w, hidden)
  <2>1. CASE c = "dialog"
    <3>1. Single(k) /\ Off(k)
      BY <1>8, <1>11 DEF Fine, Single, Off
    <3>2. Fine(k, c, w, hidden)
      BY <1>4, <1>8, <1>11, <2>1, <3>1 DEF Fine, Asking, Enabled
    <3> QED
      BY <1>8, <1>9, <2>1, <3>1, <3>2
  <2>2. CASE c = "preview"
    BY <1>3, <1>4, <1>9, <1>10, <1>11, <2>2 DEF Fine, Rendering
  <2> QED
    BY <2>1, <2>2 DEF Canvases
<1> QED
  BY <1>3, <1>4, <1>5, <1>9, <1>12, ClickStep

LEMMA ShowPointStep ==
  ASSUME OceanInv, NEW playing \in BOOLEAN, ShowPoint(playing)
  PROVE  OceanInv'
<1>0. wave \in Waves /\ canvas \in [Canvases -> Canvas] /\ hidden \in BOOLEAN /\ Rendered
  BY DEF OceanInv, OceanTypeOK, Waves, ShowPoint
<1>1. UNCHANGED <<hidden, gpu, strays>>
  BY DEF ShowPoint
<1>2. wave' \in Waves /\ (wave'.expanded => wave'.mounted) /\ (wave'.expanded <=> wave.expanded)
      /\ wave'.mounted
  <2>1. CASE wave.mounted
    BY <1>0, <2>1 DEF ShowPoint, OceanInv
  <2>2. CASE ~wave.mounted
    <3>1. wave' = [mounted |-> TRUE, playing |-> playing, expanded |-> FALSE]
      BY <2>2 DEF ShowPoint
    <3>2. ~wave.expanded
      BY <2>2 DEF OceanInv
    <3> QED
      BY <3>1, <3>2 DEF Waves
  <2> QED
    BY <2>1, <2>2
<1>3. ASSUME NEW c \in Canvases
      PROVE  canvas'[c] \in Canvas /\ canvas'[c].ocean = canvas[c].ocean /\ Fine(canvas'[c], c, wave', hidden')
  <2>1. PICK k \in Canvas : k = canvas[c] /\ Fine(k, c, wave, hidden) /\ k.due = "none"
    BY <1>0 DEF OceanInv, Rendered
  <2>2. PICK j : j = [k EXCEPT !.due = "renew"]
    OBVIOUS
  <2>3. j \in Canvas /\ j.frames = k.frames /\ j.ocean = k.ocean /\ j.lost = k.lost /\ j.visible = k.visible
    BY <2>2 DEF Canvas
  <2>4. canvas'[c] = IF c = "preview" \/ wave.expanded THEN j ELSE k
    BY <2>1, <2>2 DEF ShowPoint
  <2>5. canvas'[c] \in Canvas /\ Single(canvas'[c]) /\ canvas'[c].ocean = k.ocean
        /\ canvas'[c].frames = k.frames /\ canvas'[c].lost = k.lost /\ canvas'[c].visible = k.visible
    BY <2>1, <2>3, <2>4 DEF Fine, Single
  <2>6. ~Rendering(c, wave') => Off(canvas'[c])
    <3>1. CASE c = "preview" \/ wave.expanded
      BY <1>2, <3>1 DEF Rendering, Canvases
    <3>2. CASE ~(c = "preview" \/ wave.expanded)
      BY <2>1, <2>4, <3>2 DEF Fine, Rendering, Canvases
    <3> QED
      BY <3>1, <3>2
  <2>7. Asking(canvas'[c], c, wave', hidden') => k.frames > 0
    <3>1. CASE wave.mounted
      <4>1. wave' = wave /\ hidden' = hidden
        BY <1>1, <3>1 DEF ShowPoint
      <4> QED
        BY <2>1, <2>5, <4>1 DEF Fine, Asking
    <3>2. CASE ~wave.mounted
      <4>1. k.ocean # "live"
        BY <2>1, <3>2 DEF Fine, Rendering, Off
      <4> QED
        BY <2>5, <4>1 DEF Asking
    <3> QED
      BY <3>1, <3>2
  <2>8. c = "preview" /\ wave'.expanded => k.frames = 0
    BY <1>2, <2>1 DEF Fine
  <2> QED
    BY <2>1, <2>5, <2>6, <2>7, <2>8 DEF Fine
<1>4. canvas' \in [Canvases -> Canvas]
  <2>1. canvas' = [c \in Canvases |-> canvas'[c]]
    BY DEF ShowPoint
  <2> QED
    BY <1>3, <2>1
<1>5. hidden' \in BOOLEAN
  BY <1>0, <1>1
<1> QED
  BY <1>1, <1>2, <1>3, <1>4, <1>5, OceansStay

LEMMA ShowNoPointStep ==
  ASSUME OceanInv, ShowNoPoint
  PROVE  OceanInv'
<1>0. canvas \in [Canvases -> Canvas] /\ hidden \in BOOLEAN /\ Rendered
  BY DEF OceanInv, OceanTypeOK, ShowNoPoint
<1>1. UNCHANGED <<hidden, gpu, strays>>
  BY DEF ShowNoPoint
<1>2. wave' \in Waves /\ wave'.expanded = FALSE /\ wave'.playing = FALSE
  BY DEF ShowNoPoint, Waves
<1>3. ASSUME NEW c \in Canvases
      PROVE  canvas'[c] \in Canvas /\ canvas'[c].ocean = canvas[c].ocean /\ Fine(canvas'[c], c, wave', hidden')
  <2>1. PICK k \in Canvas : k = canvas[c] /\ Fine(k, c, wave, hidden)
    BY <1>0 DEF OceanInv
  <2>2. PICK j : j = [k EXCEPT !.due = "remove"]
    OBVIOUS
  <2>3. j \in Canvas /\ j.frames = k.frames /\ j.ocean = k.ocean /\ j.due = "remove"
    BY <2>2 DEF Canvas
  <2>4. canvas'[c] = IF k = Blank THEN Blank ELSE j
    BY <2>1, <2>2 DEF ShowNoPoint
  <2>5. Off(canvas'[c])
    BY <2>3, <2>4 DEF Off, Blank
  <2>6. canvas'[c] \in Canvas /\ canvas'[c].frames = k.frames /\ canvas'[c].ocean = k.ocean
    BY <2>3, <2>4
  <2>7. ~Asking(canvas'[c], c, wave', hidden')
    BY <1>2 DEF Asking
  <2> QED
    BY <1>2, <2>1, <2>5, <2>6, <2>7 DEF Fine, Single
<1>4. canvas' \in [Canvases -> Canvas]
  <2>1. canvas' = [c \in Canvases |-> canvas'[c]]
    BY DEF ShowNoPoint
  <2> QED
    BY <1>3, <2>1
<1>5. hidden' \in BOOLEAN
  BY <1>0, <1>1
<1> QED
  BY <1>1, <1>2, <1>3, <1>4, <1>5, OceansStay
\* The cleanup of a canvas leaves it blank.
LEMMA DisposedIsBlank ==
  ASSUME OceanInv, NEW c \in Canvases
  PROVE  Disposed(c) \in Canvas /\ Disposed(c).frames = 0 /\ Disposed(c).ocean = "none" /\ Disposed(c).due = "none"
<1>1. canvas[c] \in Canvas /\ Single(canvas[c])
  BY DEF OceanInv, OceanTypeOK, Fine
<1>2. Cancelled(canvas[c]).frames = 0
  BY <1>1, CancelledFrame
<1>3. Disposed(c) = [Blank EXCEPT !.frames = 0]
  BY <1>2 DEF Disposed
<1> QED
  BY <1>3, BlankIsEmpty DEF Canvas

\* A step of one canvas that gives it another ocean, or none.
LEMMA OceanChanges ==
  ASSUME OceanInv, NEW c \in Canvases, NEW j \in Canvas, canvas' = [canvas EXCEPT ![c] = j],
         Fine(j, c, wave, hidden), UNCHANGED <<wave, hidden>>,
         NEW n \in Nat, strays' = strays + n, strays' <= MaxStrays,
         gpu' = gpu - ProgramsOf(c) + n + (IF j.ocean = "live" THEN 1 ELSE 0)
  PROVE  OceanInv'
<1>0. /\ canvas \in [Canvases -> Canvas] /\ gpu \in Nat /\ strays \in 0..MaxStrays /\ MaxStrays \in Nat
      /\ gpu = strays + ProgramsOf("preview") + ProgramsOf("dialog")
      /\ Canvases = {"preview", "dialog"}
  BY OceanAssumption DEF OceanInv, OceanTypeOK, Canvases
<1>1. canvas' \in [Canvases -> Canvas] /\ canvas'[c] = j /\ \A d \in Canvases : d # c => canvas'[d] = canvas[d]
  BY <1>0
<1>2. /\ ProgramsOf(c)' = (IF j.ocean = "live" THEN 1 ELSE 0)
      /\ \A d \in Canvases : d # c => ProgramsOf(d)' = ProgramsOf(d)
  BY <1>1 DEF ProgramsOf
<1>3. \A d \in Canvases : ProgramsOf(d) \in {0, 1} /\ ProgramsOf(d)' \in {0, 1}
  BY DEF ProgramsOf
<1>4. gpu' = strays' + ProgramsOf("preview")' + ProgramsOf("dialog")'
  BY <1>0, <1>2, <1>3
<1>5. gpu' \in Nat /\ strays' \in 0..MaxStrays
  BY <1>0, <1>3, <1>4
<1>6. OceanTypeOK'
  BY <1>1, <1>5 DEF OceanInv, OceanTypeOK
<1>7. \A d \in Canvases : Fine(canvas'[d], d, wave', hidden')
  BY <1>1 DEF OceanInv
<1> QED
  BY <1>4, <1>6, <1>7 DEF OceanInv

LEMMA RemoveStep ==
  ASSUME OceanInv, NEW c \in Canvases, Remove(c)
  PROVE  OceanInv'
<1>1. PICK j \in Canvas : j = Disposed(c) /\ j.frames = 0 /\ j.ocean = "none" /\ j.due = "none"
  BY DisposedIsBlank
<1>2. Fine(j, c, wave, hidden)
  BY <1>1 DEF Fine, Single, Asking, Off
<1>3. canvas' = [canvas EXCEPT ![c] = j] /\ UNCHANGED <<wave, hidden>>
  BY <1>1 DEF Remove
<1>4. strays \in 0..MaxStrays /\ MaxStrays \in Nat /\ gpu \in Nat /\ ProgramsOf(c) \in {0, 1}
  BY OceanAssumption DEF OceanInv, OceanTypeOK, ProgramsOf
<1>5. strays' = strays + 0 /\ strays' <= MaxStrays
  BY <1>4 DEF Remove
<1>6. gpu' = gpu - ProgramsOf(c) + 0 + (IF j.ocean = "live" THEN 1 ELSE 0)
  BY <1>1, <1>4 DEF Remove
<1> QED
  BY <1>2, <1>3, <1>5, <1>6, OceanChanges

LEMMA RenewStep ==
  ASSUME OceanInv, NEW c \in Canvases, NEW outcome \in Outcomes, Renew(c, outcome)
  PROVE  OceanInv'
<1>1. PICK d \in Canvas : d = Disposed(c) /\ d.frames = 0 /\ d.ocean = "none" /\ d.due = "none"
  BY DisposedIsBlank
<1>2. canvas[c].due = "renew" /\ Fine(canvas[c], c, wave, hidden)
  BY DEF Renew, OceanInv
<1>3. Rendering(c, wave)
  BY <1>2 DEF Fine, Off
<1>4. strays \in 0..MaxStrays /\ MaxStrays \in Nat /\ gpu \in Nat /\ ProgramsOf(c) \in {0, 1}
      /\ UNCHANGED <<wave, hidden>>
  BY OceanAssumption DEF OceanInv, OceanTypeOK, ProgramsOf, Renew
<1>5. CASE outcome = "live"
  <2>1. PICK k : k = [d EXCEPT !.ocean = "live"]
    OBVIOUS
  <2>2. k \in Canvas /\ k.ocean = "live" /\ k.frames = 0
    BY <1>1, <2>1 DEF Canvas
  <2>3. PICK j \in Canvas : j = Redrawn(k, Enabled(c, wave)) /\ j.ocean = "live" /\ Fine(j, c, wave, hidden)
    BY <1>3, <2>2, RedrawnIsFine DEF Single
  <2>4. canvas' = [canvas EXCEPT ![c] = j]
    BY <1>1, <1>5, <2>1, <2>3 DEF Renew
  <2>5. strays' = strays + 0 /\ strays' <= MaxStrays
    BY <1>4, <1>5 DEF Renew
  <2>6. gpu' = gpu - ProgramsOf(c) + 0 + (IF j.ocean = "live" THEN 1 ELSE 0)
    BY <1>4, <1>5, <2>3 DEF Renew
  <2> QED
    BY <1>4, <2>3, <2>4, <2>5, <2>6, OceanChanges
<1>6. CASE outcome # "live"
  <2>1. PICK j : j = [d EXCEPT !.ocean = "failed"]
    OBVIOUS
  <2>2. j \in Canvas /\ j.ocean = "failed" /\ j.frames = 0 /\ j.due = "none"
    BY <1>1, <2>1 DEF Canvas
  <2>3. canvas' = [canvas EXCEPT ![c] = j]
    BY <1>1, <1>6, <2>1 DEF Renew
  <2>4. Fine(j, c, wave, hidden)
    BY <1>3, <2>2 DEF Fine, Single, Asking
  <2>5. PICK n \in {0, 1} : n = IF outcome = "stray" THEN 1 ELSE 0
    OBVIOUS
  <2>6. strays' = strays + n /\ strays' <= MaxStrays
    BY <1>4, <2>5 DEF Renew
  <2>7. gpu' = gpu - ProgramsOf(c) + n + (IF j.ocean = "live" THEN 1 ELSE 0)
    BY <1>4, <1>6, <2>2, <2>5 DEF Renew, Outcomes
  <2>8. n \in Nat
    BY <2>5
  <2> QED
    BY <1>4, <2>2, <2>3, <2>4, <2>6, <2>7, <2>8, OceanChanges
<1> QED
  BY <1>5, <1>6

LEMMA UnchangedOcean ==
  ASSUME OceanInv, UNCHANGED oceanVars
  PROVE  OceanInv'
BY DEF oceanVars, OceanInv, OceanTypeOK, ProgramsOf

LEMMA NestedStep ==
  ASSUME OceanInv, NEW anew, Nested(anew)
  PROVE  OceanInv'
<1>1. CASE ShowNoPoint
  BY <1>1, ShowNoPointStep
<1>2. ASSUME NEW playing \in BOOLEAN, ShowPoint(playing) PROVE OceanInv'
  BY <1>2, ShowPointStep
<1>3. CASE UNCHANGED oceanVars
  BY <1>3, UnchangedOcean
<1>4. \/ ShowNoPoint
      \/ \E playing \in BOOLEAN : ShowPoint(playing)
      \/ UNCHANGED oceanVars
  BY DEF Nested
<1> QED
  BY <1>1, <1>2, <1>3, <1>4

LEMMA ViewStep ==
  ASSUME OceanInv, View
  PROVE  OceanInv'
BY FrameStep, RemoveStep, RenewStep, VisibilityStep, TogglePlayingStep, ExpandStep, CollapseStep DEF View

LEMMA OceanInvStep ==
  ASSUME OceanInv, Next
  PROVE  OceanInv'
<1>1. CASE Panel
  BY <1>1, NestedStep DEF Panel
<1>2. CASE Quiet
  BY <1>2, UnchangedOcean DEF Quiet
<1>3. CASE View
  BY <1>3, ViewStep
<1> QED
  BY <1>1, <1>2, <1>3 DEF Next
-----------------------------------------------------------------------------
(* The forecast: least and greatest times and runs *)

LEMMA MinIsThere ==
  ASSUME NEW S, S \subseteq Nat, S # {}
  PROVE  Min(S) \in S /\ \A j \in S : Min(S) <= j
<1> DEFINE R == OpToRel(<, Nat)
<1>1. PICK x \in S : \A y \in S : ~ (<<y, x>> \in R)
  <2>1. IsWellFoundedOn(R, Nat)
    BY NatLessThanWellFounded
  <2> QED
    BY <2>1, WFMin
<1>2. ASSUME NEW y \in S PROVE x <= y
  <2>1. x \in Nat /\ y \in Nat
    OBVIOUS
  <2>2. ~ (y < x)
    BY <1>1, <2>1 DEF OpToRel
  <2> QED
    BY <2>1, <2>2
<1> QED
  BY <1>2 DEF Min

LEMMA MinOfTwo ==
  ASSUME NEW a \in Nat, NEW b \in Nat
  PROVE  Min({a, b}) = IF a <= b THEN a ELSE b
<1>1. Min({a, b}) \in {a, b} /\ \A j \in {a, b} : Min({a, b}) <= j
  BY MinIsThere
<1> QED
  BY <1>1

\* A finite set of numbers has a greatest one: the one above which there are the
\* fewest.
LEMMA MaxIsThere ==
  ASSUME NEW S, S \subseteq Nat, S # {}, IsFiniteSet(S)
  PROVE  Max(S) \in S /\ \A j \in S : Max(S) >= j
<1> DEFINE Above(x) == {y \in S : y > x}
           Counts == {Cardinality(Above(x)) : x \in S}
<1>1. \A x \in S : IsFiniteSet(Above(x)) /\ Cardinality(Above(x)) \in Nat
  <2>1. ASSUME NEW x \in S PROVE IsFiniteSet(Above(x)) /\ Cardinality(Above(x)) \in Nat
    <3>1. Above(x) \subseteq S
      OBVIOUS
    <3> QED
      BY <3>1, FS_Subset, FS_CardinalityType
  <2> QED
    BY <2>1
<1>2. Counts \subseteq Nat /\ Counts # {}
  BY <1>1
<1>3. PICK x \in S : Cardinality(Above(x)) = Min(Counts)
  BY <1>2, MinIsThere
<1>4. ASSUME NEW y \in S PROVE x >= y
  <2> SUFFICES ASSUME y > x PROVE FALSE
    OBVIOUS
  <2>0. x \in Nat /\ y \in Nat
    OBVIOUS
  <2>1. Above(y) \subseteq Above(x)
    <3>1. ASSUME NEW z \in Above(y) PROVE z \in Above(x)
      <4>1. z \in S /\ z \in Nat /\ z > y
        OBVIOUS
      <4> QED
        BY <2>0, <4>1
    <3> QED
      BY <3>1
  <2>2. y \in Above(x) /\ y \notin Above(y)
    BY <2>0
  <2>4. PICK A, B : A = Above(y) /\ B = Above(x)
    OBVIOUS
  <2>5. Cardinality(A) < Cardinality(B)
    <3>1. A \in SUBSET B /\ A # B
      BY <2>1, <2>2, <2>4
    <3>2. IsFiniteSet(B) /\ Cardinality(A) \in Nat /\ Cardinality(B) \in Nat
      BY <1>1, <2>4
    <3>3. Cardinality(A) <= Cardinality(B) /\ Cardinality(A) # Cardinality(B)
      BY <3>1, <3>2, FS_Subset
    <3> QED
      BY <3>2, <3>3
  <2>3. Min(Counts) <= Cardinality(Above(y))
    BY <1>2, MinIsThere
  <2> QED
    <3>1. Cardinality(B) <= Cardinality(A)
      BY <1>3, <2>3, <2>4
    <3>2. Cardinality(A) \in Nat /\ Cardinality(B) \in Nat
      BY <1>1, <2>4
    <3> QED
      BY <2>5, <3>1, <3>2
<1> QED
  BY <1>4 DEF Max

-----------------------------------------------------------------------------
(* The forecast: what is answered and what is shown *)

LEMMA PointsAre ==
  ASSUME NEW p
  PROVE  p \in Points <=> DOMAIN p \subseteq Times /\ p \in [DOMAIN p -> Runs]
BY DEF Points

LEMMA NothingIsPoints == NoForecast.points \in Points /\ New(0).answer \in Points /\ DOMAIN NoForecast.points = {}
BY DEF Points, NoForecast, New

\* The runs of a time that have been saved are finitely many, and those of a time
\* that is answered at least one.
LEMMA AnswerIsNewest ==
  ASSUME saved \subseteq Times \X Runs, IsFiniteSet(saved)
  PROVE  /\ Answer \in Points /\ DOMAIN Answer = Held
         /\ \A t \in Held : <<t, Answer[t]>> \in saved /\ \A run \in Runs : <<t, run>> \in saved => Answer[t] >= run
<1>1. ASSUME NEW t \in Held
      PROVE  /\ Answer[t] \in Runs
             /\ <<t, Answer[t]>> \in saved
             /\ \A run \in Runs : <<t, run>> \in saved => Answer[t] >= run
  <2> DEFINE S == {run \in Runs : <<t, run>> \in saved}
             RunOf == [row \in saved |-> row[2]]
  <2>1. S # {} /\ S \subseteq Nat
    BY OutlookAssumption DEF Held
  <2>2. IsFiniteSet(S)
    <3>1. PICK T : T = {RunOf[row] : row \in saved}
      OBVIOUS
    <3>2. S \in SUBSET T
      <4>1. ASSUME NEW run \in S PROVE \E row \in saved : run = RunOf[row]
        <5>1. <<t, run>> \in saved /\ RunOf[<<t, run>>] = run
          OBVIOUS
        <5> QED
          BY <5>1
      <4> QED
        BY <3>1, <4>1
    <3>3. RunOf \in Surjection(saved, T)
      BY <3>1 DEF Surjection
    <3> QED
      BY <3>2, <3>3, FS_Surjection, FS_Subset
  <2>3. Answer[t] = Max(S)
    BY DEF Answer
  <2>4. Max(S) \in S /\ \A j \in S : Max(S) >= j
    BY <2>1, <2>2, MaxIsThere
  <2> QED
    BY <2>3, <2>4
<1>2. DOMAIN Answer = Held /\ Held \subseteq Times
  BY DEF Answer, Held
<1>3. Answer \in [Held -> Runs]
  <2>1. Answer = [t \in Held |-> Answer[t]]
    BY DEF Answer
  <2> QED
    BY <1>1, <2>1
<1> QED
  BY <1>1, <1>2, <1>3, PointsAre

-----------------------------------------------------------------------------
(* The forecast: what a rendering shows *)

\* The day that is shown has a point, and of its points one is picked.
LEMMA PickIsThere ==
  ASSUME NEW S, S \subseteq Times, S # {}, NEW c
  PROVE  Pick(DayTimes(S, c), c) \in S
<1>1. Min(S) \in S /\ S \subseteq Nat
  BY MinIsThere, OutlookAssumption
<1>2. ActiveDay(S, c) \in {Day[t] : t \in S}
  BY <1>1 DEF ActiveDay
<1>3. PICK D : D = DayTimes(S, c)
  OBVIOUS
<1>4. D \subseteq S /\ D # {} /\ D \subseteq Nat
  BY <1>1, <1>2, <1>3 DEF DayTimes
<1>5. PICK A : A = {t \in D : t >= now}
  OBVIOUS
<1>6. A \subseteq Nat /\ A \subseteq D
  BY <1>4, <1>5
<1>7. Min(D) \in D
  BY <1>4, MinIsThere
<1>8. A # {} => Min(A) \in A
  BY <1>6, MinIsThere
<1>9. Pick(D, c) = IF c.time \in D THEN c.time ELSE IF A # {} THEN Min(A) ELSE Min(D)
  BY <1>5 DEF Pick
<1> QED
  BY <1>3, <1>4, <1>6, <1>7, <1>8, <1>9

\* A chosen time of the chosen day is the one that is picked.
LEMMA ChosenIsPicked ==
  ASSUME NEW S, NEW c, c.time \in S, Day[c.time] = c.day
  PROVE  Pick(DayTimes(S, c), c) = c.time
<1>1. ActiveDay(S, c) = c.day
  BY DEF ActiveDay
<1>2. c.time \in DayTimes(S, c)
  BY <1>1 DEF DayTimes
<1> QED
  BY <1>2 DEF Pick

Shown == [time : Times, run : Runs] \cup {NoPoint}

LEMMA PointIsShown ==
  ASSUME NEW f, f.points \in Points, NEW id, NEW c
  PROVE  Point(id, f, c) \in Shown
<1> DEFINE S == DOMAIN f.points
           time == Pick(DayTimes(S, c), c)
<1>1. CASE f.spot # id \/ S = {}
  BY <1>1 DEF Point, Shown
<1>2. CASE ~ (f.spot # id \/ S = {})
  <2>1. S \subseteq Times /\ f.points \in [S -> Runs]
    BY PointsAre
  <2>2. time \in S
    BY <1>2, <2>1, PickIsThere
  <2>3. PICK u : u = time
    OBVIOUS
  <2>4. Point(id, f, c) = [time |-> u, run |-> f.points[u]]
    BY <1>2, <2>3 DEF Point
  <2>5. u \in Times /\ f.points[u] \in Runs
    BY <2>1, <2>2, <2>3
  <2> QED
    BY <2>4, <2>5 DEF Shown
<1> QED
  BY <1>1, <1>2

-----------------------------------------------------------------------------
(* The forecast: the invariant *)

Request == [spot : Spots, aborted : BOOLEAN, age : 0..TimeLimit, read : BOOLEAN, answer : Points]

Past(t) == t < now - 1

\* At most one request is wanted.  It is as old as the refresh, and of the
\* selected spot unless the effects of another one are due.
Asked ==
    \A r \in requests : Wanted(r) =>
        /\ r.age = clock
        /\ due # "spot" => r.spot = selected
        /\ \A q \in requests : Wanted(q) => q = r

AreSaved(points) == \A t \in DOMAIN points : <<t, points[t]>> \in saved

Stored ==
    /\ AreSaved(kept.points)
    /\ \A r \in requests : AreSaved(r.answer)
    /\ kept.spot = 0 => kept = NoForecast

Replaces(points) ==
    \A t \in DOMAIN kept.points :
        Past(t) \/ (t \in DOMAIN points /\ points[t] >= kept.points[t])

\* The answer to a wanted request for the spot that is kept is as new as what is
\* kept.
Newer ==
    \A r \in requests : Wanted(r) /\ r.read /\ r.spot = kept.spot => Replaces(r.answer)

Waiting == \E r \in requests : Wanted(r)

\* Without an error either the first request since the effect began is under way,
\* or the forecast is of this refresh or, while one is under way, of the one before.
Aged ==
    due = "no" /\ selected # 0 /\ err = 0 =>
        IF Waiting
          THEN since = clock \/ (kept.spot = selected /\ kept.age = Period + clock)
          ELSE kept.spot = selected /\ kept.age = clock

Own ==
    /\ due # "spot" /\ selected # 0 => choice.spot \in {0, selected}
    /\ due = "no" /\ selected # 0 => err \in {0, selected}

\* The chosen day has a time on the screen, or one that is past.
Seen ==
    due # "spot" /\ choice.day # 0 =>
        \E t \in Times : Day[t] = choice.day /\ (Past(t) \/ t \in OnScreen)

\* A time of another day than the chosen one was chosen when that day had left the
\* forecast, which it does when it is past.
Fell ==
    due # "spot" /\ choice.day # 0 /\ choice.time # 0 /\ Day[choice.time] # choice.day =>
        \E t \in Times : Day[t] = choice.day /\ Past(t)

Drawn == choice.time \in OnScreen /\ Day[choice.time] = choice.day => shown.time = choice.time

OutlookInv ==
    /\ OutlookTypeOK
    /\ IsFiniteSet(saved)
    /\ Asked /\ Stored /\ Newer /\ Aged
    /\ Own /\ Seen /\ Fell /\ Drawn

ChoiceStates == [spot : Ids, day : Nat, time : Times \cup {0}]
Forecasts == [spot : Ids, points : Points, age : 0..MaxAge]

LEMMA TypesAre ==
  OutlookTypeOK <=>
    /\ saved \subseteq Times \X Runs
    /\ now \in Nat /\ selected \in Ids /\ err \in Ids
    /\ due \in {"no", "retry", "spot"}
    /\ clock \in 0..Period /\ since \in 0..TimeLimit + 1
    /\ \A r \in requests : r \in Request
    /\ kept \in Forecasts /\ choice \in ChoiceStates /\ shown \in Shown
BY DEF OutlookTypeOK, Request, Forecasts, ChoiceStates, Shown

LEMMA ConstantsAre ==
  /\ 0 \notin Spots /\ 0 \in Ids /\ Spots \subseteq Ids
  /\ Period \in Nat /\ TimeLimit \in Nat /\ TimeLimit # 0 /\ TimeLimit < Period
  /\ MaxAge = Period + TimeLimit + 1 /\ MaxAge \in Nat
BY OutlookAssumption DEF Ids, MaxAge

LEMMA NothingIsTyped ==
  /\ NoForecast \in Forecasts /\ NoForecast.spot = 0 /\ DOMAIN NoForecast.points = {}
  /\ NoChoice \in ChoiceStates /\ NoChoice.spot = 0 /\ NoChoice.day = 0 /\ NoChoice.time = 0
  /\ NoPoint \in Shown
<1>1. NoForecast.points \in Points /\ DOMAIN NoForecast.points = {}
  BY NothingIsPoints
<1>2. PICK p : p = NoForecast.points
  OBVIOUS
<1>3. NoForecast = [spot |-> 0, points |-> p, age |-> 0]
  BY <1>2 DEF NoForecast
<1>4. NoForecast \in Forecasts /\ NoForecast.spot = 0
  BY <1>1, <1>2, <1>3, ConstantsAre DEF Forecasts
<1>5. NoChoice \in ChoiceStates /\ NoChoice.spot = 0 /\ NoChoice.day = 0 /\ NoChoice.time = 0
  BY ConstantsAre DEF NoChoice, ChoiceStates
<1> QED
  BY <1>1, <1>4, <1>5 DEF Shown

LEMMA NewIsRequest ==
  ASSUME NEW id \in Spots
  PROVE  /\ New(id) \in Request
         /\ Wanted(New(id)) /\ New(id).age = 0 /\ New(id).spot = id
         /\ New(id).read = FALSE /\ DOMAIN New(id).answer = {}
<1>1. PICK p : p = New(id).answer
  OBVIOUS
<1>2. p \in Points /\ DOMAIN p = {}
  BY <1>1, NothingIsPoints DEF New, NoForecast
<1>3. New(id) = [spot |-> id, aborted |-> FALSE, age |-> 0, read |-> FALSE, answer |-> p]
  BY <1>1 DEF New
<1>4. New(id) \in Request
  BY <1>2, <1>3, ConstantsAre DEF Request
<1>5. New(id).aborted = FALSE /\ New(id).read = FALSE
  BY <1>3
<1> QED
  BY <1>1, <1>2, <1>3, <1>4, <1>5 DEF Wanted

AbortOf(r) == [r EXCEPT !.aborted = TRUE]

LEMMA AbortedRequest ==
  ASSUME NEW r \in Request, NEW q, q = AbortOf(r)
  PROVE  q \in Request /\ ~ Wanted(q) /\ q.answer = r.answer
<1>1. q = [spot |-> r.spot, aborted |-> TRUE, age |-> r.age, read |-> r.read, answer |-> r.answer]
  BY DEF Request, AbortOf
<1>2. r.spot \in Spots /\ r.age \in 0..TimeLimit /\ r.answer \in Points
  BY DEF Request
<1>3. r.read \in BOOLEAN
  BY DEF Request
<1>4. q \in Request
  BY <1>1, <1>2, <1>3 DEF Request
<1>5. q.aborted = TRUE
  BY <1>1
<1> QED
  BY <1>1, <1>4, <1>5 DEF Wanted

LEMMA OutlookInvInit == OutlookInit => OutlookInv
<1> SUFFICES ASSUME OutlookInit PROVE OutlookInv
  OBVIOUS
<1>1. /\ saved = {} /\ now = 1 /\ selected = 0 /\ due = "no" /\ clock = 0 /\ since = 0
      /\ requests = {} /\ kept = NoForecast /\ err = 0 /\ choice = NoChoice /\ shown = NoPoint
  BY DEF OutlookInit
<1>2. OutlookTypeOK
  BY <1>1, NothingIsTyped, ConstantsAre, TypesAre
<1>3. IsFiniteSet(saved)
  BY <1>1, FS_EmptySet
<1>4. Asked /\ Stored /\ Newer
  BY <1>1, NothingIsTyped DEF Asked, Stored, AreSaved, Newer
<1>5. Aged /\ Own /\ Seen /\ Fell
  BY <1>1, NothingIsTyped DEF Aged, Own, Seen, Fell
<1>6. OnScreen = {}
  BY <1>1, NothingIsTyped DEF OnScreen
<1> QED
  BY <1>2, <1>3, <1>4, <1>5, <1>6 DEF Drawn, OutlookInv

-----------------------------------------------------------------------------
(* The forecast: what a step leaves *)

\* A rendering shows the chosen time of the chosen day.
LEMMA RenderDraws ==
  ASSUME kept' \in Forecasts, Render
  PROVE  shown' \in Shown /\ Drawn'
<1>1. PICK k, c, id : k = kept' /\ c = choice' /\ id = selected'
  OBVIOUS
<1>2. shown' = Point(id, k, c)
  BY <1>1 DEF Render
<1>3. k.points \in Points
  BY <1>1 DEF Forecasts
<1>4. shown' \in Shown
  BY <1>2, <1>3, PointIsShown
<1>5. ASSUME c.time \in OnScreen', Day[c.time] = c.day
      PROVE  shown'.time = c.time
  <2>1. k.spot = id /\ c.time \in DOMAIN k.points
    BY <1>1, <1>5 DEF OnScreen
  <2>2. Pick(DayTimes(DOMAIN k.points, c), c) = c.time
    BY <1>5, <2>1, ChosenIsPicked
  <2>3. shown' = [time |-> c.time, run |-> k.points[c.time]]
    BY <1>2, <2>1, <2>2 DEF Point
  <2> QED
    BY <2>3
<1> QED
  BY <1>1, <1>4, <1>5 DEF Drawn

\* A time that is past stays so.
LEMMA PastStays ==
  ASSUME now \in Nat, now' = now \/ now' = now + 1, NEW t \in Times, Past(t)
  PROVE  Past(t)'
<1>1. t \in Nat
  BY OutlookAssumption
<1> QED
  BY <1>1 DEF Past

\* While the rows, the forecast and the hour stay, what a request was answered is
\* as good as it was.
LEMMA AnswersStay ==
  ASSUME UNCHANGED <<saved, now, kept>>, NEW points
  PROVE  (AreSaved(points) <=> AreSaved(points)') /\ (Replaces(points) <=> Replaces(points)')
BY DEF AreSaved, Replaces, Past

\* What is on the screen, the choice and the hour decide of the choice.
LEMMA ChoiceStays ==
  ASSUME Own, Seen, Fell, UNCHANGED <<now, selected, kept, choice>>,
         due' # "spot" => due # "spot"
  PROVE  /\ Seen' /\ Fell'
         /\ due' # "spot" /\ selected' # 0 => choice'.spot \in {0, selected'}
<1>1. OnScreen' = OnScreen
  BY DEF OnScreen
<1> QED
  BY <1>1 DEF Own, Seen, Fell, Past

LEMMA OutlookStays ==
  ASSUME OutlookInv, UNCHANGED outlookVars
  PROVE  OutlookInv'
<1>1. /\ saved' = saved /\ now' = now /\ selected' = selected /\ due' = due /\ clock' = clock
      /\ since' = since /\ requests' = requests /\ kept' = kept /\ err' = err
      /\ choice' = choice /\ shown' = shown
  BY DEF outlookVars
<1>2. OutlookTypeOK' /\ IsFiniteSet(saved)'
  BY <1>1 DEF OutlookInv, OutlookTypeOK
<1>3. Asked'
  BY <1>1 DEF OutlookInv, Asked, Wanted
<1>4. Stored' /\ Newer'
  BY <1>1, AnswersStay DEF OutlookInv, Stored, Newer, Wanted
<1>5. Aged' /\ Own'
  BY <1>1 DEF OutlookInv, Aged, Own, Waiting, Wanted
<1>6. Seen' /\ Fell' /\ Drawn'
  BY <1>1, ChoiceStays DEF OutlookInv, Drawn, OnScreen
<1> QED
  BY <1>2, <1>3, <1>4, <1>5, <1>6 DEF OutlookInv

-----------------------------------------------------------------------------
(* The forecast: the server and the clock *)

LEMMA SaveStep ==
  ASSUME OutlookInv, NEW row \in Times \X Runs, Save(row)
  PROVE  OutlookInv'
<1>1. /\ saved' = saved \cup {row} /\ now' = now /\ selected' = selected /\ due' = due /\ clock' = clock
      /\ since' = since /\ requests' = requests /\ kept' = kept /\ err' = err
      /\ choice' = choice /\ shown' = shown
  BY DEF Save
<1>2. OutlookTypeOK'
  BY <1>1 DEF OutlookInv, OutlookTypeOK
<1>3. IsFiniteSet(saved')
  BY <1>1, FS_AddElement DEF OutlookInv
<1>4. Asked' /\ Newer'
  BY <1>1 DEF OutlookInv, Asked, Newer, Wanted, Replaces, Past
<1>5. Stored'
  BY <1>1 DEF OutlookInv, Stored, AreSaved
<1>6. Aged' /\ Own'
  BY <1>1 DEF OutlookInv, Aged, Own, Waiting, Wanted
<1>7. Seen' /\ Fell' /\ Drawn'
  BY <1>1, ChoiceStays DEF OutlookInv, Drawn, OnScreen
<1> QED
  BY <1>2, <1>3, <1>4, <1>5, <1>6, <1>7 DEF OutlookInv

LEMMA HourStep ==
  ASSUME OutlookInv, Hour
  PROVE  OutlookInv'
<1>1. /\ saved' = saved /\ now' = now + 1 /\ selected' = selected /\ due' = due /\ clock' = clock
      /\ since' = since /\ requests' = requests /\ kept' = kept /\ err' = err
      /\ choice' = choice /\ shown' = shown
  BY DEF Hour
<1>2. OutlookTypeOK' /\ IsFiniteSet(saved')
  BY <1>1 DEF OutlookInv, OutlookTypeOK
<1>3. \A t \in Times : Past(t) => Past(t)'
  BY <1>1, PastStays DEF OutlookInv, OutlookTypeOK
<1>4. DOMAIN kept.points \subseteq Times
  BY PointsAre DEF OutlookInv, OutlookTypeOK
<1>5. Asked' /\ Stored' /\ Aged' /\ Own'
  BY <1>1 DEF OutlookInv, Asked, Stored, AreSaved, Aged, Own, Waiting, Wanted
<1>6. Newer'
  <2>1. \A points : Replaces(points) => Replaces(points)'
    BY <1>1, <1>3, <1>4 DEF Replaces
  <2> QED
    BY <1>1, <2>1 DEF OutlookInv, Newer, Wanted
<1>7. Seen' /\ Fell' /\ Drawn'
  <2>1. OnScreen' = OnScreen
    BY <1>1 DEF OnScreen
  <2> QED
    BY <1>1, <1>3, <2>1 DEF OutlookInv, Seen, Fell, Drawn
<1> QED
  BY <1>2, <1>5, <1>6, <1>7 DEF OutlookInv

Answered(r, points) == [r EXCEPT !.read = TRUE, !.answer = points]

LEMMA AnsweredRequest ==
  ASSUME NEW r \in Request, NEW points \in Points, NEW q, q = Answered(r, points)
  PROVE  /\ q \in Request
         /\ (Wanted(q) <=> Wanted(r)) /\ q.age = r.age /\ q.spot = r.spot /\ q.answer = points
<1>1. q = [spot |-> r.spot, aborted |-> r.aborted, age |-> r.age, read |-> TRUE, answer |-> points]
  BY DEF Request, Answered
<1>2. r.spot \in Spots /\ r.age \in 0..TimeLimit
  BY DEF Request
<1>3. r.aborted \in BOOLEAN
  BY DEF Request
<1>4. q \in Request
  BY <1>1, <1>2, <1>3 DEF Request
<1>5. q.aborted = r.aborted
  BY <1>1
<1> QED
  BY <1>1, <1>4, <1>5 DEF Wanted

\* What the server has read is as new as anything saved before.
LEMMA AnswerReplaces ==
  ASSUME OutlookInv
  PROVE  AreSaved(Answer) /\ Replaces(Answer) /\ Answer \in Points
<1>1. /\ Answer \in Points /\ DOMAIN Answer = Held
      /\ \A t \in Held : <<t, Answer[t]>> \in saved /\ \A run \in Runs : <<t, run>> \in saved => Answer[t] >= run
  BY AnswerIsNewest, TypesAre DEF OutlookInv
<1>2. ASSUME NEW t \in DOMAIN kept.points, ~ Past(t)
      PROVE  t \in DOMAIN Answer /\ Answer[t] >= kept.points[t]
  <2>1. kept.points \in Points
    BY DEF OutlookInv, OutlookTypeOK
  <2>2. t \in Times /\ kept.points[t] \in Runs
    BY <2>1, PointsAre
  <2>3. <<t, kept.points[t]>> \in saved
    BY DEF OutlookInv, Stored, AreSaved
  <2>4. t \in Nat /\ now \in Nat
    BY <2>2, OutlookAssumption DEF OutlookInv, OutlookTypeOK
  <2>5. t >= now - 1
    BY <1>2, <2>4 DEF Past
  <2>6. t \in Held
    BY <2>2, <2>3, <2>5 DEF Held
  <2> QED
    BY <1>1, <2>2, <2>3, <2>6
<1> QED
  BY <1>1, <1>2 DEF AreSaved, Replaces

LEMMA RespondStep ==
  ASSUME OutlookInv, NEW r \in requests, Respond(r)
  PROVE  OutlookInv'
<1>1. /\ saved' = saved /\ now' = now /\ selected' = selected /\ due' = due /\ clock' = clock
      /\ since' = since /\ kept' = kept /\ err' = err
      /\ choice' = choice /\ shown' = shown
  BY DEF Respond
<1>2. PICK p : p = Answer
  OBVIOUS
<1>3. PICK q : q = Answered(r, p)
  OBVIOUS
<1>4. requests' = (requests \ {r}) \cup {q}
  BY <1>2, <1>3 DEF Respond, Answered
<1>5. r \in Request /\ p \in Points /\ AreSaved(p) /\ Replaces(p)
  BY <1>2, AnswerReplaces, TypesAre DEF OutlookInv
<1>6. /\ q \in Request
      /\ (Wanted(q) <=> Wanted(r)) /\ q.age = r.age /\ q.spot = r.spot /\ q.answer = p
  BY <1>3, <1>5, AnsweredRequest
<1>7. \A s : Wanted(s)' <=> Wanted(s)
  BY DEF Wanted
<1>8. OutlookTypeOK' /\ IsFiniteSet(saved')
  BY <1>1, <1>4, <1>6, TypesAre DEF OutlookInv, OutlookTypeOK, Request
<1>9. Asked'
  BY <1>1, <1>4, <1>6, <1>7 DEF OutlookInv, Asked
<1>10. Stored'
  BY <1>1, <1>4, <1>5, <1>6, AnswersStay DEF OutlookInv, Stored
<1>11. Newer'
  BY <1>1, <1>4, <1>5, <1>6, <1>7, AnswersStay DEF OutlookInv, Newer
<1>12. Waiting' <=> Waiting
  BY <1>4, <1>6, <1>7 DEF Waiting
<1>13. Aged' /\ Own'
  BY <1>1, <1>12 DEF OutlookInv, Aged, Own
<1>14. Seen' /\ Fell' /\ Drawn'
  BY <1>1, ChoiceStays DEF OutlookInv, Drawn, OnScreen
<1> QED
  BY <1>8, <1>9, <1>10, <1>11, <1>13, <1>14 DEF OutlookInv

\* When the refresh comes no request is under way: the last one would be as old
\* as a period, which the time limit does not let it be.
LEMMA RefreshStep ==
  ASSUME OutlookInv, Refresh
  PROVE  OutlookInv'
<1>1. /\ saved' = saved /\ now' = now /\ selected' = selected /\ due' = due /\ clock' = 0
      /\ since' = since /\ kept' = kept /\ err' = err
      /\ choice' = choice /\ shown' = shown
      /\ due = "no" /\ selected # 0 /\ clock = Period
      /\ requests' = requests \cup {New(selected)}
  BY DEF Refresh
<1>2. selected \in Spots
  BY <1>1 DEF OutlookInv, OutlookTypeOK, Ids
<1>3. PICK n : n = New(selected)
  OBVIOUS
<1>4. /\ n \in Request /\ Wanted(n) /\ n.age = 0 /\ n.spot = selected
      /\ n.read = FALSE /\ DOMAIN n.answer = {}
  BY <1>2, <1>3, NewIsRequest
<1>5. ~ Waiting
  <2> SUFFICES ASSUME NEW r \in requests, Wanted(r) PROVE FALSE
    BY DEF Waiting
  <2>1. r.age = Period
    BY <1>1 DEF OutlookInv, Asked
  <2>2. r.age \in 0..TimeLimit
    BY TypesAre DEF OutlookInv, Request
  <2> QED
    BY <2>1, <2>2, ConstantsAre
<1>6. \A s : Wanted(s)' <=> Wanted(s)
  BY DEF Wanted
<1>7. \A s \in requests' : Wanted(s)' => s = n
  BY <1>1, <1>3, <1>5, <1>6 DEF Waiting
<1>8. OutlookTypeOK' /\ IsFiniteSet(saved')
  BY <1>1, <1>3, <1>4, ConstantsAre, TypesAre DEF OutlookInv, OutlookTypeOK, Request
<1>9. Asked' /\ Newer'
  BY <1>1, <1>4, <1>7 DEF Asked, Newer
<1>10. Stored'
  <2>1. AreSaved(n.answer)
    BY <1>4 DEF AreSaved
  <2> QED
    BY <1>1, <1>3, <2>1, AnswersStay DEF OutlookInv, Stored
<1>11. Aged'
  <2>1. ASSUME err = 0 PROVE kept.spot = selected /\ kept.age = Period
    BY <1>1, <1>5, <2>1 DEF OutlookInv, Aged
  <2>2. Waiting'
    BY <1>1, <1>3, <1>4, <1>6 DEF Waiting
  <2>3. Period + clock' = Period
    BY <1>1, ConstantsAre
  <2> QED
    BY <1>1, <2>1, <2>2, <2>3 DEF Aged
<1>12. Own' /\ Seen' /\ Fell' /\ Drawn'
  BY <1>1, ChoiceStays DEF OutlookInv, Own, Drawn, OnScreen
<1> QED
  BY <1>8, <1>9, <1>10, <1>11, <1>12 DEF OutlookInv

OlderRequest(r) == [r EXCEPT !.age = Min({@ + 1, TimeLimit})]

LEMMA SecondOfRequest ==
  ASSUME NEW r \in Request, r.age < TimeLimit, NEW q, q = OlderRequest(r)
  PROVE  /\ q \in Request
         /\ (Wanted(q) <=> Wanted(r)) /\ q.age = r.age + 1
         /\ q.spot = r.spot /\ (q.read <=> r.read) /\ q.answer = r.answer
<1>1. r.age \in Nat /\ r.age + 1 \in 0..TimeLimit /\ r.age + 1 <= TimeLimit
  BY ConstantsAre DEF Request
<1>2. Min({r.age + 1, TimeLimit}) = r.age + 1
  BY <1>1, MinOfTwo, ConstantsAre
<1>3. q = [spot |-> r.spot, aborted |-> r.aborted, age |-> r.age + 1, read |-> r.read, answer |-> r.answer]
  BY <1>2 DEF Request, OlderRequest
<1>4. r.spot \in Spots /\ r.answer \in Points
  BY DEF Request
<1>5. r.aborted \in BOOLEAN
  BY DEF Request
<1>6. r.read \in BOOLEAN
  BY DEF Request
<1>7. q \in Request
  BY <1>1, <1>3, <1>4, <1>5, <1>6 DEF Request
<1>8. q.aborted = r.aborted /\ q.read = r.read
  BY <1>3
<1> QED
  BY <1>3, <1>7, <1>8 DEF Wanted

OlderForecast(f) == [f EXCEPT !.age = Min({@ + 1, MaxAge})]

LEMMA SecondOfForecast ==
  ASSUME NEW f \in Forecasts, NEW g, g = OlderForecast(f)
  PROVE  /\ g \in Forecasts /\ g.spot = f.spot /\ g.points = f.points
         /\ f.age + 1 <= MaxAge => g.age = f.age + 1
<1>1. f.age \in Nat /\ f.age + 1 \in Nat /\ MaxAge \in Nat
  BY ConstantsAre DEF Forecasts
<1>2. PICK a : a = Min({f.age + 1, MaxAge})
  OBVIOUS
<1>3. a = IF f.age + 1 <= MaxAge THEN f.age + 1 ELSE MaxAge
  BY <1>1, <1>2, MinOfTwo
<1>4. g = [spot |-> f.spot, points |-> f.points, age |-> a]
  BY <1>2 DEF Forecasts, OlderForecast
<1>5. a \in 0..MaxAge
  BY <1>1, <1>3
<1>6. f.spot \in Ids /\ f.points \in Points
  BY DEF Forecasts
<1>7. g \in Forecasts
  BY <1>4, <1>5, <1>6 DEF Forecasts
<1> QED
  BY <1>3, <1>4, <1>7

LEMMA SecondStep ==
  ASSUME OutlookInv, Second
  PROVE  OutlookInv'
<1>1. /\ saved' = saved /\ now' = now /\ selected' = selected /\ due' = due /\ err' = err
      /\ choice' = choice /\ shown' = shown
      /\ due = "no" /\ (selected # 0 => clock < Period)
      /\ clock' = (IF selected = 0 THEN 0 ELSE clock + 1)
  BY DEF Second
<1>2. clock \in Nat /\ since \in Nat /\ clock <= Period /\ since <= TimeLimit + 1
  BY ConstantsAre DEF OutlookInv, OutlookTypeOK
<1>3. \A r \in requests : r \in Request /\ Wanted(r) /\ r.age < TimeLimit /\ r.age = clock /\ r.spot = selected
  BY <1>1, TypesAre DEF Second, InTime, OutlookInv, Asked, Wanted
<1>4. \A r, q \in requests : r = q
  BY <1>3 DEF OutlookInv, Asked
<1>5. ASSUME NEW r \in requests PROVE selected # 0
  BY <1>3, ConstantsAre DEF Request
<1>6. requests' = {OlderRequest(r) : r \in requests}
  BY DEF Second, OlderRequest
<1>7. ASSUME NEW q \in requests'
      PROVE  \E r \in requests :
                 /\ q \in Request /\ Wanted(q) /\ q.age = clock' /\ q.spot = selected
                 /\ (q.read <=> r.read) /\ q.answer = r.answer
  <2>1. PICK r \in requests : q = OlderRequest(r)
    BY <1>6
  <2>2. /\ q \in Request
        /\ (Wanted(q) <=> Wanted(r)) /\ q.age = r.age + 1
        /\ q.spot = r.spot /\ (q.read <=> r.read) /\ q.answer = r.answer
    BY <1>3, <2>1, SecondOfRequest
  <2>3. clock' = clock + 1
    BY <1>1, <1>5
  <2> QED
    BY <1>3, <2>2, <2>3
<1>8. /\ kept' \in Forecasts /\ kept'.spot = kept.spot /\ kept'.points = kept.points
      /\ kept.spot = 0 => kept' = NoForecast
      /\ kept.spot # 0 /\ kept.age + 1 <= MaxAge => kept'.age = kept.age + 1
  <2>1. kept \in Forecasts /\ (kept.spot = 0 => kept = NoForecast)
    BY TypesAre DEF OutlookInv, Stored
  <2>2. CASE kept = NoForecast
    BY <2>1, <2>2, NothingIsTyped DEF Second
  <2>3. CASE kept # NoForecast
    <3>1. PICK g : g = OlderForecast(kept)
      OBVIOUS
    <3>2. kept' = g
      BY <2>3, <3>1 DEF Second, OlderForecast
    <3> QED
      BY <2>1, <2>3, <3>1, <3>2, SecondOfForecast
  <2> QED
    BY <2>2, <2>3
<1>9. since' = IF since + 1 <= TimeLimit + 1 THEN since + 1 ELSE TimeLimit + 1
  BY <1>2, MinOfTwo, ConstantsAre DEF Second
<1>10. clock' \in 0..Period /\ since' \in 0..TimeLimit + 1
  BY <1>1, <1>2, <1>9, ConstantsAre
<1>11. \A s : Wanted(s)' <=> Wanted(s)
  BY DEF Wanted
<1>12. OutlookTypeOK' /\ IsFiniteSet(saved')
  <2>1. \A q \in requests' : q \in Request
    BY <1>7
  <2> QED
    BY <1>1, <1>8, <1>10, <2>1, TypesAre DEF OutlookInv, OutlookTypeOK, Request, Forecasts
<1>13. Asked'
  <2>1. \A q, s \in requests' : q = s
    BY <1>4, <1>6
  <2> QED
    BY <1>1, <1>7, <2>1 DEF Asked
<1>14. Stored' /\ Newer'
  <2>1. \A points : AreSaved(points) => AreSaved(points)'
    BY <1>1 DEF AreSaved
  <2>2. \A q \in requests' : AreSaved(q.answer)
    BY <1>7 DEF OutlookInv, Stored
  <2>3. \A points : Replaces(points) => Replaces(points)'
    BY <1>1, <1>8 DEF Replaces, Past
  <2>4. \A q \in requests' : q.read /\ q.spot = kept.spot => Replaces(q.answer)
    BY <1>3, <1>7 DEF OutlookInv, Newer
  <2>5. Stored'
    BY <1>8, <2>1, <2>2 DEF OutlookInv, Stored
  <2>6. Newer'
    BY <1>8, <2>3, <2>4 DEF Newer
  <2> QED
    BY <2>5, <2>6
<1>15. Aged'
  <2> SUFFICES ASSUME selected # 0, err = 0
               PROVE  IF Waiting'
                        THEN since' = clock' \/ (kept'.spot = selected /\ kept'.age = Period + clock')
                        ELSE kept'.spot = selected /\ kept'.age = clock'
    BY <1>1 DEF Aged
  <2>1. clock' = clock + 1 /\ clock < Period
    BY <1>1
  <2>2. IF Waiting THEN since = clock \/ (kept.spot = selected /\ kept.age = Period + clock)
        ELSE kept.spot = selected /\ kept.age = clock
    BY <1>1 DEF OutlookInv, Aged
  <2>3. CASE Waiting
    <3>1. Waiting' /\ clock < TimeLimit
      BY <1>3, <1>6, <1>7, <2>3 DEF Waiting, Wanted
    <3>2. CASE since = clock
      BY <1>2, <1>9, <2>1, <3>1, <3>2, ConstantsAre
    <3>3. CASE kept.spot = selected /\ kept.age = Period + clock
      <4>1. kept.age + 1 <= MaxAge /\ kept.age + 1 = Period + clock'
        BY <1>2, <2>1, <3>1, <3>3, ConstantsAre
      <4> QED
        BY <1>8, <3>1, <3>3, <4>1
    <3> QED
      BY <2>2, <2>3, <3>2, <3>3
  <2>4. CASE ~ Waiting
    <3>1. ~ Waiting'
      BY <1>3, <1>6, <2>4 DEF Waiting
    <3>2. kept.spot = selected /\ kept.age + 1 <= MaxAge /\ kept.age + 1 = clock'
      BY <1>2, <2>1, <2>2, <2>4, ConstantsAre
    <3> QED
      BY <1>8, <3>1, <3>2
  <2> QED
    BY <2>3, <2>4
<1>16. Own'
  BY <1>1 DEF OutlookInv, Own
<1>17. Seen' /\ Fell' /\ Drawn'
  <2>1. OnScreen' = OnScreen
    BY <1>1, <1>8 DEF OnScreen
  <2> QED
    BY <1>1, <2>1 DEF OutlookInv, Seen, Fell, Drawn, Past
<1> QED
  BY <1>12, <1>13, <1>14, <1>15, <1>16, <1>17 DEF OutlookInv

-----------------------------------------------------------------------------
(* The forecast: effects and answers *)

\* What the effects of a rendering keep.
LEMMA EffectsKeep ==
  ASSUME OutlookInv, RunEffects
  PROVE  /\ kept' \in Forecasts /\ OnScreen' = OnScreen
         /\ kept' = kept \/ (kept' = NoForecast /\ selected # 0 /\ kept.spot # selected)
<1>1. kept' = kept \/ (kept' = NoForecast /\ selected # 0 /\ kept.spot # selected)
  BY DEF RunEffects
<1>2. selected' = selected
  BY DEF RunEffects
<1> QED
  BY <1>1, <1>2, NothingIsTyped, TypesAre DEF OutlookInv, OnScreen

\* The only request that is wanted afterwards is the new one, of the selected spot.
LEMMA EffectsRequest ==
  ASSUME OutlookInv, RunEffects, NEW q \in requests'
  PROVE  /\ q \in Request
         /\ (\E r \in requests : q.answer = r.answer) \/ DOMAIN q.answer = {}
         /\ Wanted(q) => q.age = 0 /\ q.spot = selected /\ q.read = FALSE /\ q = New(selected)
<1>1. CASE q \in Aborted
  <2>1. PICK r \in requests : q = AbortOf(r)
    BY <1>1 DEF Aborted, AbortOf
  <2>2. r \in Request
    BY TypesAre DEF OutlookInv
  <2> QED
    BY <2>1, <2>2, AbortedRequest
<1>2. CASE q \notin Aborted
  <2>1. selected # 0 /\ q = New(selected)
    BY <1>2 DEF RunEffects
  <2>2. selected \in Spots
    BY <2>1 DEF OutlookInv, OutlookTypeOK, Ids
  <2> QED
    BY <2>1, <2>2, NewIsRequest
<1> QED
  BY <1>1, <1>2

LEMMA RunEffectsStep ==
  ASSUME OutlookInv, RunEffects
  PROVE  OutlookInv'
<1>1. /\ saved' = saved /\ now' = now /\ selected' = selected /\ due' = "no"
      /\ due # "no" /\ clock' = 0 /\ since' = 0
      /\ choice' = Cleared /\ Render
      /\ selected # 0 => err' = 0 /\ New(selected) \in requests'
      /\ selected = 0 => err' = err
  BY DEF RunEffects
<1>2. /\ kept' \in Forecasts /\ OnScreen' = OnScreen
      /\ kept' = kept \/ (kept' = NoForecast /\ selected # 0 /\ kept.spot # selected)
  BY EffectsKeep
<1>3. \A q \in requests' :
         /\ q \in Request
         /\ (\E r \in requests : q.answer = r.answer) \/ DOMAIN q.answer = {}
         /\ Wanted(q) => q.age = 0 /\ q.spot = selected /\ q.read = FALSE /\ q = New(selected)
  BY EffectsRequest
<1>4. \A s : Wanted(s)' <=> Wanted(s)
  BY DEF Wanted
<1>5. /\ choice' \in ChoiceStates
      /\ IF due = "spot" THEN choice' = NoChoice ELSE choice' = choice
  BY <1>1, NothingIsTyped, TypesAre DEF Cleared, OutlookInv
<1>6. shown' \in Shown /\ Drawn'
  BY <1>1, <1>2, RenderDraws
<1>7. OutlookTypeOK' /\ IsFiniteSet(saved')
  <2>1. err' \in Ids
    BY <1>1, ConstantsAre, TypesAre DEF OutlookInv
  <2>2. \A q \in requests' : q \in Request
    BY <1>3
  <2>3. clock' \in 0..Period /\ since' \in 0..TimeLimit + 1
    BY <1>1, ConstantsAre
  <2> QED
    BY <1>1, <1>2, <1>5, <1>6, <2>1, <2>2, <2>3, TypesAre
       DEF OutlookInv, OutlookTypeOK, Request, Forecasts, ChoiceStates, Shown
<1>8. Asked' /\ Newer'
  BY <1>1, <1>3, <1>4 DEF Asked, Newer
<1>9. Stored'
  <2>1. \A points : AreSaved(points) => AreSaved(points)'
    BY <1>1 DEF AreSaved
  <2>2. \A q \in requests' : AreSaved(q.answer)
    BY <1>3 DEF OutlookInv, Stored, AreSaved
  <2>3. AreSaved(NoForecast.points)
    BY NothingIsTyped DEF AreSaved
  <2> QED
    BY <1>2, <2>1, <2>2, <2>3 DEF OutlookInv, Stored
<1>10. Aged'
  <2>1. selected # 0 => Waiting'
    <3>1. ASSUME selected # 0 PROVE Wanted(New(selected))
      BY <3>1, NewIsRequest DEF OutlookInv, OutlookTypeOK, Ids
    <3> QED
      BY <1>1, <1>4, <3>1 DEF Waiting
  <2> QED
    BY <1>1, <2>1 DEF Aged
<1>11. Own'
  BY <1>1, <1>5, NothingIsTyped DEF OutlookInv, Own
<1>12. Seen' /\ Fell'
  BY <1>1, <1>2, <1>5, NothingIsTyped DEF OutlookInv, Seen, Fell, Past
<1> QED
  BY <1>6, <1>7, <1>8, <1>9, <1>10, <1>11, <1>12 DEF OutlookInv

\* One request has ended; of what the user sees, the forecast or the error may be
\* another.
LEMMA Ended ==
  ASSUME OutlookInv, NEW r \in requests, requests' = requests \ {r},
         UNCHANGED <<saved, now, selected, due, clock, since, choice>>, Render,
         kept' \in Forecasts, err' \in Ids
  PROVE  /\ OutlookTypeOK' /\ IsFiniteSet(saved') /\ Asked' /\ Drawn'
         /\ Wanted(r) => ~ Waiting'
         /\ ~ Wanted(r) => (Waiting' <=> Waiting)
<1>1. shown' \in Shown /\ Drawn'
  BY RenderDraws
<1>2. OutlookTypeOK' /\ IsFiniteSet(saved')
  BY <1>1, TypesAre DEF OutlookInv, OutlookTypeOK, Request, Forecasts, ChoiceStates, Shown
<1>3. \A s : Wanted(s)' <=> Wanted(s)
  BY DEF Wanted
<1>4. Asked'
  BY <1>3 DEF OutlookInv, Asked
<1>5. (Wanted(r) => ~ Waiting') /\ (~ Wanted(r) => (Waiting' <=> Waiting))
  BY <1>3 DEF OutlookInv, Asked, Waiting
<1> QED
  BY <1>1, <1>2, <1>4, <1>5

\* A request that ends without a change: its effect has been cleaned up.
LEMMA UnwantedStep ==
  ASSUME OutlookInv, NEW r \in requests, ~ Wanted(r), requests' = requests \ {r},
         UNCHANGED <<saved, now, selected, due, clock, since, choice, kept, err>>, Render
  PROVE  OutlookInv'
<1>1. kept \in Forecasts /\ err \in Ids
  BY TypesAre DEF OutlookInv
<1>2. OutlookTypeOK' /\ IsFiniteSet(saved') /\ Asked' /\ Drawn' /\ (Waiting' <=> Waiting)
  BY <1>1, Ended
<1>3. \A s : Wanted(s)' <=> Wanted(s)
  BY DEF Wanted
<1>4. Stored' /\ Newer'
  BY <1>3, AnswersStay DEF OutlookInv, Stored, Newer
<1>5. Aged' /\ Own'
  BY <1>2 DEF OutlookInv, Aged, Own
<1>6. Seen' /\ Fell'
  BY ChoiceStays DEF OutlookInv
<1> QED
  BY <1>2, <1>4, <1>5, <1>6 DEF OutlookInv

LEMMA DeliverStep ==
  ASSUME OutlookInv, NEW r \in requests, Deliver(r)
  PROVE  OutlookInv'
<1>1. /\ requests' = requests \ {r} /\ Render /\ r.read
      /\ UNCHANGED <<saved, now, selected, due, clock, since, choice>>
  BY DEF Deliver
<1>2. CASE ~ Wanted(r)
  <2>1. kept' = kept /\ err' = err
    BY <1>2 DEF Deliver
  <2> QED
    BY <1>1, <1>2, <2>1, UnwantedStep
<1>3. CASE Wanted(r)
  <2>1. PICK k : k = [spot |-> r.spot, points |-> r.answer, age |-> r.age]
    OBVIOUS
  <2>2. kept' = k /\ err' = 0 /\ k.spot = r.spot /\ k.points = r.answer /\ k.age = r.age
    BY <1>3, <2>1 DEF Deliver
  <2>3. r.spot \in Spots /\ r.answer \in Points /\ r.age \in 0..TimeLimit
    BY TypesAre DEF OutlookInv, Request
  <2>4. r.age \in 0..MaxAge
    BY <2>3, ConstantsAre
  <2>5. kept' \in Forecasts
    BY <2>1, <2>2, <2>3, <2>4, ConstantsAre DEF Forecasts
  <2>6. OutlookTypeOK' /\ IsFiniteSet(saved') /\ Asked' /\ Drawn' /\ ~ Waiting'
    BY <1>1, <1>3, <2>2, <2>5, Ended, ConstantsAre
  <2>7. Newer'
    BY <2>6 DEF Newer, Waiting
  <2>8. Stored'
    <3>1. \A points : AreSaved(points) => AreSaved(points)'
      BY <1>1 DEF AreSaved
    <3>2. k.spot # 0
      BY <2>2, <2>3, ConstantsAre
    <3> QED
      BY <1>1, <2>2, <3>1, <3>2 DEF OutlookInv, Stored
  <2>9. Aged' /\ Own'
    BY <1>1, <1>3, <2>2, <2>6 DEF OutlookInv, Asked, Aged, Own
  <2>10. ASSUME due # "spot", NEW t \in OnScreen, ~ Past(t)
         PROVE  t \in OnScreen'
    <3>1. r.spot = selected /\ kept.spot = selected
      BY <1>3, <2>10 DEF OutlookInv, Asked, OnScreen
    <3>2. t \in DOMAIN r.answer
      BY <1>1, <1>3, <2>10, <3>1 DEF OutlookInv, Newer, Replaces, OnScreen
    <3> QED
      BY <1>1, <2>2, <3>1, <3>2 DEF OnScreen
  <2>11. Seen' /\ Fell'
    BY <1>1, <2>10 DEF OutlookInv, Seen, Fell, Past
  <2> QED
    BY <2>6, <2>7, <2>8, <2>9, <2>11 DEF OutlookInv
<1> QED
  BY <1>2, <1>3

LEMMA FailStep ==
  ASSUME OutlookInv, NEW r \in requests, Fail(r)
  PROVE  OutlookInv'
<1>1. /\ requests' = requests \ {r} /\ Render
      /\ UNCHANGED <<saved, now, selected, due, clock, since, choice, kept>>
  BY DEF Fail
<1>2. CASE ~ Wanted(r)
  <2>1. err' = err
    BY <1>2 DEF Fail
  <2> QED
    BY <1>1, <1>2, <2>1, UnwantedStep
<1>3. CASE Wanted(r)
  <2>1. err' = r.spot
    BY <1>3 DEF Fail
  <2>2. r.spot \in Spots /\ kept \in Forecasts
    BY TypesAre DEF OutlookInv, Request
  <2>3. err' \in Ids /\ err' # 0
    BY <2>1, <2>2, ConstantsAre
  <2>4. OutlookTypeOK' /\ IsFiniteSet(saved') /\ Asked' /\ Drawn' /\ ~ Waiting'
    BY <1>1, <1>3, <2>2, <2>3, Ended
  <2>5. Newer'
    BY <2>4 DEF Newer, Waiting
  <2>6. Stored'
    BY <1>1, AnswersStay DEF OutlookInv, Stored
  <2>7. Aged' /\ Own'
    BY <1>1, <1>3, <2>1, <2>3 DEF OutlookInv, Asked, Aged, Own
  <2>8. Seen' /\ Fell'
    BY <1>1, ChoiceStays DEF OutlookInv
  <2> QED
    BY <2>4, <2>5, <2>6, <2>7, <2>8 DEF OutlookInv
<1> QED
  BY <1>2, <1>3

-----------------------------------------------------------------------------
(* The forecast: the user *)

LEMMA SwitchStep ==
  ASSUME OutlookInv, NEW id \in Ids, Switch(id)
  PROVE  OutlookInv'
<1>1. /\ selected' = id /\ due' = "spot" /\ Render
      /\ UNCHANGED <<saved, now, clock, since, requests, kept, err, choice>>
  BY DEF Switch
<1>2. shown' \in Shown /\ Drawn'
  BY <1>1, RenderDraws, TypesAre DEF OutlookInv
<1>3. OutlookTypeOK' /\ IsFiniteSet(saved')
  BY <1>1, <1>2, TypesAre DEF OutlookInv, OutlookTypeOK, Request, Forecasts, ChoiceStates, Shown
<1>4. \A s : Wanted(s)' <=> Wanted(s)
  BY DEF Wanted
<1>5. Asked'
  BY <1>1, <1>4 DEF OutlookInv, Asked
<1>6. Stored' /\ Newer'
  BY <1>1, <1>4, AnswersStay DEF OutlookInv, Stored, Newer
<1>7. Aged' /\ Own' /\ Seen' /\ Fell'
  BY <1>1 DEF Aged, Own, Seen, Fell
<1> QED
  BY <1>2, <1>3, <1>5, <1>6, <1>7 DEF OutlookInv

LEMMA RetryStep ==
  ASSUME OutlookInv, Retry
  PROVE  OutlookInv'
<1>1. /\ due = "no" /\ due' = "retry" /\ Render
      /\ UNCHANGED <<saved, now, selected, clock, since, requests, kept, err, choice>>
  BY DEF Retry
<1>2. shown' \in Shown /\ Drawn'
  BY <1>1, RenderDraws, TypesAre DEF OutlookInv
<1>3. OutlookTypeOK' /\ IsFiniteSet(saved')
  BY <1>1, <1>2, TypesAre DEF OutlookInv, OutlookTypeOK, Request, Forecasts, ChoiceStates, Shown
<1>4. \A s : Wanted(s)' <=> Wanted(s)
  BY DEF Wanted
<1>5. Asked'
  BY <1>1, <1>4 DEF OutlookInv, Asked
<1>6. Stored' /\ Newer'
  BY <1>1, <1>4, AnswersStay DEF OutlookInv, Stored, Newer
<1>7. Aged' /\ Own' /\ Seen' /\ Fell'
  BY <1>1, ChoiceStays DEF OutlookInv, Aged, Own
<1> QED
  BY <1>2, <1>3, <1>5, <1>6, <1>7 DEF OutlookInv

\* A click that chooses changes the choice and what is shown.
LEMMA ChooseStep ==
  ASSUME OutlookInv, NEW chosen \in ChoiceStates, Choose(chosen), chosen.spot = selected,
         chosen.day # 0 => \E t \in Times : Day[t] = chosen.day /\ (Past(t) \/ t \in OnScreen),
         chosen.day # 0 /\ chosen.time # 0 /\ Day[chosen.time] # chosen.day =>
             \E t \in Times : Day[t] = chosen.day /\ Past(t)
  PROVE  OutlookInv'
<1>1. /\ choice' = chosen /\ Render
      /\ UNCHANGED <<saved, now, selected, due, clock, since, requests, kept, err>>
  BY DEF Choose
<1>2. shown' \in Shown /\ Drawn'
  BY <1>1, RenderDraws, TypesAre DEF OutlookInv
<1>3. OutlookTypeOK' /\ IsFiniteSet(saved')
  BY <1>1, <1>2, TypesAre DEF OutlookInv, OutlookTypeOK, Request, Forecasts, ChoiceStates, Shown
<1>4. \A s : Wanted(s)' <=> Wanted(s)
  BY DEF Wanted
<1>5. Asked'
  BY <1>1, <1>4 DEF OutlookInv, Asked
<1>6. Stored' /\ Newer'
  BY <1>1, <1>4, AnswersStay DEF OutlookInv, Stored, Newer
<1>7. Waiting' <=> Waiting
  BY <1>1, <1>4 DEF Waiting
<1>8. Aged' /\ Own'
  BY <1>1, <1>7 DEF OutlookInv, Aged, Own
<1>9. Seen' /\ Fell'
  BY <1>1 DEF Seen, Fell, Past, OnScreen
<1> QED
  BY <1>2, <1>3, <1>5, <1>6, <1>8, <1>9 DEF OutlookInv

LEMMA OnScreenAreTimes ==
  ASSUME OutlookInv
  PROVE  OnScreen \subseteq Times
BY PointsAre, TypesAre DEF OutlookInv, Forecasts, OnScreen

LEMMA ChooseDayStep ==
  ASSUME OutlookInv, ChooseDay
  PROVE  OutlookInv'
<1>1. PICK t \in OnScreen : Choose(ChosenDay(Day[t]))
  BY DEF ChooseDay
<1>2. t \in Times /\ Day[t] \in Nat \ {0}
  BY OnScreenAreTimes, OutlookAssumption
<1>3. PICK c : c = ChosenDay(Day[t])
  OBVIOUS
<1>4. c = [spot |-> selected, day |-> Day[t], time |-> 0]
  BY <1>3 DEF ChosenDay
<1>5. c \in ChoiceStates
  BY <1>2, <1>4, TypesAre DEF OutlookInv, ChoiceStates
<1>6. c.spot = selected /\ c.day = Day[t] /\ c.time = 0
  BY <1>4
<1> QED
  BY <1>1, <1>2, <1>3, <1>5, <1>6, ChooseStep

\* A time of a day other than the chosen one is on offer when the chosen day has
\* no time on the screen: so it has one that is past.
LEMMA ChooseTimeStep ==
  ASSUME OutlookInv, ChooseTime
  PROVE  OutlookInv'
<1>1. PICK t \in DayTimes(OnScreen, choice) : Choose([choice EXCEPT !.spot = selected, !.time = t])
  BY DEF ChooseTime
<1>2. t \in OnScreen /\ Day[t] = ActiveDay(OnScreen, choice) /\ t \in Times
  BY OnScreenAreTimes DEF DayTimes
<1>3. PICK c : c = [choice EXCEPT !.spot = selected, !.time = t]
  OBVIOUS
<1>4. choice \in ChoiceStates /\ selected \in Ids
  BY TypesAre DEF OutlookInv
<1>5. c = [spot |-> selected, day |-> choice.day, time |-> t]
  BY <1>3, <1>4 DEF ChoiceStates
<1>6. c \in ChoiceStates /\ c.spot = selected /\ c.day = choice.day /\ c.time = t
  BY <1>2, <1>4, <1>5 DEF ChoiceStates
<1>7. due = "no"
  BY <1>1 DEF Choose
<1>8. choice.day # 0 => \E u \in Times : Day[u] = choice.day /\ (Past(u) \/ u \in OnScreen)
  BY <1>7 DEF OutlookInv, Seen
<1>9. Day[t] # choice.day => \A u \in OnScreen : Day[u] # choice.day
  BY <1>2 DEF ActiveDay
<1> QED
  BY <1>1, <1>3, <1>6, <1>8, <1>9, ChooseStep

-----------------------------------------------------------------------------
(* The panel *)

PanelInv == instance \in Instances /\ OutlookInv /\ OceanInv

LEMMA InstanceIsTyped ==
  ASSUME instance \in Instances
  PROVE  instance.rows \subseteq Times \X Runs /\ instance.spots \subseteq Ids
BY SpotPanelAssumption

LEMMA PanelStep ==
  ASSUME PanelInv, Panel
  PROVE  OutlookInv'
<1> USE DEF PanelInv
<1>1. CASE RunEffects
  BY <1>1, RunEffectsStep
<1>2. ASSUME NEW r \in requests, Deliver(r) PROVE OutlookInv'
  BY <1>2, DeliverStep
<1>3. ASSUME NEW r \in requests, Fail(r) PROVE OutlookInv'
  BY <1>3, FailStep
<1>4. ASSUME NEW id \in instance.spots, Switch(id) PROVE OutlookInv'
  BY <1>4, SwitchStep, InstanceIsTyped
<1>5. CASE Retry
  BY <1>5, RetryStep
<1>6. CASE ChooseDay
  BY <1>6, ChooseDayStep
<1>7. CASE ChooseTime
  BY <1>7, ChooseTimeStep
<1> QED
  BY <1>1, <1>2, <1>3, <1>4, <1>5, <1>6, <1>7 DEF Panel

LEMMA QuietStep ==
  ASSUME PanelInv, Quiet
  PROVE  OutlookInv'
<1> USE DEF PanelInv
<1>1. ASSUME NEW row \in instance.rows \ saved, Save(row) PROVE OutlookInv'
  BY <1>1, SaveStep, InstanceIsTyped
<1>2. ASSUME NEW r \in requests, Respond(r) PROVE OutlookInv'
  BY <1>2, RespondStep
<1>3. CASE Refresh
  BY <1>3, RefreshStep
<1>4. CASE Second
  BY <1>4, SecondStep
<1>5. CASE Hour
  BY <1>5, HourStep
<1> QED
  BY <1>1, <1>2, <1>3, <1>4, <1>5 DEF Quiet

LEMMA PanelInvStep ==
  ASSUME PanelInv, [Next]_vars
  PROVE  PanelInv'
<1>1. CASE Next
  <2>1. OutlookInv'
    <3>1. CASE Panel
      BY <3>1, PanelStep
    <3>2. CASE Quiet
      BY <3>2, QuietStep
    <3>3. CASE View
      BY <3>3, OutlookStays DEF View, PanelInv
    <3> QED
      BY <1>1, <3>1, <3>2, <3>3 DEF Next
  <2>2. OceanInv'
    BY <1>1, OceanInvStep DEF PanelInv
  <2>3. instance' = instance
    BY <1>1 DEF Next
  <2> QED
    BY <2>1, <2>2, <2>3 DEF PanelInv
<1>2. CASE UNCHANGED vars
  <2>1. UNCHANGED outlookVars /\ UNCHANGED oceanVars /\ instance' = instance
    BY <1>2 DEF vars
  <2> QED
    BY <2>1, OutlookStays, UnchangedOcean DEF PanelInv
<1> QED
  BY <1>1, <1>2

LEMMA PanelInvHolds == Spec => []PanelInv
<1>1. Init => PanelInv
  BY OutlookInvInit, OceanInvInit DEF Init, PanelInv
<1> QED
  BY <1>1, PanelInvStep, PTL DEF Spec

\* Every variable of the panel keeps its type.
THEOREM SpotPanelTypeCorrect == Spec => []TypeOK
<1>1. PanelInv => TypeOK
  BY DEF PanelInv, OutlookInv, OceanInv, TypeOK
<1> QED
  BY <1>1, PanelInvHolds, PTL

\* However spots are switched, refreshed and retried, one request for a forecast
\* at most has an effect that still waits for it: two could be answered in the
\* wrong order.
THEOREM OneRequestIsWanted == Spec => [](\A q, r \in requests : Wanted(q) /\ Wanted(r) => q = r)
<1>1. PanelInv => \A q, r \in requests : Wanted(q) /\ Wanted(r) => q = r
  BY DEF PanelInv, OutlookInv, Asked
<1> QED
  BY <1>1, PanelInvHolds, PTL

\* Answers of another spot neither put an error over the selected spot nor leave
\* it a choice of day and time (the cleanups and the check for an abort in App.tsx).
THEOREM PanelIsOfTheSelectedSpot == Spec => []PanelIsForSelected
<1>1. PanelInv => PanelIsForSelected
  BY DEF PanelInv, OutlookInv, Own, PanelIsForSelected
<1> QED
  BY <1>1, PanelInvHolds, PTL

\* A forecast that is older than a period and a time limit carries the notice, or
\* was selected or retried within one time limit.
THEOREM OldForecastHasNotice == Spec => []NoSilentStaleness
<1>1. ASSUME PanelInv PROVE NoSilentStaleness
  <2> SUFFICES ASSUME due = "no", err = 0, selected # 0, kept.spot = selected, since > TimeLimit
               PROVE  kept.age <= Period + TimeLimit
    BY DEF NoSilentStaleness
  <2>1. clock \in 0..Period
    BY <1>1 DEF PanelInv, OutlookInv, OutlookTypeOK
  <2>2. IF Waiting THEN since = clock \/ kept.age = Period + clock ELSE kept.age = clock
    BY <1>1 DEF PanelInv, OutlookInv, Aged
  <2>3. Waiting => clock \in 0..TimeLimit
    BY <1>1, TypesAre DEF PanelInv, OutlookInv, Asked, Waiting, Request
  <2> QED
    BY <2>1, <2>2, <2>3, ConstantsAre
<1> QED
  BY <1>1, PanelInvHolds, PTL

\* The time the user chose is shown while the forecast has it and the chosen day,
\* unless it is of another day and a time of the chosen one is past.
THEOREM ChosenTimeStays == Spec => []ChosenTimeShown
<1>1. ASSUME PanelInv PROVE ChosenTimeShown
  <2> SUFFICES ASSUME due = "no", choice.time \in OnScreen, NEW t \in OnScreen, Day[t] = choice.day
               PROVE  \/ shown.time = choice.time
                      \/ Day[choice.time] # choice.day /\ \E u \in Times : Day[u] = choice.day /\ u < now - 1
    BY DEF ChosenTimeShown
  <2>1. CASE Day[choice.time] = choice.day
    BY <1>1, <2>1 DEF PanelInv, OutlookInv, Drawn
  <2>2. CASE Day[choice.time] # choice.day
    <3>1. choice.day # 0 /\ choice.time # 0
      BY <1>1, OnScreenAreTimes, OutlookAssumption DEF PanelInv
    <3> QED
      BY <1>1, <2>2, <3>1 DEF PanelInv, OutlookInv, Fell, Past
  <2> QED
    BY <2>1, <2>2
<1> QED
  BY <1>1, PanelInvHolds, PTL

\* No step takes a time that is ahead out of the forecast of the spot or gives it
\* an older run.
LEMMA NeverOlderStep ==
  ASSUME PanelInv, [Next]_vars, NEW t \in DOMAIN kept.points, kept'.spot = kept.spot
  PROVE  Past(t) \/ (t \in DOMAIN kept'.points /\ kept'.points[t] >= kept.points[t])
<1>1. kept \in Forecasts /\ kept.points[t] \in Nat
  <2>1. kept \in Forecasts /\ kept.points \in Points
    BY TypesAre DEF PanelInv, OutlookInv, Forecasts
  <2> QED
    BY <2>1, PointsAre, OutlookAssumption
<1>2. kept'.points = kept.points =>
          t \in DOMAIN kept'.points /\ kept'.points[t] >= kept.points[t]
  BY <1>1
<1>3. CASE RunEffects
  <2>1. kept' = kept \/ kept' = NoForecast
    BY <1>3, EffectsKeep DEF PanelInv
  <2>2. kept' = NoForecast => kept = NoForecast
    BY NothingIsTyped DEF PanelInv, OutlookInv, Stored
  <2> QED
    BY <1>2, <2>1, <2>2
<1>4. CASE \E r \in requests : Deliver(r)
  <2>1. PICK r \in requests : Deliver(r)
    BY <1>4
  <2>2. CASE Wanted(r)
    <3>1. kept'.spot = r.spot /\ kept'.points = r.answer /\ r.read
      BY <2>1, <2>2 DEF Deliver
    <3>2. Replaces(r.answer)
      BY <2>2, <3>1 DEF PanelInv, OutlookInv, Newer
    <3> QED
      BY <3>1, <3>2 DEF Replaces
  <2>3. CASE ~ Wanted(r)
    BY <1>2, <2>1, <2>3 DEF Deliver
  <2> QED
    BY <2>2, <2>3
<1>5. CASE Second
  <2>1. kept' = kept \/ kept' = OlderForecast(kept)
    BY <1>5 DEF Second, OlderForecast
  <2> QED
    BY <1>1, <1>2, <2>1, SecondOfForecast
<1>6. CASE UNCHANGED kept
  BY <1>2, <1>6
<1>7. \/ RunEffects \/ (\E r \in requests : Deliver(r)) \/ Second \/ UNCHANGED kept
  <2>1. Panel => RunEffects \/ (\E r \in requests : Deliver(r)) \/ UNCHANGED kept
    BY DEF Panel, Fail, Switch, Retry, ChooseDay, ChooseTime, Choose
  <2>2. Quiet => Second \/ UNCHANGED kept
    BY DEF Quiet, Save, Respond, Refresh, Hour
  <2>3. View => UNCHANGED kept
    BY DEF View, outlookVars
  <2> QED
    BY <2>1, <2>2, <2>3 DEF Next, vars, outlookVars
<1> QED
  BY <1>3, <1>4, <1>5, <1>6, <1>7

\* While a spot is on the screen, no answer replaces a time of its forecast by an
\* older run or takes one away that is not past, for any order in which runs are
\* saved, read and answered.
THEOREM ForecastNeverOlder == Spec => OutlookNeverOlder
<1>1. ASSUME PanelInv, [Next]_vars
      PROVE  [\A t \in DOMAIN kept.points :
                 kept'.spot = kept.spot =>
                     \/ t < now - 1
                     \/ t \in DOMAIN kept'.points /\ kept'.points[t] >= kept.points[t]]_vars
  BY <1>1, NeverOlderStep DEF Past
<1> QED
  BY <1>1, PanelInvHolds, PTL DEF Spec, OutlookNeverOlder

-----------------------------------------------------------------------------
(* The view *)

\* A canvas has at most one frame on its way, none without an ocean, and none
\* behind the dialog.
THEOREM OneFrameAtATime == Spec => []OneFrame
<1>1. ASSUME PanelInv PROVE OneFrame
  <2>1. \A c \in Canvases : Fine(canvas[c], c, wave, hidden)
    BY <1>1 DEF PanelInv, OceanInv
  <2>2. \A c \in Canvases : canvas[c].frames <= (IF Live(c) THEN 1 ELSE 0)
    BY <2>1 DEF Fine, Single, Live
  <2>3. wave.expanded => canvas["preview"].frames = 0
    BY <2>1 DEF Fine, Canvases
  <2> QED
    BY <2>2, <2>3 DEF OneFrame
<1> QED
  BY <1>1, PanelInvHolds, PTL

\* Where everything asks for an animation a frame is on its way, also between a
\* rendering and its effects.
THEOREM AnimationNeverStalls == Spec => []AnimationGoesOn
<1>1. ASSUME PanelInv PROVE AnimationGoesOn
  <2>1. \A c \in Canvases : Fine(canvas[c], c, wave, hidden)
    BY <1>1 DEF PanelInv, OceanInv
  <2> QED
    BY <2>1 DEF Fine, Asking, AnimationGoesOn, Live, Animating
<1> QED
  BY <1>1, PanelInvHolds, PTL

\* What exists on the GPU is what the live oceans hold and what failed buffers
\* left behind, after any number of refreshes, failures and unmountings.
THEOREM NothingLeaks == Spec => []GpuIsReturned
<1>1. ASSUME PanelInv PROVE GpuIsReturned
  <2>1. gpu = strays + ProgramsOf("preview") + ProgramsOf("dialog") /\ strays \in Nat
    BY <1>1, OceanAssumption DEF PanelInv, OceanInv, OceanTypeOK
  <2>2. PICK L : L = {c \in Canvases : Live(c)}
    OBVIOUS
  <2>3. Cardinality(L) = ProgramsOf("preview") + ProgramsOf("dialog")
    <3>1. CASE Live("preview") /\ Live("dialog")
      <4>1. L = {"preview"} \cup {"dialog"}
        BY <2>2, <3>1 DEF Canvases
      <4>2. IsFiniteSet({"preview"}) /\ Cardinality({"preview"}) = 1
        BY FS_Singleton
      <4>3. Cardinality({"preview"} \cup {"dialog"}) = 2
        BY <4>2, FS_AddElement
      <4> QED
        BY <3>1, <4>1, <4>3 DEF ProgramsOf, Live
    <3>2. CASE Live("preview") /\ ~ Live("dialog")
      <4>1. L = {"preview"}
        BY <2>2, <3>2 DEF Canvases
      <4>2. Cardinality(L) = 1
        BY <4>1, FS_Singleton
      <4>3. ProgramsOf("preview") = 1 /\ ProgramsOf("dialog") = 0
        BY <3>2 DEF ProgramsOf, Live
      <4> QED
        BY <4>2, <4>3
    <3>3. CASE ~ Live("preview") /\ Live("dialog")
      <4>1. L = {"dialog"}
        BY <2>2, <3>3 DEF Canvases
      <4>2. Cardinality(L) = 1
        BY <4>1, FS_Singleton
      <4>3. ProgramsOf("dialog") = 1 /\ ProgramsOf("preview") = 0
        BY <3>3 DEF ProgramsOf, Live
      <4> QED
        BY <4>2, <4>3
    <3>4. CASE ~ Live("preview") /\ ~ Live("dialog")
      <4>1. L = {}
        BY <2>2, <3>4 DEF Canvases
      <4> QED
        BY <3>4, <4>1, FS_EmptySet DEF ProgramsOf, Live
    <3> QED
      BY <3>1, <3>2, <3>3, <3>4
  <2>4. ProgramsOf("preview") \in Nat /\ ProgramsOf("dialog") \in Nat
    BY DEF ProgramsOf
  <2> QED
    BY <2>1, <2>2, <2>3, <2>4 DEF GpuIsReturned
<1> QED
  BY <1>1, PanelInvHolds, PTL

=============================================================================
