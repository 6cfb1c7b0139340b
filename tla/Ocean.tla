------------------------------- MODULE Ocean -------------------------------
(***************************************************************************)
(* The beach view of web/src/Wave.tsx: the canvas in the page, the larger  *)
(* one in a dialog, their animation frames, and the WebGL objects that     *)
(* createOcean of web/src/ocean.ts makes and dispose deletes.              *)
(*                                                                         *)
(* A canvas gets a new ocean from its effect whenever its forecast point   *)
(* is another object, which is so after every refresh.  The effect runs    *)
(* some time after the rendering (`due`), and frames, observers and events *)
(* come in between.  A click is rendered, and its effects run, before the  *)
(* next event.  What is drawn, and when a frame is skipped to limit the    *)
(* rate, is left out; a frame that is skipped asks for the next one too.   *)
(***************************************************************************)
EXTENDS Integers, FiniteSetsExt

CONSTANT MaxStrays   \* bound: oceans that fail after their program was linked

ASSUME OceanAssumption == MaxStrays \in Nat

VARIABLES
    wave,    \* the Wave component: mounted, playing, expanded
    canvas,  \* its canvases
    hidden,  \* document.hidden
    gpu,     \* programs, with their shaders, that exist
    strays   \* history: of them, those that a failed createOcean left behind

oceanVars == <<wave, canvas, hidden, gpu, strays>>

Canvases == {"preview", "dialog"}

Canvas ==
    [ocean : {"none", "live", "failed"},
     frames : 0..2,      \* animation frames asked for and not yet run or cancelled
     visible : BOOLEAN,  \* what the intersection observer last said
     lost : BOOLEAN,     \* the WebGL context is lost
     due : {"none", "renew", "remove"}]   \* the effect or its cleanup that has to run

OceanTypeOK ==
    /\ wave \in [mounted : BOOLEAN, playing : BOOLEAN, expanded : BOOLEAN]
    /\ canvas \in [Canvases -> Canvas]
    /\ hidden \in BOOLEAN
    /\ gpu \in Nat
    /\ strays \in 0..MaxStrays

Blank == [ocean |-> "none", frames |-> 0, visible |-> TRUE, lost |-> FALSE, due |-> "none"]

OceanInit ==
    /\ wave = [mounted |-> FALSE, playing |-> FALSE, expanded |-> FALSE]
    /\ canvas = [c \in Canvases |-> Blank]
    /\ hidden = FALSE
    /\ gpu = 0
    /\ strays = 0

\* React runs the effects of a rendering before the next click or rendering.
Rendered == \A c \in Canvases : canvas[c].due = "none"

-----------------------------------------------------------------------------
(* Frames *)

\* The preview is not enabled while the dialog shows the view.
Enabled(c, w) == c = "dialog" \/ ~w.expanded

Animating(c, w, h) == w.playing /\ Enabled(c, w) /\ canvas[c].visible /\ ~h

Cancelled(k) == [k EXCEPT !.frames = IF @ = 0 THEN 0 ELSE @ - 1]

\* Mutant of Redrawn: the frame that is on its way is not cancelled first.
RedrawnTwice(k, enabled) ==
    IF k.ocean = "live" /\ enabled
      THEN [k EXCEPT !.frames = IF @ = 2 THEN 2 ELSE @ + 1] ELSE k

Redrawn(k, enabled) ==
    IF k.ocean # "live" THEN k
    ELSE IF enabled THEN [Cancelled(k) EXCEPT !.frames = @ + 1] ELSE Cancelled(k)

\* The browser runs the frame; none runs while the page is hidden.  The frame
\* that was asked for last is cancelled if an older one runs.
Draw(c) ==
    /\ ~hidden
    /\ canvas[c].frames > 0
    /\ canvas' = [canvas EXCEPT ![c].frames = IF Animating(c, wave, hidden) THEN 1 ELSE 0]
    /\ UNCHANGED <<wave, hidden, gpu, strays>>

\* The callbacks of the two observers.
Intersect(c, visible) ==
    /\ canvas[c].ocean = "live"
    /\ LET k == [canvas[c] EXCEPT !.visible = visible]
       IN  canvas' = [canvas EXCEPT ![c] = IF visible THEN Redrawn(k, Enabled(c, wave)) ELSE Cancelled(k)]
    /\ UNCHANGED <<wave, hidden, gpu, strays>>

Resize(c) ==
    /\ canvas[c].ocean = "live"
    /\ canvas' = [canvas EXCEPT ![c] = Redrawn(@, Enabled(c, wave))]
    /\ UNCHANGED <<wave, hidden, gpu, strays>>

VisibilityChange ==
    /\ hidden' = ~hidden
    /\ canvas' = [c \in Canvases |-> Redrawn(canvas[c], Enabled(c, wave))]
    /\ UNCHANGED <<wave, gpu, strays>>

ContextLost(c) ==
    /\ canvas[c].ocean = "live"
    /\ ~canvas[c].lost
    /\ canvas' = [canvas EXCEPT ![c] = [Cancelled(@) EXCEPT !.lost = TRUE]]
    /\ UNCHANGED <<wave, hidden, gpu, strays>>

-----------------------------------------------------------------------------
(* Clicks *)

\* Mutant of Toggled: the effect that redraws does not depend on enabled.
ToggledOnPlay(w, c) == w.playing # wave.playing

\* The effect on [playing, enabled].
Toggled(w, c) == w.playing # wave.playing \/ Enabled(c, w) # Enabled(c, wave)

Click(w, next) ==
    /\ wave.mounted
    /\ Rendered
    /\ wave' = w
    /\ canvas' = [c \in Canvases |-> IF Toggled(w, c) THEN Redrawn(next[c], Enabled(c, w)) ELSE next[c]]
    /\ UNCHANGED <<hidden, gpu, strays>>

\* The button, in the page or in the dialog, and a change to reduced motion.
TogglePlaying == Click([wave EXCEPT !.playing = ~@], canvas)

Expand ==
    /\ ~wave.expanded
    /\ Click([wave EXCEPT !.expanded = TRUE],
             [canvas EXCEPT !["dialog"] = [Blank EXCEPT !.due = "renew"]])

Collapse ==
    /\ wave.expanded
    /\ Click([wave EXCEPT !.expanded = FALSE], [canvas EXCEPT !["dialog"].due = "remove"])

-----------------------------------------------------------------------------
(* Points and effects *)

\* The panel renders the view with another point, or for the first time.
ShowPoint(playing) ==
    /\ Rendered
    /\ wave' = IF wave.mounted THEN wave
               ELSE [mounted |-> TRUE, playing |-> playing, expanded |-> FALSE]
    /\ canvas' = [c \in Canvases |->
                    IF c = "preview" \/ wave.expanded THEN [canvas[c] EXCEPT !.due = "renew"]
                                                     ELSE canvas[c]]
    /\ UNCHANGED <<hidden, gpu, strays>>

\* The panel renders without the view, which forgets what was chosen there.
ShowNoPoint ==
    /\ Rendered
    /\ wave' = [mounted |-> FALSE, playing |-> FALSE, expanded |-> FALSE]
    /\ canvas' = [c \in Canvases |-> IF canvas[c] = Blank THEN Blank
                                     ELSE [canvas[c] EXCEPT !.due = "remove"]]
    /\ UNCHANGED <<hidden, gpu, strays>>

\* Mutants of ProgramsOf: the cleanup forgets dispose, or disposes of an ocean
\* that could not be made as well.
ProgramsForgotten(c) == 0
ProgramsDisposedOfAnyway(c) == IF canvas[c].ocean = "none" THEN 0 ELSE 1

ProgramsOf(c) == IF canvas[c].ocean = "live" THEN 1 ELSE 0

\* The cleanup of the effect: the frame cancelled, the observers disconnected.
Disposed(c) == [Blank EXCEPT !.frames = Cancelled(canvas[c]).frames]

Remove(c) ==
    /\ canvas[c].due = "remove"
    /\ canvas' = [canvas EXCEPT ![c] = Disposed(c)]
    /\ gpu' = gpu - ProgramsOf(c)
    /\ UNCHANGED <<wave, hidden, strays>>

\* The cleanup, then the effect.  createOcean may fail before it has made
\* anything or after it has deleted what it made, or else for want of a buffer:
\* then the program and its shaders stay behind.
Outcomes == {"live", "failed", "stray"}

Renew(c, outcome) ==
    /\ canvas[c].due = "renew"
    /\ outcome = "stray" => strays < MaxStrays
    /\ canvas' = [canvas EXCEPT ![c] =
          IF outcome = "live" THEN Redrawn([Disposed(c) EXCEPT !.ocean = "live"], Enabled(c, wave))
                              ELSE [Disposed(c) EXCEPT !.ocean = "failed"]]
    /\ gpu' = gpu - ProgramsOf(c) + (IF outcome = "failed" THEN 0 ELSE 1)
    /\ strays' = strays + (IF outcome = "stray" THEN 1 ELSE 0)
    /\ UNCHANGED <<wave, hidden>>

-----------------------------------------------------------------------------
(* Properties *)

Live(c) == canvas[c].ocean = "live"

\* A canvas has one frame on its way at most, and none without an ocean, however
\* refreshes, clicks, observers and the tab's visibility follow each other: two
\* would double the rate and one without an ocean draw with what was deleted.
\* While the dialog shows the view, the preview behind it asks for none.
OneFrame ==
    /\ \A c \in Canvases : canvas[c].frames <= (IF Live(c) THEN 1 ELSE 0)
    /\ wave.expanded => canvas["preview"].frames = 0

\* An animation that was paused, scrolled away, hidden or covered by the dialog
\* goes on afterwards: where everything asks for it, a frame is on its way.
AnimationGoesOn ==
    \A c \in Canvases :
        Live(c) /\ ~canvas[c].lost /\ Animating(c, wave, hidden)
            => canvas[c].frames > 0

\* The thirty-second refresh makes a new ocean on every canvas that is shown.
\* Whatever order refreshes, failures and unmounting come in, what exists on the
\* GPU is what the live oceans hold, apart from what a failed buffer left behind.
GpuIsReturned == gpu = strays + Cardinality({c \in Canvases : Live(c)})

=============================================================================
