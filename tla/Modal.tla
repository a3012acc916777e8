------------------------------- MODULE Modal -------------------------------
(***************************************************************************)
(* The modal windows of ui-bootstrap ($modal, $modalStack): a window waits *)
(* for its template and for what it is to be resolved with, gets a scope   *)
(* and a controller, and is put on the stack of opened windows.  Windows   *)
(* that have a backdrop share one.  Anybody may close or dismiss a window  *)
(* at any time, wherever it stands in the stack, or several times.         *)
(***************************************************************************)
EXTENDS Integers, Sequences, FiniteSets, Functions

CONSTANTS Windows, \* instances that $modal.open() returns
          MaxFaults \* controllers that throw, templates that do not come

VARIABLES windows,
          openedWindows, \* the stack, the last one is on top
          backdrop,      \* backdropDomEl is in the document
          faults,
          disordered     \* a window below another one was closed

moVars == <<windows, openedWindows, backdrop, faults, disordered>>

Backdrops == {"none", "static", "closing"} \* false, 'static' and true

Unused == [stage |-> "unused", backdrop |-> "none", keyboard |-> FALSE, index |-> -1,
           scope |-> "none", element |-> FALSE, result |-> "pending", opened |-> "pending"]

MoInit ==
  /\ windows = [w \in Windows |-> Unused]
  /\ openedWindows = <<>> /\ backdrop = FALSE /\ faults = 0 /\ disordered = FALSE

\* backdropIndex() # -1: a window of this stack has a backdrop
Backdropped(stack) == \E w \in Range(stack) : windows[w].backdrop # "none"

Settle(w, outcome) == IF windows[w].result = "pending" THEN outcome ELSE windows[w].result

-----------------------------------------------------------------------------
(* $modal.open() *)

Open(w, back, keyboard) ==
  /\ windows[w].stage = "unused"
  /\ windows' = [windows EXCEPT ![w] = [Unused EXCEPT !.stage = "loading", !.backdrop = back,
                                                      !.keyboard = keyboard]]
  /\ UNCHANGED <<openedWindows, backdrop, faults, disordered>>

\* resolveSuccess(): the window gets its scope and its controller and goes on the stack.
Loaded(w) ==
  /\ windows[w].stage = "loading"
  /\ windows' = [windows EXCEPT ![w].stage = "open", ![w].opened = "yes", ![w].scope = "alive",
                                ![w].element = TRUE, ![w].index = Len(openedWindows)]
  /\ openedWindows' = Append(openedWindows, w)
  /\ backdrop' = (backdrop \/ Backdropped(openedWindows) \/ windows[w].backdrop # "none")
  /\ UNCHANGED <<faults, disordered>>

\* The controller throws: the scope is made already, the result stays pending.
ControllerThrows(w) ==
  /\ windows[w].stage = "loading" /\ faults < MaxFaults /\ faults' = faults + 1
  /\ windows' = [windows EXCEPT ![w].stage = "broken", ![w].opened = "yes", ![w].scope = "alive"]
  /\ UNCHANGED <<openedWindows, backdrop, disordered>>

\* resolveError()
NotLoaded(w) ==
  /\ windows[w].stage = "loading" /\ faults < MaxFaults /\ faults' = faults + 1
  /\ windows' = [windows EXCEPT ![w].stage = "broken", ![w].opened = "no",
                                ![w].result = Settle(w, "dismissed")]
  /\ UNCHANGED <<openedWindows, backdrop, disordered>>

-----------------------------------------------------------------------------
(* $modalStack.close() and dismiss() *)

Top == openedWindows[Len(openedWindows)]

\* remove() of the stack: splice() at the place of the window.
Removed(w) ==
  LET i == CHOOSE i \in DOMAIN openedWindows : openedWindows[i] = w
  IN SubSeq(openedWindows, 1, i - 1) \o SubSeq(openedWindows, i + 1, Len(openedWindows))

\* Mutant: the backdrop is looked for while the window is on the stack.
LeftWith(w) == openedWindows

\* The stack once the window is removed from it
Left(w) == Removed(w)

\* removeModalWindow(): without any backdrop to remove it throws, before the scope is
\* destroyed.
RemoveModalWindow(w, outcome) ==
  LET bare == ~Backdropped(Left(w)) IN
  /\ windows' = [windows EXCEPT ![w].stage = "closed", ![w].result = Settle(w, outcome),
                                ![w].element = FALSE,
                                ![w].scope = IF bare /\ ~backdrop THEN @ ELSE "destroyed"]
  /\ openedWindows' = Removed(w)
  /\ backdrop' = (backdrop /\ ~bare)
  /\ disordered' = (disordered \/ w # Top)
  /\ UNCHANGED faults

\* A window that is not on the stack is not closed, and throws when it is dismissed.
Close(w) == w \in Range(openedWindows) /\ RemoveModalWindow(w, "closed")
Dismiss(w) == w \in Range(openedWindows) /\ RemoveModalWindow(w, "dismissed")

\* The handler of the escape key
Escape ==
  /\ openedWindows # <<>> /\ windows[Top].keyboard
  /\ Dismiss(Top)

\* The backdrop's close()
ClickBackdrop ==
  /\ backdrop /\ openedWindows # <<>>
  /\ windows[Top].backdrop = "closing"
  /\ Dismiss(Top)

MoNext ==
  \/ \E w \in Windows : \/ \E back \in Backdrops, keyboard \in BOOLEAN : Open(w, back, keyboard)
                        \/ Loaded(w) \/ ControllerThrows(w) \/ NotLoaded(w)
                        \/ Close(w) \/ Dismiss(w)
  \/ Escape \/ ClickBackdrop

MoSpec == MoInit /\ [][MoNext]_moVars

-----------------------------------------------------------------------------
(* Properties *)

\* Type correctness of the windows and their stack.
MoTypeOK ==
  /\ openedWindows \in Seq(Windows) /\ IsInjective(openedWindows)
  /\ \A w \in Windows : /\ windows[w].stage \in {"unused", "loading", "open", "broken", "closed"}
                        /\ windows[w].result \in {"pending", "closed", "dismissed"}
                        /\ windows[w].index \in -1 .. Cardinality(Windows) - 1
  /\ backdrop \in BOOLEAN /\ faults \in 0 .. MaxFaults

\* There is a backdrop in the document exactly as long as a window that wants one is open.
BackdropWhileWanted == backdrop = Backdropped(openedWindows)

\* A window has an element as long as it is on the stack, and no longer a scope when it was
\* closed.  (One that was alone, without a backdrop, keeps its scope: its removal throws.)
ClosedIsGone ==
  \A w \in Windows :
    /\ windows[w].element <=> w \in Range(openedWindows)
    /\ windows[w].stage = "closed" /\ windows[w].scope # "destroyed" => windows[w].backdrop = "none"

\* The window on top lies over those below it (its z-index is the greater, by its index),
\* as long as windows are closed from the top.
TopLiesAbove ==
  ~disordered => \A i, j \in DOMAIN openedWindows :
                   i < j => windows[openedWindows[i]].index < windows[openedWindows[j]].index

\* Whoever opened a window is told what became of it once, when it leaves the stack or
\* could not be put on it; one whose controller throws leaves them waiting.
ToldOnce ==
  [][\A w \in Windows :
       windows'[w].result # windows[w].result =>
         /\ windows[w].result = "pending"
         /\ windows'[w].stage \in {"closed", "broken"} /\ w \notin Range(openedWindows')]_moVars
===============================================================================
