----------------------------- MODULE ScreenRouter -----------------------------
(***************************************************************************)
(* ScreenRouter: the screen the user sees and the screens Back leads       *)
(* through.  What the screens do when they are entered and left is up to   *)
(* the modules that navigate.                                              *)
(***************************************************************************)
EXTENDS Naturals, Sequences

CONSTANTS Screens, Home    \* the registered screens, and the one App shows first

VARIABLES
    current,    \* the current widget of the stack
    history     \* _history

routerVars == <<current, history>>

InitRouter == current = Home /\ history = <<>>

\* The screen that is left is pushed, unless it is on top already.
Pushed(h, name) ==
    IF h # <<>> /\ h[Len(h)] = name THEN h ELSE Append(h, name)

\* show: a screen that is already shown is only entered again.
Show(name) ==
    /\ current' = name
    /\ history' = IF current = name THEN history ELSE Pushed(history, current)

CanGoBack == history # <<>>

\* back.
Back ==
    /\ CanGoBack
    /\ current' = history[Len(history)]
    /\ history' = SubSeq(history, 1, Len(history) - 1)
=============================================================================
