--------------------------------- MODULE Game ---------------------------------
(***************************************************************************)
(* indie::bomberman::Game (bomberman/src/Game.cpp, Window.cpp, Main.cpp):  *)
(* the program makes its window system and updates the system manager as   *)
(* long as _is_running.                                                    *)
(***************************************************************************)
EXTENDS SystemManager

CONSTANT window  \* the type Window, one of Types

VARIABLES phase,     \* how far main() is: making the game, looping, exited
          isRunning, \* _is_running
          device     \* the video device: none, open, or closed by the user

gameVars == <<typeId, systems, active, pass, phase, isRunning, device>>

GameInit ==
  /\ Init
  /\ phase = "making"
  /\ isRunning = TRUE
  /\ device = "none"

\* Window(title), called by Add<Window>: createDevice works or the program ends.
MakeWindow ==
  /\ phase = "making"
  /\ Add(window)
  /\ phase' = "looping"
  /\ device' = "open"
  /\ UNCHANGED isRunning

MakeWindowFails ==
  /\ phase = "making"
  /\ phase' = "aborted"
  /\ UNCHANGED <<vars, isRunning, device>>

\* while (_is_running) _sm.Update();  Window::Update() only calls the device's
\* run() and does nothing with its result.
LoopBody ==
  /\ phase = "looping"
  /\ \/ isRunning /\ StartUpdate
     \/ Visit
     \/ SystemReturns
     \/ EndUpdate
  /\ UNCHANGED <<phase, isRunning, device>>

\* The constructor returns, main() logs "Program exited correctly" and ends.
LoopEnds ==
  /\ phase = "looping"
  /\ ~pass.running
  /\ ~isRunning
  /\ phase' = "exited"
  /\ UNCHANGED <<vars, isRunning, device>>

\* The user closes the window: run() returns false from then on.
UserCloses ==
  /\ device = "open"
  /\ device' = "closed"
  /\ UNCHANGED <<vars, phase, isRunning>>

GameNext ==
  MakeWindow \/ MakeWindowFails \/ LoopBody \/ LoopEnds \/ UserCloses

\* The one thread of the program goes on; the user need not do anything.
GameSpec ==
  /\ GameInit /\ [][GameNext]_gameVars
  /\ WF_gameVars(LoopBody) /\ WF_gameVars(LoopEnds)

-----------------------------------------------------------------------------
\* "Program exited correctly" (Main.cpp): once its window has been closed the
\* program ends.
ExitsWhenClosed == device = "closed" ~> phase = "exited"
=============================================================================
