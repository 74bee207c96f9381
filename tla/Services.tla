------------------------------ MODULE Services ------------------------------
(***************************************************************************)
(* What stands between the application and the operating system.           *)
(***************************************************************************)
EXTENDS Statements, TLC

IpadosMultitasking == Wrapper
OsMediaControls    == Wrapper
SafeAreaHandler    == Wrapper
SystemMenu         == Owner(Copies)

NativeDialog ==
  [create     |-> Block,
   get_result |-> IfSet("result", Maybe(Fails({})) \o Use("result")),
   set_result |-> Clear("result") \o New("result"),
   destroy    |-> Release("result") \o Unblock]

\* The titles are freed, and go on pointing to what was when there are no new ones.
MediaPlayer ==
  [create             |-> Block,
   update_now_playing |-> Release("title") \o New("title") \o Release("artist") \o New("artist"),
   destroy            |-> ReleaseAll(<<"title", "artist">>) \o Unblock]

FileWatcher ==
  [create  |-> Block,
   start   |-> Clear("watch") \o New("watch"),
   stop    |-> Clear("watch"),
   destroy |-> Clear("watch") \o Unblock]

Services ==
  [IpadosMultitasking |-> IpadosMultitasking, OsMediaControls |-> OsMediaControls,
   SafeAreaHandler |-> SafeAreaHandler, SystemMenu |-> SystemMenu,
   NativeDialog |-> NativeDialog, MediaPlayer |-> MediaPlayer, FileWatcher |-> FileWatcher]

ServiceFaults == {"MediaPlayer"} \X {"freed twice"} \X {"update_now_playing", "destroy"}
=============================================================================
