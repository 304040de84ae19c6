---------------------------- MODULE MCCrashReport ----------------------------
(* CrashReport on a PC with two drivers of interest and six findings. *)
EXTENDS CrashReport

Order  == <<"boot_path", "driver_class", "gpu", "ndis", "ntoskrnl",
            "platform_chipset", "storport">>
Mapped == [m \in Modules |-> CASE m = "gpu"      -> <<"card", "dock">>
                               [] m = "storport" -> <<"disk">>
                               [] OTHER          -> <<>>]
Guesses == {"ntoskrnl", "storport", "ndis"}

SomePicks == {{"dock"}, {"card"}}

SomeAnswers == [n \in Names |-> CASE n = "card"  -> {"newer", "same"}
                                  [] n = "suite" -> {"same", "stale"}
                                  [] OTHER       -> {"newer"}]

Quiet == [crash |-> TRUE, dump |-> "none", fault |-> None,
          recurring |-> None, stack |-> "driver", irql |-> FALSE,
          boot |-> "none", chipset |-> FALSE, wer |-> {}, sick |-> {},
          raises |-> FALSE]

\* A shutdown without a dump, a dump that names a driver (twice), one that
\* names only the kernel, an old dump, and an old dump whose verification raises.
SomeCases ==
  { [Quiet EXCEPT !.boot = "storage", !.chipset = TRUE, !.wer = {"gpu"}],
    [Quiet EXCEPT !.dump = "latest", !.fault = "gpu",
                  !.recurring = "storport", !.irql = TRUE],
    [Quiet EXCEPT !.dump = "latest", !.fault = "storport", !.boot = "graphics"],
    [Quiet EXCEPT !.dump = "latest", !.fault = "ntoskrnl",
                  !.stack = "top", !.sick = {"disk"}],
    [Quiet EXCEPT !.dump = "old", !.fault = "gpu"],
    [Quiet EXCEPT !.dump = "old", !.fault = "gpu", !.raises = TRUE] }
=============================================================================
