----------------------------- MODULE MCScheduler ----------------------------
(***************************************************************************)
(* Traces and machines on which Scheduler is checked.  Each is a few rows: *)
(* enough for a class to be full, for a job of two GPUs to wait and be     *)
(* overtaken, and for arrivals to fall in every phase of the loop.         *)
(***************************************************************************)
EXTENDS Scheduler

Rows6 == 1 .. 6
Rows7 == 1 .. 7

\* Two GPUs.  Rows 1, 2 and 6 want one class that admits one job, rows 3 to 5
\* one that admits two; jobs of two GPUs wait and are overtaken.  Rows 5, 6
\* and 7 end the loop with an exception: no GPU asked for, a model name
\* Task.run does not know, more than two GPUs.
MixPriority == <<"low", "low", "mps", "mps", "mps", "low", "low">>
MixGpus     == <<1, 2, 1, 2, 0, 1, 3>>
MixTimes    == <<0, 0, 0, 1, 1, 4, 5>>
MixModel    == <<"bert", "gcn", "torchvision", "dlrm", "text_",
                 "tf-resnet-eager", "bert">>

\* One GPU.  The first row asks for two and never fits; three jobs share the
\* GPU's two slots of a class, two take turns in a class of one.
WaitPriority == <<"high", "shared", "shared", "shared", "mig-low", "mig-low">>
WaitGpus     == <<2, 1, 1, 1, 1, 1>>
WaitTimes    == <<0, 0, 0, 2, 2, 2>>
WaitModel    == <<"megatron-gpt", "text-infer", "gcn", "bert", "dlrm", "bert">>
=============================================================================
