------------------------------- MODULE MCMain -------------------------------
(***************************************************************************)
(* The main program, one view of it in a behaviour: the steps that derive  *)
(* the layout from the boot sector, with the program's constants; the name *)
(* of the volume, from the same sector; and the conversion as a whole,     *)
(* with crashes and restarts, on small layouts.                            *)
(***************************************************************************)
EXTENDS MCStartup, MCConverter, MCVolumeLabel

\* The views that are not looked at stay at one state.
StartupIdle ==
  boot_sector = <<>> /\ data_start = 0 /\ sb = NoSuperblock /\ extents = <<>> /\ pc = "idle"

ConversionIdle ==
  /\ layout = [data_start |-> 0] /\ files = <<>> /\ path = "none" /\ size = 0
  /\ mem = <<>> /\ versions = <<>>
  /\ blocked = {} /\ avail = {} /\ pages = {} /\ map = <<>> /\ indexed = {} /\ f = 1 /\ i = 0
  /\ committed = FALSE /\ runs = 0
  /\ step = "idle"

LabelIdle ==
  /\ ext_boot_signature = 0 /\ volume_id = <<>> /\ volume_label = <<>>
  /\ index = 0 /\ out = <<>>
  /\ label_pc = "idle"

MainInit ==
  \/ Init /\ ConversionIdle /\ LabelIdle
  \/ StartupIdle /\ ConversionInit /\ LabelIdle
  \/ StartupIdle /\ ConversionIdle /\ LabelInit

MainNext ==
  \/ Next /\ UNCHANGED <<conversionVars, labelVars>>
  \/ step # "idle" /\ ConversionNext /\ UNCHANGED <<vars, labelVars>>
  \/ LabelNext /\ UNCHANGED <<vars, conversionVars>>

MainSpec ==
  /\ MainInit /\ [][MainNext]_<<vars, conversionVars, labelVars>>
  /\ WF_conversionVars(Work)
=============================================================================
