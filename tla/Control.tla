------------------------------- MODULE Control ------------------------------
(***************************************************************************)
(* The dongle as the configuration page meets it: it starts (Startup),     *)
(* serves the page once USB is up (FeatureReport), and the power may be    *)
(* cut at any moment.                                                      *)
(***************************************************************************)
EXTENDS FeatureReport, Startup

controlVars == <<featureVars, startupVars>>

ControlTypeOK == FeatureTypeOK /\ StartupTypeOK

ControlInit == FeatureInit /\ StartupInit

(* usb_nintendo_init has run: it creates usb_input_task.                    *)
UsbUp == boot = "usb"

Served(action) == UsbUp /\ action /\ UNCHANGED startupVars

Starts == StartupStep /\ UNCHANGED featureVars

Cut == Boot /\ PowerCut

ControlNext == Served(FeatureNext) \/ Starts \/ Cut

(* The tasks run.  Nothing is assumed of the page.                          *)
ControlSpec ==
    /\ ControlInit /\ [][ControlNext]_controlVars
    /\ WF_controlVars(Served(FeatureTask))
    /\ WF_controlVars(Starts)
=============================================================================
