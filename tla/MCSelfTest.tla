----------------------------- MODULE MCSelfTest -----------------------------
(* A small instance of SelfTest for TLC: a radio whose width and break-in   *)
(* exist in CW only, and one that can do everything but has little to set.  *)
EXTENDS SelfTest
MCTestRadios ==
    {[has |-> {"mode", "data_mode", "frequency", "passband", "break_in", "preamp", "notch"},
      cwOnly |-> {"passband", "break_in"}, can |-> {"ptt"}],
     [has |-> {"mode", "data_mode", "frequency", "filter_slot", "power", "tx_audio_gain",
               "antenna", "vfo_b"},
      cwOnly |-> {}, can |-> {"ptt", "cw", "tune", "exchange", "off", "both_vfos"}]}
=============================================================================
