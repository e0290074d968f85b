------------------------------ MODULE MCSession ------------------------------
(* A small instance of Session for TLC, and each part's properties under    *)
(* names a configuration can give.                                          *)
EXTENDS Session

\* A meter, the switch it depends on, settings that are there or not.
MCTouched == {"ptt", "swr", "alc", "preamp", "mode"}

MCFrontEnd == {"attenuator_db", "preamp", "ip_plus", "digi_sel", "digi_sel_shift",
               "agc", "rf_gain"}
MCNoise == {"noise_blanker", "nb_level", "noise_reduction", "nr_level", "auto_notch",
            "notch", "notch_width", "notch_freq", "antenna", "rx_antenna"}
MCTXAudio == {"tx_audio_gain", "proc", "proc_level"}

\* A field alone, a group whole, and the pairs that act on each other.
MCRequests ==
    {{f} : f \in {"mode", "data_mode", "frequency", "filter_slot", "filter_width_hz",
                  "exchange_bands", "vfo_mode", "tuner_tune", "nb_level", "power",
                  "break_in", "split", "dual_watch", "tuner", "ptt"}}
    \cup {MCFrontEnd, MCNoise, MCTXAudio}
    \cup {{"mode", "data_mode"}, {"mode", "frequency", "filter_slot"},
          {"mode", "filter_width_hz"}, {"noise_blanker", "nb_level"},
          {"exchange_bands", "frequency"}, {"vfo_mode", "tuner_tune"},
          {"tuner_tune", "frequency"}, {"frequency", "mode", "ptt"}}

\* A radio whose width and break-in exist in CW only; one that can do everything
\* and has less to set.
MCTestRadios ==
    {[has |-> {"mode", "data_mode", "frequency", "passband", "break_in", "preamp", "notch"},
      cwOnly |-> {"passband", "break_in"}, can |-> {"ptt"}],
     [has |-> {"mode", "data_mode", "frequency", "filter_slot", "power", "tx_audio_gain",
               "antenna", "vfo_b"},
      cwOnly |-> {}, can |-> {"ptt", "cw", "tune", "exchange", "off", "both_vfos"}]}

\* A request with a fault in it reaches no write; of one without, no write
\* undoes another nor finds the radio unable to take it (ApplyPatch's
\* validation and order).
WholeOrNothing == part = "patch" => Patching!RefusedWritesNothing /\ Patching!WriteIsKept

\* The answer is what the radio holds (ApplyPatch's read-back).
AnswerIsTheRadio == part = "patch" => Patching!AnswerIsTheRadio

\* A tuning cycle transmits inside the band limits (ApplyPatch).
TunesInsideBands == part = "patch" => Patching!TunesInsideBands

\* The polls find out all there is, a refusal of one costs a tier of a Kenwood
\* once, and a command that succeeds has been done, is shown, and moved nothing
\* else (Rig of the kenwood, the civ and the yaesu backend).
RadioIsTold == /\ part = "kenwood" => OverKenwood!KenwoodIsTold
               /\ part = "icom" => OverCIV!IcomIsTold
               /\ part = "yaesu" => OverYaesu!YaesuIsTold

\* A test run transmits, and switches the radio off, with leave only; and where
\* its summary says the radio was restored, it was (selftest.Run, Runner.restore).
TestRunKeepsItsWord ==
    part = "selftest" => Testing!NothingUnasked /\ Testing!RestoredIsAsFound
=============================================================================
