------------------------------ MODULE MCProcess ------------------------------
(* Instances of Process for TLC; the cfg file gives every constant. *)
EXTENDS Process

(* Two ports, so that endpoints meet; rates that divide the capture, that    *)
(* do not, of neither sign; frequencies in the middle of the span, at the    *)
(* edge of the narrowest and outside all.                                    *)
MCReceivers == [tcpPort : {0, 1, 2}, spyserverPort : {0, 2},
                center : {0, 4000, 1000001}, rate : {-4000, 0, 3000, 4000}]

MCConfig(connection, sections, mode, rate, rs) ==
    [complete |-> TRUE, connection |-> connection, sections |-> sections, networkMode |-> mode,
     center |-> 0, rate |-> rate, receivers |-> rs]

(* One receiver with every rate of the capture, two at one rate, and each    *)
(* way the sections can be wrong; 8000 Hz takes a factor that does not fit.  *)
MCConfigs ==
    LET r0  == [tcpPort |-> 1, spyserverPort |-> 3, center |-> 0, rate |-> 4000]
        One == {<<r>> : r \in MCReceivers}
        Two == {<<r, s>> : r \in MCReceivers, s \in {x \in MCReceivers : x.rate # 3000 /\ x.center # 0}}
    IN  {MCConfig("api", {"sdrplay"}, "Full IQ", rate, rs) :
             rate \in {-8000, 0, 8000, 16000, 1000000, 2000000, 9216000}, rs \in One \cup {<<>>}}
        \cup {MCConfig("sdrconnect", {"sdrconnect"}, "IQ Lite", 8000, rs) : rs \in Two}
        \cup {MCConfig(c, s, m, 8000, <<r0>>) :
                 c \in {"api", "sdrconnect", "usb"}, s \in SUBSET {"sdrplay", "sdrconnect"}, m \in {"Compact", "Lossy"}}
        \cup {[MCConfig("api", {"sdrplay"}, "Full IQ", 8000, <<r0>>) EXCEPT !.complete = FALSE]}
=============================================================================
