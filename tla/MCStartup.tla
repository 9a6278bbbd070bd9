----------------------------- MODULE MCStartup -----------------------------
(* Small instances of Startup: command lines of up to five options.         *)
EXTENDS Startup, TLC

\* Two channels closer than one, in the tuner's gap, far apart, and out of
\* reach; a third one; one alone; and one that a float cannot hold.
A == 145500000
MCFreqLists ==
  {<<A>>, <<A, A + 11999>>, <<A, A + 313001>>, <<A + 2375000, A>>,
   <<A, A + 287500000>>, <<A, A + 25000, A + 50001>>, <<A + 12500>>}
MCModeLists == {<<"am">>, <<"wbfm">>, <<"usb", "wbfm">>, <<"am", BadMode>>}
Tcp(port) == [kind |-> "tcp", name |-> "", port |-> port]
Udp(host, port) == [kind |-> "udp", name |-> host, port |-> port]
MCNames == {"", "-", "host", "audio"}
MCOutputLists ==
  {<<Tcp(6000)>>, <<Stdout>>, <<File("")>>, <<Tcp(65536)>>,
   <<Udp("host", 1), File("audio")>>, <<Tcp(6001), Tcp(6001)>>,
   <<Tcp(6000), Stdout>>, <<Udp("host", 0), Tcp(6000)>>,
   <<File("audio"), Tcp(6000), Tcp(6001)>>}
MCRates == {3000, 12501, 1200000, 2500000}

\* A channel at the very edge, rates off by one, just below a channel's, too high
\* to decimate, and none at all.
MCRecordings ==
  {[rate |-> 48000, center |-> A + 18000], [rate |-> 48001, center |-> A + 4],
   [rate |-> 12500, center |-> A], [rate |-> 3200000, center |-> A + 100000],
   [rate |-> 0, center |-> A]}
MCAudioRates == {0, 12000}
MCEnables == {"dc", "deemp", "direct2", "no such option"}
MCGains == {-100, 245}
MCGainReductions == {0, 59, 60}
MCLnaStates == {0, 2, 3}

\* A tuner with a pair of gains as far from 24.5 dB, and an error of the library.
MCTunerGains == <<0, 9, 240, 250, 496>>
MCErrors == {-1}

\* The scan for a gain ends at one of the nearest, the first of them.
ASSUME NearestIsNearest ==
  \A target \in -50 .. 550 :
    \E i \in DOMAIN MCTunerGains :
      /\ NearestOf(target) = MCTunerGains[i]
      /\ \A j \in DOMAIN MCTunerGains :
           \/ Distance(target, MCTunerGains[i]) < Distance(target, MCTunerGains[j])
           \/ /\ Distance(target, MCTunerGains[i]) = Distance(target, MCTunerGains[j])
              /\ i <= j
=============================================================================
