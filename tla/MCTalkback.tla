------------------------------ MODULE MCTalkback ------------------------------
(* Offers that take each branch: both laws and a dynamic payload type, each  *)
(* direction, a direction at session level, an unusable address, TCP, video, *)
(* audio before video, neither, and one that does not parse.                 *)
EXTENDS Talkback

Media(kind, port, types) ==
    <<"m", [kind |-> kind, port |-> port, tcp |-> FALSE, types |-> types]>>

OverTcp(kind, port, types) ==
    <<"m", [kind |-> kind, port |-> port, tcp |-> TRUE, types |-> types]>>

Head4(address) ==
    <<<<"o", "platform">>, <<"s", "Play">>, <<"c", address>>, <<"t", <<0, 0>>>>>>

Rtpmap(type, name) == <<"a", <<"rtpmap", <<type, name>>>>>>

A(name) == <<"a", <<name, "">>>>

MCOffers ==
    [both    |-> Head4("host") \o <<Media("audio", 1, <<8>>), <<"y", 5>>>>,
     mu      |-> Head4("host") \o <<Media("audio", 1, <<99, 0>>), A("sendrecv")>>,
     named   |-> Head4("host") \o <<Media("audio", 1, <<96>>), Rtpmap(0, "pcmu"), A("recvonly")>>,
     speak   |-> Head4("host") \o <<Media("audio", 1, <<8>>), A("sendonly")>>,
     listen  |-> Head4("hostname") \o <<Media("audio", 1, <<8>>), A("recvonly")>>,
     global  |-> Head4("host") \o <<A("sendonly"), Media("audio", 1, <<0>>)>>,
     tcp     |-> Head4("host") \o <<OverTcp("audio", 1, <<8>>), <<"a", <<"setup", "active">>>>>>,
     dynamic |-> Head4("host") \o <<Media("audio", 1, <<97>>), Rtpmap(97, "pcmu")>>,
     mixed   |-> Head4("host") \o <<Media("audio", 1, <<8>>), Media("video", 2, <<96>>)>>,
     data    |-> Head4("host") \o <<Media("application", 1, <<>>)>>,
     headless |-> <<Media("audio", 1, <<8>>)>>]

(* One of each kind of session and of refusal, for the run with a host that  *)
(* encodes.                                                                  *)
MCSessions == [name \in DOMAIN MCOffers \ {"named", "global", "tcp"} |-> MCOffers[name]]
===============================================================================
