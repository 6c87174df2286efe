------------------------------ MODULE MCSockJS ------------------------------
(***************************************************************************)
(* Lists that detectProtocols returns for a browser with web sockets, one  *)
(* without, and one where nothing is left; streaming and JSONP need the    *)
(* page's body.                                                            *)
(***************************************************************************)
EXTENDS SockJS

MCProtocolLists == {<<"websocket", "xhr-streaming", "xhr-polling">>,
                    <<"iframe-eventsource", "jsonp-polling">>, <<>>}
MCNeedBody == {"xhr-streaming", "iframe-eventsource", "jsonp-polling"}
=============================================================================
