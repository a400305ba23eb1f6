------------------------------ MODULE MCHttpServer ------------------------------
(* A small instance of HttpServer for TLC: a client with up to three messages, *)
(* good ones with and without headers, a repeated header, a body, one that     *)
(* reads as a request, and lines that are bad in each of the ways the parser   *)
(* tells apart.                                                                *)
EXTENDS HttpServer

Message(line, headers, body) == [line |-> line, headers |-> headers, body |-> body]

Plain11    == Message(RequestLine("GET", "/", "?q", "kHttp11"), <<Header("Host", "h")>>, <<>>)
Closing11  == Message(RequestLine("GET", "/", "", "kHttp11"),
                      <<Header("Connection", "Keep-Alive"), Header("Connection", "close")>>, <<>>)
Plain10    == Message(RequestLine("HEAD", "/b", "", "kHttp10"), <<>>, <<>>)
Keep10     == Message(RequestLine("PUT", "/c", "", "kHttp10"),
                      <<Header("Connection", "Keep-Alive")>>, <<>>)
WithBody   == Message(RequestLine("POST", "/b", "", "kHttp11"), <<>>, <<Text>>)
ReadBody   == Message(RequestLine("POST", "/", "", "kHttp11"), <<>>,
                      <<RequestLine("GET", "/b", "", "kHttp10"), CR, LF, CR, LF>>)
BadMethod  == Message(RequestLine("BREW", "/", "", "kHttp11"), <<>>, <<>>)
BadVersion == Message(RequestLine("GET", "/", "", "HTTP/2.0"), <<>>, <<>>)
NoVersion  == Message(RequestLine("GET", "/", "", "none"), <<>>, <<>>)

Messages   == {Plain11, Closing11, Plain10, Keep10, WithBody, ReadBody, BadMethod, BadVersion, NoVersion}
MCPrograms == {<<l, m, n>> : l, m \in Messages, n \in {Plain11, Closing11}}
=================================================================================
