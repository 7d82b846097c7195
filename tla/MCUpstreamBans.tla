--------------------------- MODULE MCUpstreamBans ---------------------------
EXTENDS UpstreamBans

CONSTANTS r1, r2, u1, m1, m2, E

MCRequests == {r1, r2}

\* A batch meets a breaker that its own loop has closed, and a method that has
\* none.  Requests for the other method share the breaker of errors.
MCRequestBodies ==
    {SingleRequestBody(m1), BatchRequestBody(<<m1, m2, m1>>), BatchRequestBody(<<m2>>)}

\* httpCodes: [5xx]; jsonRpcCodes: [-32xxx]; errorStrings: [E].
MCHTTPCodes == {<<"5", "x", "x">>}

MCJSONRPCCodes == {<<"-", "3", "2", "x", "x", "x">>}

Ok == Subresponse(FALSE, <<>>, NoMessage)

Failed == Subresponse(TRUE, <<"-", "3", "2", "0", "0", "0">>, {})

\* An error that is not configured: execution reverted, for example.
Reverted == Subresponse(TRUE, <<"3">>, {})

HTTP(code, slow) ==
    [httpCode |-> code, body |-> NoBody, error |-> NoMessage, slow |-> slow]

RPC(subresponses, slow) ==
    [httpCode |-> <<"2", "0", "0">>, body |-> subresponses, error |-> NoMessage,
     slow |-> slow]

\* One that is slow, one that counts as an error and a success, and an error.
MCResponses == {
    RPC(<<Reverted>>, TRUE), RPC(<<Failed, Ok>>, FALSE),
    HTTP(<<"5", "0", "3">>, FALSE)}

=============================================================================
