--------------------------- MODULE ErrorMatching ---------------------------
(***************************************************************************)
(* The pure part of internal/checks/error.go: which responses count as     *)
(* errors of an upstream.  A code is the tuple of its digits, <<>> being   *)
(* the empty string; an error message is the set of the configured error   *)
(* strings it contains, or NoMessage, the empty string.                    *)
(***************************************************************************)
EXTENDS Integers, Sequences

CONSTANTS
    HTTPCodes, JSONRPCCodes,   \* sets of patterns; "x" and "X" match any digit
    ErrorStrings,
    NoMessage,
    NoBody                     \* a response without a JSON RPC body

\* A subresponse of the body, which may carry an error.
Subresponse(error, code, message) ==
    [error |-> error, code |-> code, message |-> message]

\* The data of RecordRequest: types.RequestData and whether its latency reaches
\* the threshold.
Code == Seq(STRING)
Message == {NoMessage} \cup SUBSET ErrorStrings
RequestData ==
    [httpCode : Code,
     body     : {NoBody} \cup Seq([error : BOOLEAN, code : Code, message : Message]),
     error    : Message,
     slow     : BOOLEAN]

isMatch(responseCode, pattern) ==
    /\ Len(responseCode) = Len(pattern)
    /\ \A i \in DOMAIN pattern :
          pattern[i] \in {"x", "X"} \/ pattern[i] = responseCode[i]

isMatchForPatterns(responseCode, patterns) ==
    /\ responseCode # <<>>
    /\ patterns = {} \/ \E p \in patterns : isMatch(responseCode, p)

isErrorMatches(errorMsg) ==
    /\ errorMsg # NoMessage
    /\ ErrorStrings = {} \/ \E s \in ErrorStrings : s \in errorMsg

isError(httpCode, jsonRPCCode, errorMsg) ==
    \/ isMatchForPatterns(httpCode, HTTPCodes)
    \/ isMatchForPatterns(jsonRPCCode, JSONRPCCodes)
    \/ isErrorMatches(errorMsg)

\* HTTPResponseCode >= http.StatusBadRequest; no response at all has code 0.
IsHTTPError(code) == Len(code) = 3 /\ code[1] \in {"4", "5"}

(***************************************************************************)
(* ErrorCheck.RecordRequest: what it records in the circuit breaker, in    *)
(* order, and what it returns.                                             *)
(***************************************************************************)
WithoutRPC(data) == IsHTTPError(data.httpCode) \/ data.body = NoBody

RecordedErrors(data) ==
    IF WithoutRPC(data)
    THEN <<isError(data.httpCode, <<>>, data.error)>>
    ELSE [i \in DOMAIN data.body |->
             /\ data.body[i].error
             /\ isError(<<>>, data.body[i].code, data.body[i].message)]

ReturnsError(data) ==
    \/ WithoutRPC(data)
    \/ \E i \in DOMAIN RecordedErrors(data) : RecordedErrors(data)[i]
=============================================================================
