--------------------------- MODULE MinimalWorker ----------------------------
(***************************************************************************)
(* The responder behind the shell's dispatchers, DNS.Worker.Minimal: the   *)
(* DoQ ID rule, the scan of an uncompressed QNAME, the generated question  *)
(* validator, and the three responses.  Each behaviour is one call, on any *)
(* request in a larger stream buffer and any bytes left in the response    *)
(* buffer.  The loops are one step per label and one per copied byte.      *)
(***************************************************************************)
EXTENDS Integers

CONSTANTS
    LabelLimit,     \* 63
    NameLimit,      \* 255
    BufferSize,     \* length of sc_buf
    ResponseSize,   \* length of response_buffer
    Requests,       \* stream buffers and request lengths
    Stale,          \* response buffers before the call
    Capacities      \* values of response_capacity

Byte == 0 .. 255

ASSUME MinimalAssumption ==
    /\ LabelLimit \in Nat /\ NameLimit \in Nat \ {0}
    /\ BufferSize \in Nat /\ ResponseSize \in Nat
    /\ Requests \subseteq [buf : [0 .. BufferSize - 1 -> Byte], len : 0 .. BufferSize]
    /\ Stale \subseteq [0 .. ResponseSize - 1 -> Byte]
    /\ Capacities \subseteq 0 .. ResponseSize

VARIABLES
    entry,          \* the function called
    request,        \* sc_buf and request_len
    capacity,       \* response_capacity
    response,       \* response_buffer
    at,             \* "idle", "scan", "decide", "copy" or "done"
    pos, consumed,  \* the scan's arguments
    starts,         \* history: where the scan found length bytes
    qname_length,   \* what the scan returned
    copied,         \* idx of copy_question_bytes
    returned        \* the length returned

arguments == <<entry, request, capacity>>
scan == <<pos, consumed, starts>>
callVars == <<arguments, response, at, scan, qname_length, copied, returned>>

CallInit ==
    /\ entry \in {"validated", "error", "noerror"}
    /\ request \in Requests /\ capacity \in Capacities /\ response \in Stale
    /\ at = "idle"
    /\ pos = 12 /\ consumed = 0 /\ starts = {12}
    /\ qname_length = 0 /\ copied = 0 /\ returned = 0

----------------------------------------------------------------------------
(* Responses.                                                              *)

(* The request's flags without AA and TC (0x79) and with QR set (0x80);    *)
(* of the second byte only CD (0x10) is kept.                              *)
noerror_response_flags_hi(hi) == 128 + 8 * ((hi \div 8) % 16) + (hi % 2)
noerror_response_flags_lo(lo) == 16 * ((lo \div 16) % 2)

(* Bytes 0 .. 11 of a response: the request's ID, flags, QDCOUNT, zeros.   *)
HeaderByte(r, hi, lo, questions, i) ==
    IF i < 2 THEN r.buf[i]
    ELSE IF i = 2 THEN hi
    ELSE IF i = 3 THEN lo
    ELSE IF i = 5 THEN questions ELSE 0

WithHeader(out, r, hi, lo, questions) ==
    [i \in 0 .. ResponseSize - 1 |->
        IF i < 12 THEN HeaderByte(r, hi, lo, questions, i) ELSE out[i]]

Error(out, r) == WithHeader(out, r, 129, 1, 0)
Noerror(out, r, questions) ==
    WithHeader(out, r, noerror_response_flags_hi(r.buf[2]),
               noerror_response_flags_lo(r.buf[3]), questions)

Return(out, n) ==
    /\ at' = "done"
    /\ response' = out
    /\ returned' = n
    /\ UNCHANGED <<arguments, scan, qname_length, copied>>

HeaderFits == request.len >= 12 /\ capacity >= 12

prepare_worker_minimal_error_response_send ==
    IF HeaderFits THEN Return(Error(response, request), 12) ELSE Return(response, 0)

prepare_worker_empty_noerror_response_send ==
    IF HeaderFits THEN Return(Noerror(response, request, 0), 12) ELSE Return(response, 0)

----------------------------------------------------------------------------
(* Validation of a request with one uncompressed question.                 *)

valid_doq_request_id(r) == r.len >= 12 /\ r.buf[0] = 0 /\ r.buf[1] = 0

QuestionSized(r) == 17 <= r.len /\ r.len <= 16 + NameLimit
OneQuestion(r) == r.buf[4] = 0 /\ r.buf[5] = 1 /\ \A i \in 6 .. 11 : r.buf[i] = 0

(* The labels of a name of n bytes at offset 12 start at S, the root byte  *)
(* excepted, and fill it.                                                  *)
LabelsAt(buf, n, S) ==
    /\ 12 \in S
    /\ \A i \in S : i < 11 + n => buf[i] \in 1 .. LabelLimit /\ i + 1 + buf[i] \in S

(* Grammar dns_uncompressed_question of the generated validator, which is  *)
(* given the bytes after the header.                                       *)
check_dns_uncompressed_question_code(n, r) ==
    /\ n \in 1 .. NameLimit
    /\ n + 4 <= r.len - 12
    /\ r.buf[11 + n] = 0
    /\ \E S \in SUBSET (12 .. 11 + n) : LabelsAt(r.buf, n, S)

(* Faulty variant: the root byte is counted twice.                         *)
label_fits_below(r, p, c) ==
    /\ r.buf[p] \in 1 .. LabelLimit
    /\ p + 1 + r.buf[p] <= r.len
    /\ c + 1 + r.buf[p] + 1 < NameLimit

(* The scan steps over a label.                                            *)
label_fits(r, p, c) ==
    /\ r.buf[p] \in 1 .. LabelLimit
    /\ p + 1 + r.buf[p] <= r.len
    /\ c + 1 + r.buf[p] <= NameLimit

ScanLabel ==
    /\ at = "scan"
    /\ pos < request.len
    /\ label_fits(request, pos, consumed)
    /\ pos' = pos + 1 + request.buf[pos]
    /\ consumed' = consumed + 1 + request.buf[pos]
    /\ starts' = starts \cup {pos'}
    /\ UNCHANGED <<arguments, response, at, qname_length, copied, returned>>

(* It stops at the root byte, or refuses.                                  *)
ScanEnd ==
    /\ at = "scan"
    /\ ~(pos < request.len /\ label_fits(request, pos, consumed))
    /\ qname_length' = IF pos < request.len /\ request.buf[pos] = 0 /\ consumed < NameLimit
                       THEN consumed + 1 ELSE 0
    /\ at' = "decide"
    /\ UNCHANGED <<arguments, response, scan, copied, returned>>

(* The rest of the validator, and the choice of the response.              *)
QuestionFills == qname_length # 0 /\ qname_length + 16 = request.len

Decide ==
    /\ at = "decide"
    /\ \/ /\ QuestionFills /\ check_dns_uncompressed_question_code(qname_length, request)
          /\ capacity >= request.len
          /\ at' = "copy"
          /\ UNCHANGED <<arguments, response, scan, qname_length, copied, returned>>
       \/ /\ QuestionFills /\ check_dns_uncompressed_question_code(qname_length, request)
          /\ capacity < request.len
          /\ Return(response, 0)
       \/ /\ ~(QuestionFills /\ check_dns_uncompressed_question_code(qname_length, request))
          /\ prepare_worker_minimal_error_response_send

----------------------------------------------------------------------------
(* prepare_worker_question_noerror_response_send: the question is copied,  *)
(* then the header is written.                                             *)

(* Faulty variant: one byte short.                                         *)
CopiedShort == copied + 1 = request.len - 12

AllCopied == copied = request.len - 12

copy_question_bytes ==
    /\ at = "copy"
    /\ ~AllCopied
    /\ response' = [response EXCEPT ![12 + copied] = request.buf[12 + copied]]
    /\ copied' = copied + 1
    /\ UNCHANGED <<arguments, at, scan, qname_length, returned>>

WriteHeader ==
    /\ at = "copy"
    /\ AllCopied
    /\ Return(Noerror(response, request, 1), request.len)

----------------------------------------------------------------------------
(* The entry points.                                                       *)

prepare_worker_validated_minimal_response_send ==
    /\ at = "idle" /\ entry = "validated"
    /\ \/ ~valid_doq_request_id(request) /\ Return(response, 0)
       \/ /\ valid_doq_request_id(request)
          /\ ~(QuestionSized(request) /\ OneQuestion(request))
          /\ prepare_worker_minimal_error_response_send
       \/ /\ valid_doq_request_id(request)
          /\ QuestionSized(request) /\ OneQuestion(request)
          /\ at' = "scan"
          /\ UNCHANGED <<arguments, response, scan, qname_length, copied, returned>>

ErrorOnly ==
    at = "idle" /\ entry = "error" /\ prepare_worker_minimal_error_response_send

EmptyNoerror ==
    at = "idle" /\ entry = "noerror" /\ prepare_worker_empty_noerror_response_send

CallNext ==
    \/ prepare_worker_validated_minimal_response_send
    \/ ErrorOnly \/ EmptyNoerror
    \/ ScanLabel \/ ScanEnd \/ Decide
    \/ copy_question_bytes \/ WriteHeader

CallSpec == CallInit /\ [][CallNext]_callVars

----------------------------------------------------------------------------
CallTypeOK ==
    /\ entry \in {"validated", "error", "noerror"}
    /\ request \in [buf : [0 .. BufferSize - 1 -> Byte], len : 0 .. BufferSize]
    /\ capacity \in 0 .. ResponseSize
    /\ response \in [0 .. ResponseSize - 1 -> Byte]
    /\ at \in {"idle", "scan", "decide", "copy", "done"}
    /\ pos \in Nat /\ consumed \in Nat /\ starts \in SUBSET Nat
    /\ qname_length \in 0 .. NameLimit /\ copied \in Nat
    /\ returned \in 0 .. BufferSize

(* The question of a request is one name within the limits, QTYPE, QCLASS. *)
WellFormedQuestion(r) ==
    \E n \in 1 .. NameLimit :
        /\ r.len = 12 + n + 4
        /\ r.buf[11 + n] = 0
        /\ \E S \in SUBSET (12 .. 11 + n) : LabelsAt(r.buf, n, S)

(* The hand-written scan accepts exactly the well-formed questions, however*)
(* the labels meet the limits, the end of the request or the bytes that an *)
(* earlier stream left behind it; the generated validator never refuses    *)
(* what the scan accepted (DNS.Worker.Minimal.fst:32-75).                  *)
ScanExact ==
    at = "decide" =>
        /\ QuestionFills <=> WellFormedQuestion(request)
        /\ QuestionFills => check_dns_uncompressed_question_code(qname_length, request)

Accepted(r) ==
    valid_doq_request_id(r) /\ OneQuestion(r) /\ WellFormedQuestion(r)

(* Bytes lo .. hi - 1 of the response are those of the request.            *)
Echoes(lo, hi) == \A i \in lo .. hi - 1 : response[i] = request.buf[i]

(* NOERROR keeps the opcode and RD of the request, and no other flag of    *)
(* its first byte.                                                         *)
NoerrorFlags ==
    /\ response[2] = 128 + 8 * ((request.buf[2] \div 8) % 16) + (request.buf[2] % 2)
    /\ response[3] \in {0, 16}

(* What a call answers, whatever the response buffer held before: an       *)
(* accepted question is echoed whole under a NOERROR header, anything else *)
(* with a zero ID gets a bare FORMERR header.  It stays silent only for a  *)
(* wrong ID, a short request or a buffer too small for the response it     *)
(* chose (prepare_worker_validated_minimal_response_send).                 *)
ResponseExact ==
    at = "done" =>
        IF returned = 0
        THEN \/ ~HeaderFits
             \/ entry = "validated" /\ ~valid_doq_request_id(request)
             \/ entry = "validated" /\ Accepted(request) /\ capacity < request.len
        ELSE /\ returned <= capacity
             /\ Echoes(0, 2)
             /\ entry = "validated" => valid_doq_request_id(request)
             /\ IF entry = "validated" /\ Accepted(request)
                THEN NoerrorFlags /\ returned = request.len /\ Echoes(4, request.len)
                ELSE /\ IF entry = "noerror" THEN NoerrorFlags
                        ELSE response[2] = 129 /\ response[3] = 1
                     /\ returned = 12 /\ \A i \in 4 .. 11 : response[i] = 0
=============================================================================
