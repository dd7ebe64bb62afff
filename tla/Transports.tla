------------------------------ MODULE Transports ------------------------------
(***************************************************************************)
(* The parts of the nameserver transports that compute: DNSCrypt padding   *)
(* and certificate choice, and the stream trick of the custom transport.   *)
(***************************************************************************)
EXTENDS Integers, SequencesExt

CONSTANTS
  MinimumSize, ModuloSize,  \* DNSCRYPT_MINIMUM_SIZE, DNSCRYPT_MODULO_SIZE
  Byte, Marker, Zero,       \* the bytes, 0x80 and 0x00 among them
  NoCert

ASSUME TransportsAssumption ==
  /\ MinimumSize \in Nat /\ ModuloSize \in Nat \ {0}
  /\ {Marker, Zero} \subseteq Byte /\ Marker # Zero

\* Mutant of PadQuery: no room is kept for the marker.
PadQueryTight(message) ==
  LET least == IF Len(message) < MinimumSize THEN MinimumSize ELSE Len(message)
      size == least + ((ModuloSize - (least % ModuloSize)) % ModuloSize)
  IN  [i \in 1 .. size |->
        IF i <= Len(message) THEN message[i] ELSE IF i = Len(message) + 1 THEN Marker ELSE Zero]

\* _pad_query
PadQuery(message) ==
  LET least == IF Len(message) + 1 < MinimumSize THEN MinimumSize ELSE Len(message) + 1
      size == least + ((ModuloSize - (least % ModuloSize)) % ModuloSize)
  IN  [i \in 1 .. size |->
        IF i <= Len(message) THEN message[i] ELSE IF i = Len(message) + 1 THEN Marker ELSE Zero]

\* What the server does with it: everything from the last marker on is padding.
Unpad(padded) ==
  LET last == SelectLastInSeq(padded, LAMBDA byte : byte # Zero)
  IN  IF last # 0 /\ padded[last] = Marker THEN SubSeq(padded, 1, last - 1) ELSE <<>>

\* Bytes of a certificate: magic and versions, signature, and the fields that
\* _fetch_server_key unpacks from the signed data (32 + 8 + 4 + 4 + 4).
HeaderSize == 8
SignatureSize == 64
FieldsSize == 52

\* The bytes verify_key.verify returns of a certificate.
SignedSize(cert) == cert.length - HeaderSize - SignatureSize

\* Mutant of Usable: a certificate that ends with its fields is used.
UsableWithoutExtension(cert, now) ==
  /\ cert.length > HeaderSize /\ cert.understood /\ cert.signed
  /\ SignedSize(cert) >= FieldsSize
  /\ cert.start <= now /\ now <= cert.expire

\* A certificate _fetch_server_key considers: it has the right magic and version,
\* the provider's signature, more signed data than the fields take and a validity
\* that includes now.
Usable(cert, now) ==
  /\ cert.length > HeaderSize /\ cert.understood /\ cert.signed
  /\ SignedSize(cert) > FieldsSize
  /\ cert.start <= now /\ now <= cert.expire

\* _fetch_server_key: the first of the highest serial among those usable; NoCert
\* is its TypeError.
SelectCertificate(certs, now) ==
  LET selected[n \in 0 .. Len(certs)] ==
        IF n = 0 THEN NoCert
        ELSE IF Usable(certs[n], now)
                /\ (selected[n - 1] = NoCert \/ certs[n].serial > selected[n - 1].serial)
        THEN certs[n]
        ELSE selected[n - 1]
  IN  selected[Len(certs)]
-----------------------------------------------------------------------------
\* TrickyStreamSocket.sendall: the first 16 bytes and a zero are sent out of band.
StreamWrites(what, tricks) ==
  IF tricks /\ Len(what) > 32
  THEN <<[data |-> SubSeq(what, 1, 16) \o <<Zero>>, urgent |-> TRUE],
         [data |-> SubSeq(what, 17, Len(what)), urgent |-> FALSE]>>
  ELSE <<[data |-> what, urgent |-> FALSE]>>

\* TCP: the last byte of an urgent write is not part of the stream.
InBand(writes) ==
  FlattenSeq([i \in DOMAIN writes |->
    IF writes[i].urgent THEN Front(writes[i].data) ELSE writes[i].data])
=============================================================================
