------------------------------ MODULE CryptoTask ------------------------------
(* The lengths of a packet on its way through a crypto operation            *)
(* (dpdkx_crypto_ops.c, dpdkx_crypto_ipsec.c).  The bytes themselves are     *)
(* abstracted away: what is kept is where the data of an operation starts,   *)
(* how long it is, and what is put before or behind the packet for it.       *)
EXTENDS Integers

PTR     == 8    \* sizeof(void*): the context or descriptor pointer in front
BLOCK   == 16
DIGEST  == 16   \* MD5_DIGEST_LEN, TOTAL_HMAC_LENGTH
KEPT    == 12   \* KEPT_HMAC_LENGTH
ETH     == 14
IP      == 20
ESPHEAD == 8 + 16   \* esp_head_size + iv_size

Padding(n) == (BLOCK - (n % BLOCK)) % BLOCK

(* mutant: the padding is computed when the pointer is already in front      *)
PadsWithPointer(type, len, offset, suspends) ==
  LET ptr   == IF suspends THEN PTR ELSE 0
      plain == len + ptr - offset
      pad   == IF type = "MD5_HMAC" THEN 0 ELSE Padding(plain)
  IN  [type |-> type, offset |-> offset + ptr, plain |-> plain, padding |-> pad,
       len |-> len + ptr + pad]

(* create_crypto_task: with a context (or a stored descriptor) a pointer is  *)
(* prepended, and a cipher operation is padded to whole blocks.              *)
create_crypto_task(type, len, offset, suspends) ==
  LET plain == len - offset
      pad   == IF type = "MD5_HMAC" THEN 0 ELSE Padding(plain)
      ptr   == IF suspends THEN PTR ELSE 0
  IN  [type |-> type, offset |-> offset + ptr, plain |-> plain, padding |-> pad,
       len |-> len + ptr + pad]

(* prepare_hmac_op appends room for the digest; a cipher works in place.     *)
crypto_task_to_rte_crypto_op(task) ==
  [from |-> task.offset,
   count |-> IF task.type = "MD5_HMAC" THEN task.plain ELSE task.plain + task.padding,
   len |-> task.len + (IF task.type = "MD5_HMAC" THEN DIGEST ELSE 0)]

(* process_hmac_result moves the digest in front of the padding and trims    *)
(* the padding; the result of a cipher keeps its padding.                    *)
process_crypto_op_result(task, len) ==
  IF task.type = "MD5_HMAC" THEN len - task.padding ELSE len

(* execute_task_blocking, whether or not the device took the operation: what *)
(* a digest or the padding was appended for stays in the packet.             *)
SyncLength(type, len, offset) ==
  LET task == create_crypto_task(type, len, offset, FALSE)
  IN  process_crypto_op_result(task, crypto_task_to_rte_crypto_op(task).len)

(* The operation of a suspended packet, while it is in the device ...        *)
AsyncLength(type, len, offset) ==
  crypto_task_to_rte_crypto_op(create_crypto_task(type, len, offset, TRUE)).len

(* ... and after resume_packet_handling took the pointer off again.          *)
ResumedLength(len) == len - PTR

(* ipsec_encapsulate before its first operation: room for the ESP header,    *)
(* the inner IP header and the padding; after its last: 4 bytes of the       *)
(* digest are cut off.                                                       *)
ToEncrypt(len) == (len - ETH) + Padding(len - ETH + 2) + 2
IpsecOpened(len) == len + ESPHEAD + ToEncrypt(len) - (len - ETH - IP)
IpsecClosed(len) == len - (DIGEST - KEPT)
===============================================================================
