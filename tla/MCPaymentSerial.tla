---------------------------- MODULE MCPaymentSerial ----------------------------
EXTENDS PaymentSerial, TLC

SerialOperations == RecordOperations \cup MemberOperations

==============================================================================
