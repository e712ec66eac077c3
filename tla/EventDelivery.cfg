\* Every message of the instance, sent in every way, in every order.
CONSTANTS
  Instant <- MCInstant
  Digits <- MCDigits
  Letters <- MCLetters
  Messages <- MCMessages
SPECIFICATION Spec
INVARIANTS EventKept NotificationConverted BatchWhole LegacyShapesAgree ResourceNamed BytesDecoded NameUnderstood PartsUnderstood
