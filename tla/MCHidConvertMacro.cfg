SPECIFICATION Spec
CONSTANTS
  HaltEps = {}
  MaxEvents = 1
  Kinds = {"MACRO2"}
  BusEvents = {"reset"}
PROPERTY MacrosOnce
