\* Every position of the directional pad; halves of the button bytes with
\* each bit set alone, all and none; cleared and filled buffers.
CONSTANTS
    Reports <- SomeReports
    Buffers <- SomeBuffers
SPECIFICATION Spec
INVARIANT HatShowsDPad
INVARIANT FieldsShowInput
