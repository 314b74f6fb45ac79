\* Two devices of any product, an allocation of them and a foreign result in any
\* order, every shape of template.
CONSTANTS
    d1 = d1
    d2 = d2
    Devices <- MCDevices
    Foreign = Foreign
    Allocations <- MCAllocations
    Templates <- MCTemplates
SPECIFICATION Spec
INVARIANT TypeOK
INVARIANT NodeMissingOnlyIfMoved
INVARIANT SpecMatchesConfig
INVARIANT ContentDocumented
INVARIANT TemplateKept
INVARIANT RefusedForCause
PROPERTY NoiommuNotInjected
